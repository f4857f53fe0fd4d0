# terminal-lobby in TLA+

Models of how terminal-lobby carries a conversation between a browser and a
Claude: what a person sends, what waits, what is sent again, what the log shows,
which Claude has a tmux session, how one is put away and brought back, and how a
task given to an agent ends. Each module is translated from the source;
`PROJECT.json` (`map`) gives the lines of every definition. TLC checks the modules
on small instances, TLAPS proves the theorems listed below for every instance.

## The system

terminal-lobby serves tmux sessions to a browser. Most sessions run Claude Code,
which loads the lobby's *mod* (claude-mod). The mod tells session-events what
the Claude does and carries out what the lobby asks of it; nothing is typed into
the pane of such a session.

| part | state | operations | talks to |
|---|---|---|---|
| `claude-mod` link (link.ts, queue.ts, stamp.ts) | token, event queue, one request at a time, generation of hellos | hello, flush, poll, rehello, requeue | session-events, over a unix socket: `hello`, `events`, `poll` |
| `claude-mod` commands (commands.ts, seen.ts) | commands seen and their outcome | run a command, ack it, ack a repeat | link; Claude's `prompt.submit`, `abort` |
| `claude-mod` steering (steermain.ts) | a take in flight | ask for held prompts at a tool boundary, attach them as context | session-events `take-held` |
| `session-events` hub (mod.go) | connections by conversation, session and token; per connection: commands queued, in flight, acks waited for, the log's debts | hello, events (apply), poll, send, sendAll, forget, follow, sweep | mod; the routes; tmux options |
| `session-events` held prompts (held.go, steermain.go) | three lists (steering, held, waiting), a turn start waited on, two files, what an ended conversation left in its pane | hold, Up, cancel, Stop and its way back, release, take, confirm, carry, adopt | hub; files; stream |
| `session-events` routes (turn_routes.go, promptonce.go) | attempts by request id | prompt, unqueue, cancel, interrupt | browser; hub |
| `session-events` fold (modstate.go) | main turn, dialogs, agents | apply an event | hub; tmux options |
| `sessionio` (replay.go, modsource.go, resume.go, ...) | the log of a conversation; the marks of a suspended session | rebuild from a transcript, feed an event, resume | transcript file; tmux |
| frontend first prompt (first-prompt.ts) | line, rung of the ladder | deliver the lines of a new session | prompt route |
| frontend-v2 (the rest) | the lobby's store, streams, terminals | render | all services |
| `tmux-api` suspend (suspend.go, restart.go, suspendscan.go) | tmux's remain-on-exit, mark and resume command | sweep, stop a Claude, repair half a stop, restart, resume | tmux; /proc; sessionio |
| `tmux-api` (the rest) | layout, titles, shares, push, slots | session list, restore, share, notify | tmux, sudo helpers |
| `agent-api` tasks (runner.go, turn.go, turnread.go, tasks.go, dialogguard.go, task.go) | the tasks of a conversation, one runner goroutine, cancels and answers under way | post, send, watch, settle, cancel, answer, delete | tmux pane; transcript; the mod's stamps; session-events |
| `agent-api` (the rest) | delegations, t3 tasks | create, wait, post a result | tasks; t3 |
| `clipboard-upload`, `clipstore`, `file-api`, `skills-api`, `skillscan`, `spendstore` | files under one lock each | store, read, copy | file system |
| `tl-browser` launcher and host | one browser per session | proxy, gate, end | Chrome |
| `tl-session-watch`, `release`, `devvm/` | counters, package state | watch, apply | systemd, tmux |

The hard parts are the asynchronous ones, and most of those are between the mod
and session-events: either may be restarted or reloaded while the other goes on,
every request may time out while it is being served, one Claude is acted on from
several routes, and prompts move between five places (a browser's request, the
held lists, a command in the hub, the mod, Claude's own queue). In tmux-api and
agent-api they are between a service and a process it only sees through tmux,
/proc, a transcript and options another service writes. What must hold:

- *held prompts*: none is lost, read twice or stuck behind an idle Claude; what
  a person took back is not sent; the files agree with the lists.
- *the link*: the log is the conversation, in order, whole and without
  duplicates; the fold of the main turn is not left wrong.
- *commands and first prompts*: a line is sent once, in order, and one the
  browser took for sent was given to Claude.
- *the hub*: one Claude has a session, and its options say what that one says;
  one that goes leaves the session to the other, and its held prompts to the
  next conversation of its pane.
- *suspend and resume*: a session is marked only when its Claude is gone, what is
  marked can be resumed, nothing that runs is replaced, nothing is stranded.
- *tasks*: a task ends once Claude is at rest, with the last words of its own turn.
- *delegations, slots, stores, the session list's push* (not modelled): a
  delegation gets one result, from its target; a slot goes to one claimant; a
  write is not lost to a concurrent one.

The hazards, at their lines, are in `PROJECT.json` (`hazards`).

## Modules

**HeldPrompts** is one Claude conversation, its connection, and the three
actors that move its prompts: the routes, the fold (apply) and the mod. The
lists `steering`, `held`, `waiting` are modConn's. `applyMu` is the pair
`pc`/`cont`: `pc` is what its holder does next, so that the two file writes,
which happen outside `c.mu`, are steps between which other actors run. A route
is split where the code lets go of a lock or waits: a Stop is `StopTakes`,
`StopSends`, then `StopSucceeds` or `StopFails` (putBack). Commands go through
`cmds`, `inHand`, and acks through the mod's event queue, as in mod.go. Claude
is external: a prompt submitted is queued and read at a turn's start, or dropped by a
hook, of which the mod then tells (`DropPrompt`, `ApplyFailed`: commandFailed); a steered
one is read when its tool result is, and a row for it is stored. History variables record
what the person was told, what Claude read, what the mod was offered, and what a
Stop that failed put among the held though it waited or was offered (`putBack`).

**ModHub** is the connections of one user's Claudes and what becomes of a
session and of its held prompts when they come and go: the hello in its two
halves (the stamp written before the lock, the registration under it), the
yield of one Claude to another, the cap, the bye, the reaper in its two halves,
renames and `follow`, and the carry of what an ended conversation held, with the
files a restart reads back. `hub` is the value of modHub's maps, and the helpers
(`Drop`, `Adopt`, `Register`, `Release`, ...) are functions of it, as the code's
`...Locked` functions are of `h`. `quiet` is the age of `lastSeen`, in the three
classes the code compares it with. `crossed` records that two hellos stamped one session
at once, or that a hello found the session another's in one half and not in the other.
With `Races` FALSE the two halves of a hello and of a reap run with nothing between them. **SessionLease** is what the hub promises
of the sessions: each is one conversation's at a time, and none is taken from a
Claude that is talking unless the cap puts it out. ModHub implements it
(`Lease`, `Leased`), with `holder` the map bySession and `there` the conversations
whose mod holds a poll.

**ModLink** is one conversation's link: the mod's pump with its awaits, the
hello and events routes, the rebuild of a log from the transcript, and the main
turn's fold. Rows are numbers. A request in flight is in `calls` until
session-events is done with it, whether or not the mod still waits, so a batch
can be posted again while its first copy is being applied. `applying` is the
holder of applyMu. A rebuild waits for the transcript to reach the row a history
names and falls back to the history's messages when that takes too long (replayWait): where
the transcript has not reached it, that is the outcome. A hello's transcript stamp fails
when its session was renamed since (`Stamped`); the hello goes on without a transcript,
and a log so begun is `Astray` until the rename is noticed. Which faults an execution may meet is a record chosen at the
start from `Scopes` (so that one run explores several combinations without
their product). What a filter of the queue leaves is written by places (`Kept`): it is
what SelectSeq gives for the same test, in a form the prover can take apart. **ConversationLog** is what the log
promises; ModLink implements it (`ShowsConversation`), reading the same `stored` and `log`.

**FirstPrompt** is the delivery of the lines that start a session, through four
machines: the browser's ladder, the attempts by request id, the command queue of
the connection, and the mod's commands seen. A request may be given up while
session-events serves it, a poll's answer may be lost, either side restarts.
`acksOut` is the part of the mod's event queue that carries acks. Not
here: the branch that holds a line behind a running turn, which is HeldPrompts'.

**Suspend** is one tmux session and the requests that stop or start its Claude.
A request is where it is (`req[r].at`) and what it has read; every tmux call, every
signal and every look at /proc is a step, so a Claude may exit late, come back or
be started by hand, and the service be restarted, between any two: also between a
look and the call made because of it. Such a Claude, and one in a pane that another
request replaced, is one the request came too early to see (`late`). A look at /proc may find it
unreadable, and says then what the code takes that for. The pane of a plain session ends with its Claude; one tmux-persist restored (`shell`) goes on with
a shell. A call may fail, or (the signal) do nothing and say nothing. The three kinds
of request share the code they share in the source: a restart is a stop and then a
resume.

**AgentTurn** is one conversation of agent-api: the messages posted to it, the
goroutine that types them one at a time and watches each turn (a tick is `Look`,
which reads the state first, and then the branch for that state), and the cancels
and answers that act on the session beside it. An interrupt stamps the turn's end before
it has escaped the menu, and takes the stamp back only where the cancel had found one. A timer of watchTurn is a member of
`Timer` that is running or over. The transcript is a sequence of records that
name the message they are about; what a turn's reader sees of them is the suffix
after the mark (`Turn`), so a history that could not be found (`Unknown`) is
modelled as it is in the code. Claude, its pane and the stamps of its mod, which lag
behind the transcript and keep their order, are external.

`MCHeldPrompts`, `MCModLink`, `MCFirstPrompt`, `MCModHub`, `MCSuspend` and
`MCAgentTurn` instantiate them; the bounds are in the `.cfg` files, and the scopes
they choose from in the MC modules. Operators named `X_y` beside `X` are faulty
variants of X: the change a plausible bug would make, with which each property fails.

## Runs

| run | instance | question |
|---|---|---|
| held | two of 2 prompts and a slash command, 2 takes, a pane turn, prompts a hook drops, fairness | nothing is lost, read twice, or dropped unread (`HeldNotLost`, `ReadOnce`, `ConfirmedWasRead`); each comes to be read, returned or shown as failed (`HeldReaches`); types |
| held_stop | 2 prompts, a Stop that may fail, takes that miss or are served late | nothing is stuck behind an idle Claude (`NothingStuck`), the files and the order (`FilesFollow`, `HeldInOrder`), what was handed back is not read later (`ReturnedIsFinal`) and, unless a failed Stop had held it again, was not read before (`TakenBackUnread`) |
| link | 2 rows, a restart and a reload; or 2 rows and a batch resent while it is applied; or 1 row, a rename, and a loss or a transcript that lags; 1 turn, fairness | nothing is missing at rest (`NothingMissing`), the log implements ConversationLog (`ShowsConversation`) and catches up (`CatchesUp`), no row twice (`DrawnOnce`), the turn's fold (`FoldTracks`), the session's name (`NameFollows`) |
| first | 2 lines, 2 rungs; one each of a cut, a lost poll, a rehello, a refusal, a reload, a restart; fairness | `SentOnce`, `NotYetSentNothing`, `LinesInOrder`, `AcceptedArrives`; the delivery ends (`Settles`); types |
| hub | 3 conversations, 2 panes, 2 sessions, room for 2, 2 prompts, 2 ends, a Stop, a restart, a rename while nothing was held | the maps agree (`OneHolder`), a session is not taken from a Claude that talks (`Leased`), its state is its Claude's (`StateFollows`), what is held is given once and not lost (`GivenOnce`, `NotLost`) |
| hub_live | 2 conversations, 2 panes, an end, a rename, hellos and reaps that others interrupt, fairness | the only Claude left in a session comes to have it (`OwnerArrives`); the transcript stamped on a session is its Claude's (`StampFollows`) |
| suspend | a sweep, a restart alone, a resume, 4 launches, 2 failed calls, 2 restarts of the service, fairness | a marked session can be resumed (`MarkResumable`), the signal does not end it (`SessionSurvives`), a Claude that runs is marked or respawned over only by a request it came up behind (`MarkedUnlessLate`, `RespawnedUnlessLate`), half a stop is repaired (`NeverStranded`); types |
| agent | 2 messages and 1 event, or 1 message and 2 events, with the mod and without it, 1 answer, fairness | a result is its own turn's last words (`ResultIsOwn`, `ResultIsFinal`), tasks end (`TaskEnds`), a dialog is reported (`DialogReported`) |

Two prompts are enough to tell oldest from newest, one list from another and a
batch from a single command; the slash command is the one that is not held, and
`MaxAsks` lets the person ask two of the three, in any order. Two rows tell a row twice from a row late, and one loss, restart or reload
hits every point of the protocol, since it may happen at any step; what they do together
is proved, not run. Two lines
tell the line in flight from the next. In hub the third conversation is the one the
cap puts out or the next in a pane, and the second end lets one begin and end where
another left prompts; once both prompts are held two of ends, Stops and restarts come together, not three
(`Troubles`); conversations, panes, sessions and prompts are interchangeable there.
In suspend four launches are the first Claude, one the restart brings
back, one the resume brings back and one started by hand, and one failure and one
crash may fall in each of a stop and a resume. In agent an event is a first set of words, a
dialog, background work, a cancel, or a message, interrupt or answer that comes to
nothing: two of them on one message meet each other, and one meets a second message.

Deadlock is checked in suspend, whose sweep always comes round. In the other runs
it is not: once everything bounded has been sent those systems stop.

The type invariants of ModLink, ModHub and AgentTurn are not in a run; they are proved.

Runs that end in a violation show where the code and what it says of itself part:

| run | what happens |
|---|---|
| held_stop_returns | a Stop that fails puts a prompt the mod was handed among the held; Claude reads it from the tool result, and Up hands it back as one that never reached it |
| held_missed_take | a row confirms steered prompts by count, and drops others than those it brought |
| link_stale_history | a batch of the old module's log marks the new log's history as applied, and the new log stays empty |
| hub_carry | a conversation that comes back takes its prompts from its file, and the next in its pane takes them again from the carry |

What the passing runs leave out is as telling. With the bound or switch named
here raised, or the condition in the property dropped, TLC finds the property
violated, and the code does what it finds:

| property | with | what happens |
|---|---|---|
| `ConfirmedWasRead` | MissedTakes | held_missed_take |
| `TakenBackUnread` | what a failed Stop put back | held_stop_returns |
| `WaitSteersAfterStop` (a theorem) | the exception dropped | a failed Stop puts a waiting prompt back among those that steer (held.go:271), and the next tool boundary takes it, against held.go:180-181 |
| `NothingMissing` | a reload and overlap (`HistoryComes`) | link_stale_history |
| `NothingMissing` | overlap and a loss | the mod gives up its first batch while its history, read before any row, is still being rebuilt; the hello that follows is told the log is owed its history, and drops the rows its own covers; the old rebuild pays the debt, and apply drops the new history |
| `NothingMissing` | lag | whether the file is there is looked at when a row is stored (register.ts:330); one that appears after the last row is not noticed, and the path stays unknown |
| `NothingMissing`, `DrawnOnce`, `ShowsConversation` | a log that is astray | a hello is served after its session was renamed: the transcript stamp fails (mod.go:464-469), the log starts without a path and is rebuilt from messages that name no rows; the path stays unknown, and a row in the same batch is drawn again, until the rename is noticed and the next hello starts the log again |
| `DrawnOnce` | lag | the fallback history (mod.go:771) names no rows, and a row stored while it was read is drawn again from the queue |
| `DrawnOnce` | overlap and a reload, or overlap, a rename and a loss | a hello the mod waits for no more, sent before Claude had a transcript, is served after the one that followed it, and starts the log again without the path: the rebuild takes the history's own messages, which name no rows, and a row in the same batch is drawn again |
| `DrawnOnce` | overlap and three losses | a batch given up long ago, of an older history, is applied after the hello that would have brought more, and pays the debt; a row only that hello's snapshot has is missing, until another old batch draws it behind a later one. No row comes twice (`RowsDrawnOnce`) |
| `FoldTracks` | overlap and a loss | the first copy of a batch is applied after the second, and its older events take the fold of the turn back, until the next level (30 seconds) |
| `SentOnce` | a restart | promptOnce's attempts are in memory (promptonce.go:61): the retry of a line the mod has taken is a new command |
| `SentOnce` | a reload | a module reloaded after its submit and before its ack was posted is sent the command again (mod.go:492) and has not seen it |
| `AcceptedArrives` | a rehello and a reload | a repeat is acked ok while the first run has submitted nothing (seen.ts:38), and that run is lost |
| `LinesInOrder` | a rehello | the same early ack lets the next line overtake |
| `NotYetSentNothing` | a reload and a refusal | the second run of a command fails after the first one submitted |
| `GivenOnce` | a conversation that comes back while its prompts are carried | hub_carry |
| `NotLost` | a Stop in hand when its connection ends | the prompts are in no list of a live connection, and a restart before the abort fails loses them from the file too; if the abort fails, putBack (held.go:270) writes the file of the connection that ended over what it held of the prompts carried from it |
| `NotLost` | a conversation that comes back while its prompts are carried | whoever adopts the carry clears the file of the one that came back (held.go:492), with what it has held since: a restart loses it |
| `StampFollows` | two hellos that cross | both Claudes of a session find nobody there and stamp before either registers (mod.go:464), and the one that yields may have stamped last: a second Claude has stamped, against mod.go:462-463, until the holder's next hello |
| `StampFollows` | a hello that finds the session another's in one half only | one that would have yielded stamps nothing, and has the session by the time it registers, its owner dropped or put out by the cap between; or the other way round |
| `StampFollows` | two renames | a session with two Claudes is renamed, the second says hello under the free name and stamps it, and the session is renamed back: its owner is the first again, its transcript the second's |
| `HeldInOrder` | offered prompts included, two Stops | the first Stop takes p1, p2 is held and steered, the Stop fails and puts p1 behind; the next Stop takes p2, p1 and fails, and they stand in that order (held.go:271) |
| `StateFollows` | a rename | a Claude that yielded follows the rename and writes into the other's session, until its hello |
| `MarkedUnlessLate` | a late request | a Claude comes up in the session's shell between a request's look and its mark (suspend.go:900-916, 1263-1280), or its /proc could not be read, and a session that runs is marked, against suspend.go:782-783 |
| `RespawnedUnlessLate` | a late request | two resumes meet: both find the pane dead, the first brings Claude up, and the second's respawn-pane -k ends it (resume.go:232), against resume.go:183-185 |
| `MarkResumable`, `SessionSurvives`, `NeverStranded` | a restart that is not alone | its stop and resume and another's clear and set each other's mark, command and remain-on-exit |
| `OwnerArrives` | `Unnoticed` | a Claude at rest whose session was renamed keeps the old name until its state changes (mod.go:906-925, 245-250) or somebody opens the new one |
| `DialogReported` | an answer that could not be verified | see below |

`DialogReported` leaves out a dialog an answer was sent to. tasks.go:256-263 says that
a task whose answer was not verified "goes back to needs_input within a few
seconds" if the dialog is still there; the watcher does not do so, because its
`asked` and `lastTool` remember the dialog as already reported, and the task stays
running until the ceiling. tmux-api says of stopClaude that a failure leaves the
session "with remain-on-exit put back the way it was found" (suspend.go:797); the code
leaves it on, and that it does is what `SessionSurvives` rests on, as the variant
that unwinds it (`GraceOver_unwinds`) shows.

## Assumptions

The external parts are modelled from how the code in src/ uses them. What is
assumed of them:

- Suspend: in the run, the requests in `Alone` (the restart) have the session to
  themselves: the sweep declines a session in use, and a person restarts the session
  they look at. The theorems `Survives` and `Resumable` assume the same of any number of restarts,
  with one sweep and one resume at a time (`OneAtATime`). tmux-api runs one sweep
  loop; nothing in the code keeps two browsers' resumes apart, and two can meet. `Marked` and
  `Respawned` assume none of this.
- AgentTurn: what Claude says comes after the mod's stamps of what went before
  it, and not during a tick that still read an earlier "done" (`CaughtUp`): stamps
  take milliseconds, a model's words seconds. A pane takes longer to settle than a
  cancel to type its keys (`NoCancel`). The transcript can be read whenever it is
  known, and is not replaced; without the mod its name is known at once, with it
  later. A message starts one piece of background work at most. A message typed while
  a turn runs begins at its end. No person types into the session. A delete is one
  step (CancelOpen and Kill), and Kill does not fail.
- AgentTurn: whose words a result is, is stated for messages sent at a settled prompt
  (`~uncleared`): one typed into a busy pane is answered with whatever comes, and the
  code logs that. The notice of an earlier message's background work may come
  back inside a later turn, and the records do not tell the two apart (`LeftOver`).
- ModHub: `Races` FALSE joins the halves of a hello and of a reap; it bounds the run
  hub, and no theorem assumes it. hub_live is run with `Races` TRUE.

## Fairness

- held: the routes' goroutines, apply, the mod and Claude each keep taking
  steps (`WF`): Go's scheduler, the turn-start timer, the mod's poll loop, and a
  Claude whose turns end. No fairness for the person's requests.
- link: the mod's pump, session-events and the transcript's writer keep
  going. A restart and a reload are bounded; one hello that is answered and one
  batch that is applied suffice, and the code retries both for ever. No one need
  open the session (`Follow` is not fair).
- first: the browser acts on its answers and the route's waits end. No
  fairness is asked of the mod: the hello and ack timers end the attempt.
- hub_live: a mod asks, polls and sends its level for as long as its Claude runs (the
  pump and the 30-second level of link.ts), time passes for a connection that is
  silent, and the reaper's ticker goes round. A level so sent says what the service knows
  of the turn, or is the first after a hello (`Repeats`): no Claude is made to begin or
  end a turn. Nothing is asked of the person: no one need open the session (`Follow` is
  not fair). So a Claude at rest need never notice a rename, which `OwnerArrives`
  excepts (`Unnoticed`).
- suspend: a request once begun takes its steps, and the sweep begins a pass again
  and again (suspend.go's ticker). None is asked of Claude, of the person or of tmux: a
  call may fail each time the bound allows.
- agent: the runner and the requests run on, stamps arrive, and the clocks of
  watchTurn run out, but for the ceiling, which would end every task whatever
  the watcher made of it: `TaskEnds` shows that it is not needed once Claude is at
  rest. Nothing is asked of Claude.

## Proofs

- `HeldPromptsProofs.TypeCorrect`: `Spec => []TypeOK`. The type invariant is
  inductive as it stands. One lemma per action; lemmas before them say what the
  sequence operators of the library (removal, flattening, filtering) return. It
  rests on the named assumptions of HeldPrompts.
- `HeldPromptsProofs.Released`: `Spec => []NothingStuck`. NothingStuck speaks of
  the moments when applyMu is free; a step may begin a write first, so `StuckInv`
  also says that a holder of the lock which will let go after its write has
  nothing to release. The actions that leave the lists alone are dealt with at
  once (`QuietKeeps`).
- `HeldPromptsProofs.FilesCorrect`: `Spec => []FilesFollow`, from `FilesInv`,
  which says what the files hold in the middle of a write and what the pending
  write will write.
- `HeldPromptsPlaces.UnofferedReadOnce`, `UnofferedKept`, `ReturnedStays` and
  `InOrder`: what becomes of a prompt that no tool boundary was offered, for any number of
  Stops and takes. Where such a prompt is can be said exactly: `Placed(at)`
  gives each prompt one place of `Place` (with the person, in `held`, `waiting`, a Stop's hands,
  a command on its way, Claude's queue, read, returned, failed), and the invariant
  `PlaceInv` is that a function `at` exists which every list agrees with, each prompt standing
  once in the list its place names. A lemma on each action gives the next `at`.
  Read at most once (`UnofferedReadOnce`), accounted for (`UnofferedKept`) and final
  once returned (`ReturnedStays`, which is `ReturnedIsFinal`) are then read off it. `InOrder` is
  `HeldInOrder`; its `OrderInv` says too that what a Stop has in hand was
  held before anything held since, which is what putBack's order rests on.
- `HeldPromptsSteer`: what the boundary was offered. `WaitSteered` is `WaitSteersAfterStop`, and
  `HandedBackUnread` is `TakenBackUnread`, for any Stops: a prompt that waited or was offered
  is among the held only if a Stop that failed put it there (`putBack`), which is
  what the invariant `WaitInv` says, and only what is held is offered or handed back.
  `ConfirmedRead`, `ReadsOnce` and `NotLost` are `ConfirmedWasRead`, `ReadOnce` and
  `HeldNotLost` under `AllSteered`, a condition on the steps: no Stop, no
  take that misses its tool result, and none served while the end of the turn it belongs to
  waits for applyMu. held_missed_take is what happens otherwise. A row confirms by
  count, so the invariant `SteerInv` has to say which prompts each row on its way carried: there
  are cut points in `steering`, one for each event that waits, which grow by what a row
  carries and are at its end once a turn has ended (`Rows`); what stands before the last of them
  was read and what stands behind it rides a tool result still (`Lined`). So a row
  drops what it carried, a prompt that left `steering` was read, and with the theorems on what
  was never offered the three properties follow. What held checks is this condition: `MissedTakes`
  and `StaleTakes` FALSE and no Stops.
- `FirstPromptProofs.TypeCorrect`: `Spec => []TypeOK`. `Asking` is added to the
  types: the browser asks only while it is going, and one request at a time is
  waited for; else `line` could pass the last line.
- `FirstPromptProofs.GivenOnce` and `NotYetHolds`: `SentOnce` and `NotYetSentNothing`
  for any number of lines and any bounds, where each says that it speaks of the
  time in which neither side has forgotten (the table above says why). Neither property
  says where a command may still be; `OnceInv` adds it, in parts: an id names one
  command of this process (`IdInv`); SeenCommands has one outcome of a command
  (`SeenInv`); no command that may still submit is of a line already given, and
  none at all is of a line whose attempt has sent nothing (`LineInv`). The
  step that needs most is a refusal read by the route, which forgets the attempt
  and lets the line be sent again: `AckInv` says that of a command that ran, while
  its ack is awaited, a confirmation is queued ahead of every refusal, so the refusal
  that is read is of a command that never ran. It is the order of the mod's event
  queue that this rests on. Each part has a lemma on what keeps it, and each action
  one that applies them.
- `FirstPromptProofs.Arrived` and `Ordered`: `AcceptedArrives` and `LinesInOrder`. The
  first needs no memory, only that no hello was repeated; then a command reaches
  the mod once, however often the queue hands it over (`FreshInv`: what a hello queues
  again is what the module that said it has not seen), so an ack that confirms was posted
  after the submit, and a 204 the browser hears is true (`TruthInv`). Nothing made for
  a line is ahead of the browser's (`BelowInv`); with `LineInv` the next line Claude is
  given is then the browser's own, which is what keeps the order.
- `HubProofs.MapsAgree`: `Spec => []OneHolder`, and `Implements`:
  `Spec => Leased`, the refinement of SessionLease, both for any conversations, panes,
  sessions, cap and bounds and for either value of `Races`. The types of the hub and `One`
  (OneHolder as a predicate of the hub's value) are inductive together: a lemma for each of
  Drop, Adopt, Register and Release says that it keeps them, and what it does to
  the owners. That no session leaves a Claude which talks needs more: that
  whoever polls was just heard, so that Yields and the reaper see it. `Talks` says that a pane
  whose mod takes its token for good is the pane of its connection and was not
  silent, `Asks` that a pane with a hello under way is not one of those.
- `HubProofs.OnlyOnce` and `NothingLost`: `GivenOnce` and `NotLost`, and `TypesHold`,
  all for any conversations, panes, prompts, cap, Stops and restarts and for
  either value of `Races`. Neither property is inductive. `HeldInv` says of each
  prompt that it is in one place (`OnceAt`: one connection's list, one pane's carry or
  a Stop's hands, and one file, that of the conversation which has or left it), and of
  one neither given nor handed back that the file it is in is of a conversation
  whose list or carry has it too (`SafeAt`), so that whoever releases, adopts or saves and
  clears the file has the prompt. This needs that a carry was left by a conversation
  which is not connected (`Shape`): it is where a conversation that comes back breaks it,
  and why both properties except that. A lemma for each of Drop, Adopt, Register and
  Release says what it moves; the actions that move nothing are dealt with at once
  (`ListsKept`). `HeldInv` was checked with TLC before it was proved.
- `HubProofs.StateKept` and `StampKept`: `Spec => []StateFollows` and
  `Spec => []StampFollows`, for either value of `Races`. `OptionsInv` says, until a session is
  renamed, that connections and hellos name the session of their pane (`AtName`) and
  that whoever talks for its session has the state last written for it shown
  (`Shows`): the reaper's late write goes only where no Claude runs, the bye and the level only
  to the session's owner, and a hello makes the next level write (`turn` unknown).
  For the transcript it says, until a hello was crossed, that the session of a Claude that
  has it is stamped with its conversation or was stamped by a hello still under way (`Stamped`),
  and that while a hello that stamped is under way the stamp is its own
  (`StampedFirst`): when it registers, it has the session. Most actions touch neither
  option nor owner (`SoftStep`). Checked with TLC first, on one and two renames and both
  values of `Races`.
- `SuspendProofs.TypeCorrect`: `Spec => []TypeOK`, with no assumption on the
  requests. Part of it is more than types: a stop under way has a process to wait
  for, and only a shell outlives its Claude.
- `SuspendProofs.Marked` and `Respawned`: `MarkedUnlessLate` and `RespawnedUnlessLate`,
  for any requests that meet, with no assumption. `SeenInv` says that what a
  request saw is so still unless it is late: that none but the process it stops runs,
  that none does, or that one runs in the pane it looks at only. `late` is set by
  whatever brings a Claude up and taken back only by a look that finds none in the
  pane there is.
- `SuspendProofs.Survives` and `Resumable`:
  `SessionSurvives` and `MarkResumable`, for any
  launches, failures and crashes, assuming `OneAtATime`. They come
  from one inductive invariant, `IInv`: no two requests of a kind that acts on the same
  marks overlap (`Apart`); a stop works on a session without the mark and a resume
  on one with it (`MarkInv`), so the two do not touch the pane at the same time,
  although nothing locks it; the command is there from its write to its
  clearing (`CmdInv`); what a request saw of the pane is still so when it acts on
  it (`ProcInv`); and a Claude that was signalled is under remain-on-exit for as long as it
  lives (`RemainInv`). `IInv` was checked with TLC before it was proved.

- `AgentTurnProofs.TypeCorrect`, `ResultOwn` and `ResultFinal`: `Spec => []TypeOK`,
  `Spec => []ResultIsOwn` and `Spec => []ResultIsFinal`, for any number of messages, any
  answers and any scopes, so with and without the mod and however many events. Neither
  result property is inductive: what makes an answer final is that nothing which
  could add to it is left. `DoneInv` says that of a settled task (its turn is over, its
  message is not in the box, no work of it is in the background: `Rests`). That this is
  so when the watcher settles is the argument of turn.go. A task is taken once and
  typed once, and nothing is said of a message while it waits (`QueueInv`,
  `TypedInv`); a turn under way has a record that began it and none that ended it, and
  background work has its launch and no notice (`TurnInv`), so "not outstanding" means
  not running; a stamp of "done" is never the newest while a turn goes on, and is gone
  once it has said something (`StampInv`), so a tick that reads "done" in the middle of
  a turn finds its last words before that turn's prompt (`LookInv`) and does not
  take them. That they are the task's own is `PaneInv` and `SentInv`: at a settled prompt
  the box is empty and only background work can take a turn, and what stands after the
  mark is said to this message or to such work (`LeftOver`). Every step is first put
  in one of a few shapes (`StepShapes`), and each part of the invariant is kept by each shape.
  The parts were checked with TLC before they were proved; that showed `ResultIsFinal`
  to hold of messages typed into a busy pane too, and it is stated so now.

- `ModLinkProofs`: everything that is not liveness in ModLink, for any numbers of
  rows, turns, restarts, reloads, renames and losses. `TypeCorrect` (`Spec => []TypeOK`) and
  `NameFollowed` (`Spec => []NameFollows`) hold for every scope. The second rests on who waits for
  what (`WaitInv`: an await of the pump has one call, one batch being applied or one answer) and on no
  token being newer than the last one given out (`TokenInv`), so that a token
  the mod and the connection share is that of the hello the mod heard the answer of: unless
  a hello was asked for since, the name it was sent under is the one last read (`NameInv`).
- `ModLinkProofs.FoldTracked`: `Spec => []FoldTracks`. Without overlap there is one
  batch under way and it can be followed (`FlowInv`): in `posted` alone, in its call,
  in the hands of applyMu's holder, of which the mod waits, or done with, its answer
  not read. `ToldInv` then says that the last of the pending events (the batch, then
  the queue) that speaks of the turn has it as it is, and `FoldInv` that the fold has it when none
  speaks, and what those applied say while a batch is being applied. It rests on a failed batch
  going back ahead of the queue, and on what a hello drops from it standing first.
- `ModLinkProofs.DrawnInOrder`, `NothingLeftOut` and `ConversationShown`: `DrawnOnce`
  without overlap; `NothingMissing`, and the refinement of ConversationLog
  (`ShowsConversation`), which say of themselves that they except overlap and a transcript
  that lags. The log is there always `Rows(n)` for some n (`LogInv`). What it lacks of the stored rows is on its way:
  in a batch or the queue, in order, or in what a history will bring (`GapInv`).
  A log that is owed its history gets it before anything else (`HeadInv`).
  What a history brings is read from the transcript when it is applied, up to the row
  it names or, if it names none, as many as the messages held; `SnapInv` and `HistoryInv` say that
  with the rows behind it this leaves none out (`Brings`), which is why a hello drops what its
  snapshot covers and no more; `PathInv` that the connection knows the transcript, or that a
  hello that brings its path is asked for, or that the log is astray. With this a step of apply extends the log by the next rows, a hello
  or a restart empties it, and nothing else touches it, which is ConversationLog.
  Why overlap and lag are excepted is in the table above. The invariants were
  checked with TLC before they were proved, with two rows, a restart, a reload and a
  rename (4.6 million states) and with a loss.

- `ModLinkProofs.RowsDrawnOnce`: where requests do overlap, no row comes twice
  (`NeverTwice`), however many are lost or resent beside their first copy and however often
  session-events restarts, for as long as the mod's module and the session's name stay what
  they are and the transcript keeps up (`Steady`): each of the three is needed, as TLC shows.
  Order is lost (the table above), so the argument is another one: every row on its way, in whatever
  copy, is either known to the log as one it has (`logRows`) or not in it (`DrawnInv`).
  A rebuild from the transcript makes its rows known; one from a history's own messages does
  not, so that a history which names no row was read before any row on its way was stored
  (`MoveInv`), and a connection that does not know the transcript is sent no row at all: there is none
  (`Bare`, `BatchInv`, `LeadInv`).

Out of the prover's reach, and only model-checked: the liveness properties
(`HeldReaches`, `CatchesUp`, `Settles`, `OwnerArrives`, `NeverStranded`, `TaskEnds`,
`DialogReported`). Every safety property of the passing runs, and both refinements, are
proved, under the conditions said here. The order of `DrawnOnce` where requests overlap
holds only of so few losses as link has, and only TLC says so.

## Not modelled

- HeldPrompts: the shown queue, the clearing of a queue shown after idleness
  (settleQueue), dialogs, messages to subagents. Reading the files after a
  restart, carry and adopt are ModHub's.
- ModHub: events other than levels and byes, the options for the dialog and the tool of a
  session, peer credentials, which user a mod is of, the metrics.
- ModLink: histories in several chunks, the queue's limits, `/clear` and bye, the
  two-second wait of a flush without its barrier, a second Claude in the session,
  deltas and agents' rows, the writes of tmux options. A request that session-events had not read
  when it restarts stays on systemd's socket and is served by the next.
- FirstPrompt: pi and codex, a session suspended or whose Claude asks about trust
  (both refuse), the order of the commands within one poll (the mod begins them
  without waiting for one another), the two minutes after which an attempt is forgotten, the 256
  commands SeenCommands keeps, connections swept or displaced.
- Suspend: the idle clocks and the memory readings that make a session a
  candidate, the saved state, whether the conversation's file is there, a session
  renamed under a stop, sessions of several users, tl-session-watch.
- AgentTurn: the waking of a suspended session, the long polls and the pruning of
  the store, a transcript that is replaced, nested subagents and wakeups, a person's
  turns and answers in the terminal, a transcript that fails to be read.
- frontend-v2, the largest part of the repository, but for the first prompt: what it
  does is mostly to draw what the services say.
- The other parts, for the reasons `PROJECT.json` gives for each.

## Plan

What is left, in the order of what it would show:

1. **PromptLife**: an abstract specification of one prompt (unsent, waiting, with
   the mod, read, returned, failed), which HeldPrompts is shown to refine.
2. **Delegations**: agent-api's delegations, their one result and their store.
3. **SessionState**: the fold of dialogs, agents and shells with the level event
   that corrects it, against a reference definition; the ask and tool options.
4. **Slots**: tmux-api's pre-warmed sessions and who claims one, with
   tl-session-watch's resumes beside Suspend's.
5. **PushSender**, the reconnecting stream of the browser, tl-browser's gate.

Theorems to add: the initial and step lemmas of PromptLife's refinement.
