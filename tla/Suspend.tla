--------------------------------- MODULE Suspend ---------------------------------
(***************************************************************************)
(* One tmux session whose Claude is stopped to give its memory back, and   *)
(* started again on its conversation: the sweep that suspends and repairs  *)
(* (tmux-api/suspend.go), a person's restart (restart.go), and the resume  *)
(* both services share (sessionio/resume.go).                              *)
(*                                                                         *)
(* Every tmux call, signal and look at /proc is a step.  A plain session's *)
(* pane ends with its Claude; the pane tmux-persist restored goes on with  *)
(* a shell.  The idle clocks, the saved state and the conversation's file  *)
(* are left out: each only decides whether a request refuses.              *)
(***************************************************************************)
EXTENDS Naturals

CONSTANTS
    Sweep, Restart, Open,   \* requests: passes of the sweep, restarts, resumes
    Alone,                  \* the requests that run with no other under way
    MaxLaunches,            \* bound: Claudes started, the first included
    MaxFails,               \* bound: calls that fail, or do nothing
    MaxCrashes              \* bound: restarts of the service

Request == Sweep \cup Restart \cup Open

ASSUME RequestAssumption ==
    Alone \subseteq Request /\ Sweep \cap (Restart \cup Open) = {} /\ Restart \cap Open = {}
ASSUME BoundAssumption == {MaxLaunches, MaxFails, MaxCrashes} \subseteq Nat /\ MaxLaunches > 0

VARIABLES
    shell,      \* whether the pane goes on with a shell
    session,    \* "live", "dead" (its pane is held), "gone"
    \* processes, by the number of their launch: the pane's and the Claude under
    \* it (0: none), whether that one is still booting, whether a person started it
    pane, claude, booting, byHand,
    \* tmux: remain-on-exit, @tl_suspended, the resume command
    remain, mark, cmd,
    req,        \* where each request is, what it has read, whether that may be late
    termed, lost,   \* history: the Claudes signalled, the session ended by a signal
    launches, fails, crashes

procVars == <<shell, session, pane, claude, booting, byHand>>
optVars  == <<remain, mark, cmd>>
pastVars == <<termed, lost>>
vars == <<procVars, optVars, req, pastVars, launches, fails, crashes>>

\* A request: pid and pane are processes it saw, line whether it read a command, late
\* whether a Claude came up that its last look did not see.
Stopping  == {"cmd", "remain", "signal", "wait", "check", "mark"}
Repairing == {"rows", "stamp"}
Resuming  == {"read", "look", "respawn", "unremain", "unmark"}
Idle == [at |-> "idle", pid |-> 0, pane |-> 0, line |-> FALSE, late |-> FALSE]

Init ==
    /\ shell \in BOOLEAN /\ session = "live"
    /\ pane = 1 /\ claude = 1 /\ booting = FALSE /\ byHand = FALSE
    /\ remain = FALSE /\ mark = FALSE /\ cmd = FALSE
    /\ req = [r \in Request |-> Idle]
    /\ termed = {} /\ lost = FALSE
    /\ launches = 1 /\ fails = 0 /\ crashes = 0

\* A Claude runs under the pane's process p (claudeUnder).
ClaudeUnder(p) == session = "live" /\ claude # 0 /\ ~booting /\ pane = p

Goes(r, at) == req' = [req EXCEPT ![r].at = at]
Ends(r) == req' = [req EXCEPT ![r] = Idle]

\* A call to tmux fails.
CallFails ==
    \/ session = "gone" /\ UNCHANGED fails
    \/ fails < MaxFails /\ fails' = fails + 1
CallWorks == session # "gone" /\ UNCHANGED fails

\* /proc cannot be read.
Unreadable == fails < MaxFails /\ fails' = fails + 1

\* r looked for a Claude under the process p and goes on, seeing none: what came up
\* since is late for it if the pane is another process by then.
LooksPast(r, p, at) ==
    req' = [req EXCEPT ![r].at = at, ![r].late = @ /\ pane # p]

\* stopClaude returns an error: the sweep goes on to its repairs.
Gives(r) == IF r \in Sweep THEN Goes(r, "rows") ELSE Ends(r)

-----------------------------------------------------------------------------
(* The session.                                                            *)

\* A Claude comes up, and the requests under way have not seen it.
ComesUp ==
    req' = [r \in Request |-> [req[r] EXCEPT !.late = @ \/ req[r].at # "idle"]]

Boots ==
    /\ booting /\ booting' = FALSE /\ ComesUp
    /\ UNCHANGED <<shell, session, pane, claude, byHand, optVars, pastVars,
                   launches, fails, crashes>>

\* Claude exits, asked to or not: the shell goes on, or the pane ends and is held
\* only under remain-on-exit.
Exits ==
    /\ claude # 0
    /\ claude' = 0 /\ booting' = FALSE /\ byHand' = FALSE
    /\ session' = IF shell THEN "live" ELSE IF remain THEN "dead" ELSE "gone"
    /\ lost' = (lost \/ (session' = "gone" /\ claude \in termed))
    /\ UNCHANGED <<shell, pane, optVars, req, termed, launches, fails, crashes>>

\* A person starts a Claude in the shell.
HandStarts ==
    /\ shell /\ session = "live" /\ claude = 0 /\ launches < MaxLaunches
    /\ claude' = launches + 1 /\ byHand' = TRUE /\ launches' = launches + 1 /\ ComesUp
    /\ UNCHANGED <<shell, session, pane, booting, optVars, pastVars, fails, crashes>>

\* tmux-api is restarted.
Crash ==
    /\ crashes < MaxCrashes /\ crashes' = crashes + 1
    /\ req' = [r \in Request |-> Idle]
    /\ UNCHANGED <<procVars, optVars, pastVars, launches, fails>>

-----------------------------------------------------------------------------
(* stopClaude.                                                             *)

MayBegin(r) ==
    /\ req[r].at = "idle"
    /\ \A q \in Request \ {r} : {q, r} \cap Alone # {} => req[q].at = "idle"

\* The session has a Claude to stop, and a command that resumes it: the shell of
\* one started by hand has none (resumeArgv).
Stoppable == ClaudeUnder(pane) /\ ~byHand /\ ~mark

Begins(r) == req' = [req EXCEPT ![r] = [Idle EXCEPT !.at = "cmd", !.pid = claude, !.pane = pane]]

\* Faulty: the process is not looked for.
BeginSweep_unseen(r) ==
    /\ r \in Sweep /\ MayBegin(r)
    /\ IF session = "live" /\ ~mark THEN Begins(r) \/ Goes(r, "rows") ELSE Goes(r, "rows")
    /\ UNCHANGED <<procVars, optVars, pastVars, launches, fails, crashes>>

\* A pass of the sweep finds the session idle, or in use (declineNow).
BeginSweep(r) ==
    /\ r \in Sweep /\ MayBegin(r)
    /\ IF Stoppable THEN Begins(r) \/ Goes(r, "rows") ELSE Goes(r, "rows")
    /\ UNCHANGED <<procVars, optVars, pastVars, launches, fails, crashes>>

\* restartSession, up to the same look.
BeginRestart(r) ==
    /\ r \in Restart /\ MayBegin(r) /\ Stoppable /\ Begins(r)
    /\ UNCHANGED <<procVars, optVars, pastVars, launches, fails, crashes>>

\* (e) The resume command, before anything else.
WriteCmd(r) ==
    /\ req[r].at = "cmd"
    /\ \/ CallWorks /\ cmd' = TRUE /\ Goes(r, "remain")
       \/ CallFails /\ Gives(r) /\ UNCHANGED cmd
    /\ UNCHANGED <<procVars, remain, mark, pastVars, launches, crashes>>

\* (f) remain-on-exit.
RemainOn(r) ==
    /\ req[r].at = "remain"
    /\ \/ CallWorks /\ remain' = TRUE /\ Goes(r, "signal")
       \/ CallFails /\ Gives(r) /\ UNCHANGED remain
    /\ UNCHANGED <<procVars, mark, cmd, pastVars, launches, crashes>>

\* (g) SIGTERM, through the session's own server: it may come to nothing and say
\* nothing of it.
Signal(r) ==
    /\ req[r].at = "signal"
    /\ \/ CallWorks /\ termed' = termed \cup {req[r].pid} /\ Goes(r, "wait")
       \/ CallFails /\ (Gives(r) \/ Goes(r, "wait")) /\ UNCHANGED termed
    /\ UNCHANGED <<procVars, optVars, lost, launches, crashes>>

\* The process went within the grace.
Exited(r) ==
    /\ req[r].at = "wait" /\ claude # req[r].pid /\ Goes(r, "check")
    /\ UNCHANGED <<procVars, optVars, pastVars, launches, fails, crashes>>

\* Faulty: what was not stopped is unwound.
GraceOver_unwinds(r) ==
    /\ req[r].at = "wait" /\ claude = req[r].pid /\ Gives(r)
    /\ remain' = FALSE
    /\ UNCHANGED <<procVars, mark, cmd, pastVars, launches, fails, crashes>>

\* It did not: the session is left as it is, remain-on-exit on.
GraceOver(r) ==
    /\ req[r].at = "wait" /\ claude = req[r].pid /\ Gives(r)
    /\ UNCHANGED <<procVars, optVars, pastVars, launches, fails, crashes>>

\* Faulty: the pane is not looked at again.
Check_never(r) ==
    /\ req[r].at = "check" /\ LooksPast(r, req[r].pane, "mark")
    /\ UNCHANGED <<procVars, optVars, pastVars, launches, fails, crashes>>

\* (h) A Claude may run under the pane it had, in the shell that went on.  Where
\* /proc cannot be read none is seen (inspect), and the stop goes on.
Check(r) ==
    /\ req[r].at = "check"
    /\ \/ /\ session # "dead" /\ ClaudeUnder(req[r].pane)
          /\ Gives(r) /\ UNCHANGED fails
       \/ /\ session = "dead" \/ ~ClaudeUnder(req[r].pane)
          /\ LooksPast(r, req[r].pane, "mark") /\ UNCHANGED fails
       \/ session # "dead" /\ Unreadable /\ Goes(r, "mark")
    /\ UNCHANGED <<procVars, optVars, pastVars, launches, crashes>>

\* (i) The mark.  A restart goes on to resume.
Mark(r) ==
    /\ req[r].at = "mark"
    /\ \/ CallWorks /\ mark' = TRUE /\ Goes(r, IF r \in Sweep THEN "rows" ELSE "read")
       \/ CallFails /\ Gives(r) /\ UNCHANGED mark
    /\ UNCHANGED <<procVars, remain, cmd, pastVars, launches, crashes>>

-----------------------------------------------------------------------------
(* The repair at the end of a pass.                                        *)

\* Faulty: only a dead pane tells that the Claude is gone.
ReadRows_deadOnly(r) ==
    /\ req[r].at = "rows"
    /\ IF cmd /\ ~mark /\ session = "dead" THEN LooksPast(r, pane, "stamp") ELSE Ends(r)
    /\ UNCHANGED <<procVars, optVars, pastVars, launches, fails, crashes>>

\* readHalfSuspended, halfSuspendedNames: a command, no mark, and no Claude.  A live
\* pane that cannot be asked about is left alone.
ReadRows(r) ==
    /\ req[r].at = "rows"
    /\ \/ /\ IF cmd /\ ~mark /\ session # "gone" /\ ~ClaudeUnder(pane)
             THEN LooksPast(r, pane, "stamp") ELSE Ends(r)
          /\ UNCHANGED fails
       \/ cmd /\ ~mark /\ session = "live" /\ Unreadable /\ Ends(r)
    /\ UNCHANGED <<procVars, optVars, pastVars, launches, crashes>>

\* repairHalfSuspended.
Stamp(r) ==
    /\ req[r].at = "stamp" /\ Ends(r)
    /\ \/ CallWorks /\ mark' = TRUE
       \/ CallFails /\ UNCHANGED mark
    /\ UNCHANGED <<procVars, remain, cmd, pastVars, launches, crashes>>

-----------------------------------------------------------------------------
(* Resume.                                                                 *)

BeginOpen(r) ==
    /\ r \in Open /\ MayBegin(r) /\ Goes(r, "read")
    /\ UNCHANGED <<procVars, optVars, pastVars, launches, fails, crashes>>

\* The marks and the pane, in one call.
Read(r) ==
    /\ req[r].at = "read"
    /\ IF session # "gone" /\ mark
       THEN req' = [req EXCEPT ![r] = [at |-> IF session = "dead" THEN "respawn" ELSE "look",
                                       pid |-> 0, pane |-> pane, line |-> cmd, late |-> FALSE]]
       ELSE Ends(r)
    /\ UNCHANGED <<procVars, optVars, pastVars, launches, fails, crashes>>

\* Faulty: a mark is enough.
Look_trustsMark(r) ==
    /\ req[r].at = "look" /\ LooksPast(r, req[r].pane, "respawn")
    /\ UNCHANGED <<procVars, optVars, pastVars, launches, fails, crashes>>

\* A live pane: the mark is stale if a Claude runs under it, and is cleared.  Nothing
\* is done where /proc cannot be read (ErrPaneUnknown).
Look(r) ==
    /\ req[r].at = "look"
    /\ \/ ClaudeUnder(req[r].pane) /\ Goes(r, "unremain") /\ UNCHANGED fails
       \/ ~ClaudeUnder(req[r].pane) /\ LooksPast(r, req[r].pane, "respawn") /\ UNCHANGED fails
       \/ Unreadable /\ Ends(r)
    /\ UNCHANGED <<procVars, optVars, pastVars, launches, crashes>>

\* respawn-pane -k on the conversation, unless there is none any more, the command
\* cannot be read, or tmux refuses.
Respawn(r) ==
    /\ req[r].at = "respawn"
    /\ \/ /\ req[r].line /\ CallWorks /\ launches < MaxLaunches
          /\ session' = "live" /\ pane' = launches + 1 /\ claude' = launches + 1
          /\ booting' = TRUE /\ byHand' = FALSE /\ launches' = launches + 1
          /\ Goes(r, "unremain")
       \/ /\ (~req[r].line /\ UNCHANGED fails) \/ CallFails \/ (launches = MaxLaunches /\ UNCHANGED fails)
          /\ Ends(r) /\ UNCHANGED <<session, pane, claude, booting, byHand, launches>>
    /\ UNCHANGED <<shell, optVars, pastVars, crashes>>

\* ClearSuspendMarks: each part is tried whatever came of the others.
Unremain(r) ==
    /\ req[r].at = "unremain" /\ Goes(r, "unmark")
    /\ \/ CallWorks /\ remain' = FALSE
       \/ CallFails /\ UNCHANGED remain
    /\ UNCHANGED <<procVars, mark, cmd, pastVars, launches, crashes>>

\* Faulty: the mark stays.
Unmark_cmdOnly(r) ==
    /\ req[r].at = "unmark" /\ Ends(r)
    /\ \/ CallWorks /\ cmd' = FALSE
       \/ CallFails /\ UNCHANGED cmd
    /\ UNCHANGED <<procVars, mark, remain, pastVars, launches, crashes>>

Unmark(r) ==
    /\ req[r].at = "unmark" /\ Ends(r)
    /\ \/ CallWorks /\ mark' = FALSE /\ cmd' = FALSE
       \/ CallFails /\ UNCHANGED <<mark, cmd>>
    /\ UNCHANGED <<procVars, remain, pastVars, launches, crashes>>

-----------------------------------------------------------------------------
Step(r) ==
    \/ WriteCmd(r) \/ RemainOn(r) \/ Signal(r) \/ Exited(r) \/ GraceOver(r)
    \/ Check(r) \/ Mark(r) \/ ReadRows(r) \/ Stamp(r)
    \/ Read(r) \/ Look(r) \/ Respawn(r) \/ Unremain(r) \/ Unmark(r)

Next ==
    \/ Boots \/ Exits \/ HandStarts \/ Crash
    \/ \E r \in Request : BeginSweep(r) \/ BeginRestart(r) \/ BeginOpen(r) \/ Step(r)

Spec == Init /\ [][Next]_vars

\* Requests run on, and the sweep comes round on its ticker.
Fairness ==
    \A r \in Request : WF_vars(Step(r)) /\ WF_vars(BeginSweep(r))

FairSpec == Spec /\ Fairness

-----------------------------------------------------------------------------
(* Properties.                                                             *)

ReqType ==
    req \in [Request -> [at : {"idle"} \cup Stopping \cup Repairing \cup Resuming,
                         pid : 0..MaxLaunches, pane : 0..MaxLaunches, line : BOOLEAN,
                         late : BOOLEAN]]

ProcType ==
    session \in {"live", "dead", "gone"} /\ pane \in 1..launches /\ claude \in 0..launches
FlagType ==
    /\ shell \in BOOLEAN /\ booting \in BOOLEAN /\ byHand \in BOOLEAN
    /\ remain \in BOOLEAN /\ mark \in BOOLEAN /\ cmd \in BOOLEAN /\ lost \in BOOLEAN
CountType ==
    /\ termed \subseteq 1..MaxLaunches
    /\ launches \in 1..MaxLaunches /\ fails \in 0..MaxFails /\ crashes \in 0..MaxCrashes

\* The variables keep their types, a stop under way has a process to wait for, and
\* only a shell outlives its Claude in a live pane.
StopsOne == \A r \in Request : req[r].at \in Stopping => req[r].pid # 0
ShellLives == session = "live" <=> (shell \/ claude # 0)
TypeOK == ProcType /\ FlagType /\ CountType /\ ReqType /\ StopsOne /\ ShellLives

Up == claude # 0 /\ ~booting

\* The sweep's passes follow one another, a session is resumed once at a time, and
\* a restart has it to itself.
OneAtATime ==
    /\ \A q, r \in Sweep : q = r
    /\ \A q, r \in Open : q = r
    /\ Restart \subseteq Alone

\* "A SESSION WEARS @tl_suspended ONLY ONCE ITS CLAUDE IS GONE", but for a Claude the
\* request came too early to see: one is marked only by a request it came up behind,
\* after its last look or in a pane that replaced the one looked at, whichever
\* requests meet (stopClaude's steps g and h, readHalfSuspended).
MarkedUnlessLate ==
    [][~mark /\ mark' /\ Up =>
         \E r \in Request : req[r].at \in {"mark", "stamp"} /\ req[r].late /\ req'[r].at # req[r].at]_vars

\* respawn-pane -k, which replaces whatever is in the pane, ends a running Claude
\* only for a resume it came up behind: the pane was dead when read, or was seen to
\* have none (Resume: "Everything that can refuse refuses before the respawn").
RespawnedUnlessLate ==
    [][pane' # pane /\ Up =>
         \E r \in Request : req[r].at = "respawn" /\ req[r].late /\ req'[r].at = "unremain"]_vars

\* A session that reads suspended, and has no Claude, can be resumed: the command
\* was written before the mark and goes with it, whatever failed in between.
MarkResumable == mark /\ claude = 0 /\ session # "gone" => cmd

\* The signal of a stop never ends the session: remain-on-exit was on before it,
\* and stays on when the Claude outlives the grace and goes later.
SessionSurvives == ~lost

\* A session whose Claude was stopped and that nobody marked comes to be marked,
\* or to have a Claude: no failed call or restart strands it (repairHalfSuspended).
Stranded == session # "gone" /\ claude = 0 /\ cmd /\ ~mark
NeverStranded == Stranded ~> (session = "gone" \/ claude # 0 \/ mark)
=============================================================================
