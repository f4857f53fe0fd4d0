------------------------------ MODULE SuspendProofs ------------------------------
(***************************************************************************)
(* Theorems about Suspend.                                                 *)
(***************************************************************************)
EXTENDS Suspend, TLAPS

At == {"idle"} \cup Stopping \cup Repairing \cup Resuming
ReqRecord == [at : At, pid : 0..MaxLaunches, pane : 0..MaxLaunches, line : BOOLEAN,
              late : BOOLEAN]

-----------------------------------------------------------------------------
(* What a step does to the requests.                                       *)

LEMMA Bounds ==
  MaxLaunches \in Nat /\ MaxFails \in Nat /\ MaxCrashes \in Nat /\ MaxLaunches > 0
  BY BoundAssumption

LEMMA IdleType == Idle \in ReqRecord /\ Idle.at = "idle"
  BY Bounds DEF Idle, ReqRecord, At

LEMMA GoesReq ==
  ASSUME ReqType, NEW r \in Request, NEW at \in At, Goes(r, at)
  PROVE  /\ ReqType'
         /\ req'[r].at = at /\ req'[r].pid = req[r].pid /\ req'[r].pane = req[r].pane
         /\ req'[r].late = req[r].late
         /\ \A q \in Request \ {r} : req'[q] = req[q]
  BY DEF ReqType, Goes, At

LEMMA LooksReq ==
  ASSUME ReqType, NEW r \in Request, NEW p, NEW at \in At, LooksPast(r, p, at)
  PROVE  /\ ReqType'
         /\ req'[r].at = at /\ req'[r].pid = req[r].pid /\ req'[r].pane = req[r].pane
         /\ req'[r].late <=> req[r].late /\ pane # p
         /\ \A q \in Request \ {r} : req'[q] = req[q]
  BY DEF ReqType, LooksPast, At

\* A Claude comes up: nothing of a request changes but what it is late for.
LEMMA ComesUpReq ==
  ASSUME ReqType, ComesUp
  PROVE  /\ ReqType'
         /\ \A r \in Request :
               /\ req'[r].at = req[r].at /\ req'[r].pid = req[r].pid
               /\ req'[r].pane = req[r].pane
               /\ req'[r].at # "idle" => req'[r].late
  BY DEF ReqType, ComesUp

LEMMA EndsReq ==
  ASSUME ReqType, NEW r \in Request, Ends(r)
  PROVE  /\ ReqType' /\ req'[r].at = "idle"
         /\ \A q \in Request \ {r} : req'[q] = req[q]
  BY IdleType DEF ReqType, Ends, ReqRecord, At

LEMMA GivesReq ==
  ASSUME ReqType, NEW r \in Request, Gives(r)
  PROVE  /\ ReqType' /\ req'[r].at = IF r \in Sweep THEN "rows" ELSE "idle"
         /\ \A q \in Request \ {r} : req'[q] = req[q]
  <1>1. CASE r \in Sweep
    BY <1>1, GoesReq DEF Gives, At, Repairing
  <1>2. CASE r \notin Sweep
    BY <1>2, EndsReq DEF Gives
  <1> QED BY <1>1, <1>2

LEMMA BeginsReq ==
  ASSUME ReqType, NEW r \in Request, Begins(r), claude \in 0..MaxLaunches, pane \in 0..MaxLaunches
  PROVE  /\ ReqType' /\ req'[r].at = "cmd" /\ req'[r].pid = claude /\ req'[r].pane = pane
         /\ \A q \in Request \ {r} : req'[q] = req[q]
  BY IdleType DEF ReqType, Begins, ReqRecord, At, Stopping, Idle

LEMMA GoesType ==
  ASSUME ReqType, StopsOne, NEW r \in Request, NEW at \in At, Goes(r, at),
         at \in Stopping => req[r].at \in Stopping
  PROVE  ReqType' /\ StopsOne'
  BY GoesReq DEF StopsOne

LEMMA LooksType ==
  ASSUME ReqType, StopsOne, NEW r \in Request, NEW p, NEW at \in At, LooksPast(r, p, at),
         at \in Stopping => req[r].at \in Stopping
  PROVE  ReqType' /\ StopsOne'
  BY LooksReq DEF StopsOne

LEMMA EndsType ==
  ASSUME ReqType, StopsOne, NEW r \in Request, Ends(r)
  PROVE  ReqType' /\ StopsOne'
  BY EndsReq DEF StopsOne, Stopping

LEMMA GivesType ==
  ASSUME ReqType, StopsOne, NEW r \in Request, Gives(r)
  PROVE  ReqType' /\ StopsOne'
  BY GivesReq DEF StopsOne, Stopping

-----------------------------------------------------------------------------
(* Types.                                                                  *)

LEMMA TypeInit == Init => TypeOK
  <1>. SUFFICES ASSUME Init PROVE TypeOK
    OBVIOUS
  <1>1. ReqType /\ StopsOne
    BY IdleType DEF Init, ReqType, StopsOne, ReqRecord, At, Stopping, Repairing,
       Resuming
  <1>2. FlagType
    BY DEF Init, FlagType
  <1>3. ShellLives
    BY DEF Init, ShellLives
  <1>4. ProcType
    BY DEF Init, ProcType
  <1>5. CountType
    BY Bounds DEF Init, CountType
  <1> QED BY <1>1, <1>2, <1>3, <1>4, <1>5 DEF TypeOK

LEMMA WorldTypeKept ==
  ASSUME TypeOK, Boots \/ Exits \/ HandStarts \/ Crash
  PROVE  TypeOK'
  <1>1. CASE Boots
    <2>1. ReqType' /\ StopsOne'
      BY <1>1, ComesUpReq DEF Boots, TypeOK, StopsOne, Stopping
    <2>2. (ProcType /\ ShellLives)'
      BY <1>1 DEF Boots, TypeOK, ProcType, ShellLives, CountType, optVars, pastVars
    <2>3. FlagType'
      BY <1>1 DEF Boots, TypeOK, FlagType, ProcType, optVars, pastVars
    <2>4. CountType'
      BY <1>1, Bounds DEF Boots, TypeOK, CountType, optVars, pastVars
    <2> QED BY <2>1, <2>2, <2>3, <2>4 DEF TypeOK
  <1>2. CASE Exits
    <2>1. ReqType' /\ StopsOne'
      BY <1>2 DEF Exits, TypeOK, ReqType, StopsOne
    <2>2. FlagType' /\ CountType'
      BY <1>2 DEF Exits, TypeOK, FlagType, CountType, ProcType, optVars
    <2>3. ProcType'
      BY <1>2 DEF Exits, TypeOK, ProcType, CountType
    <2>4. ShellLives'
      BY <1>2 DEF Exits, TypeOK, ShellLives, ProcType
    <2> QED BY <2>1, <2>2, <2>3, <2>4 DEF TypeOK
  <1>3. CASE HandStarts
    <2>1. ReqType' /\ StopsOne'
      BY <1>3, ComesUpReq DEF HandStarts, TypeOK, StopsOne, Stopping
    <2>2. (ProcType /\ ShellLives)'
      BY <1>3 DEF HandStarts, TypeOK, ProcType, ShellLives, CountType, optVars, pastVars
    <2>3. FlagType'
      BY <1>3 DEF HandStarts, TypeOK, FlagType, ProcType, optVars, pastVars
    <2>4. CountType'
      BY <1>3, Bounds DEF HandStarts, TypeOK, CountType, optVars, pastVars
    <2> QED BY <2>1, <2>2, <2>3, <2>4 DEF TypeOK
  <1>4. CASE Crash
    <2>1. ReqType' /\ StopsOne'
      BY <1>4, IdleType DEF Crash, ReqType, StopsOne, ReqRecord, At, Stopping,
         Repairing, Resuming
    <2>2. (ProcType /\ ShellLives)'
      BY <1>4 DEF Crash, TypeOK, ProcType, ShellLives, CountType, procVars,
         optVars, pastVars
    <2>3. FlagType'
      BY <1>4 DEF Crash, TypeOK, FlagType, ProcType, procVars, optVars, pastVars
    <2>4. CountType'
      BY <1>4, Bounds DEF Crash, TypeOK, CountType, procVars, optVars, pastVars
    <2> QED BY <2>1, <2>2, <2>3, <2>4 DEF TypeOK
  <1> QED BY <1>1, <1>2, <1>3, <1>4

LEMMA BeginTypeKept ==
  ASSUME TypeOK, NEW r \in Request, BeginSweep(r) \/ BeginRestart(r) \/ BeginOpen(r)
  PROVE  TypeOK'
  <1>1. ReqType /\ StopsOne /\ claude \in 0..MaxLaunches /\ pane \in 0..MaxLaunches
    BY Bounds DEF TypeOK, ProcType, CountType
  <1>2. UNCHANGED <<procVars, optVars, pastVars, launches, fails, crashes>>
    BY DEF BeginSweep, BeginRestart, BeginOpen
  <1>3. ReqType' /\ StopsOne'
    <2>1. CASE Begins(r) /\ Stoppable
      BY <1>1, <2>1, BeginsReq DEF Stoppable, ClaudeUnder, StopsOne
    <2>2. CASE Goes(r, "rows")
      BY <1>1, <2>2, GoesType DEF At, Repairing, Stopping
    <2>3. CASE Goes(r, "read")
      BY <1>1, <2>3, GoesType DEF At, Resuming, Stopping
    <2> QED BY <2>1, <2>2, <2>3 DEF BeginSweep, BeginRestart, BeginOpen
  <1>4. (ProcType /\ FlagType /\ CountType /\ ShellLives)'
    BY <1>2 DEF TypeOK, ProcType, FlagType, CountType, ShellLives, procVars,
       optVars, pastVars
  <1> QED BY <1>3, <1>4 DEF TypeOK

LEMMA StepTypeKept ==
  ASSUME TypeOK, NEW r \in Request, Step(r)
  PROVE  TypeOK'
  <1>1. CASE WriteCmd(r)
    <2>1. ReqType' /\ StopsOne'
      BY <1>1, GoesType, GivesType DEF WriteCmd, TypeOK, At, Stopping,
         Repairing, Resuming
    <2>2. (ProcType /\ ShellLives)'
      BY <1>1 DEF WriteCmd, TypeOK, ProcType, ShellLives, CountType,
         CallWorks, CallFails, procVars, pastVars
    <2>3. FlagType'
      BY <1>1 DEF WriteCmd, TypeOK, FlagType, ProcType, CallWorks, CallFails,
         procVars, pastVars
    <2>4. CountType'
      BY <1>1, Bounds DEF WriteCmd, TypeOK, CountType, CallWorks, CallFails,
         procVars, pastVars
    <2> QED BY <2>1, <2>2, <2>3, <2>4 DEF TypeOK
  <1>2. CASE RemainOn(r)
    <2>1. ReqType' /\ StopsOne'
      BY <1>2, GoesType, GivesType DEF RemainOn, TypeOK, At, Stopping,
         Repairing, Resuming
    <2>2. (ProcType /\ ShellLives)'
      BY <1>2 DEF RemainOn, TypeOK, ProcType, ShellLives, CountType,
         CallWorks, CallFails, procVars, pastVars
    <2>3. FlagType'
      BY <1>2 DEF RemainOn, TypeOK, FlagType, ProcType, CallWorks, CallFails,
         procVars, pastVars
    <2>4. CountType'
      BY <1>2, Bounds DEF RemainOn, TypeOK, CountType, CallWorks, CallFails,
         procVars, pastVars
    <2> QED BY <2>1, <2>2, <2>3, <2>4 DEF TypeOK
  <1>3. CASE Signal(r)
    <2>1. ReqType' /\ StopsOne'
      BY <1>3, GoesType, GivesType DEF Signal, TypeOK, At, Stopping, Repairing, Resuming
    <2>2. (ProcType /\ FlagType /\ ShellLives)'
      BY <1>3 DEF Signal, TypeOK, ProcType, FlagType, ShellLives, procVars, optVars
    <2>3. req[r].pid \in 1..MaxLaunches
      BY <1>3, Bounds DEF Signal, TypeOK, ReqType, StopsOne, Stopping
    <2>4. CountType'
      <3>1. termed' \subseteq 1..MaxLaunches
        BY <1>3, <2>3 DEF Signal, TypeOK, CountType
      <3> QED BY <1>3, <3>1, Bounds DEF Signal, TypeOK, CountType, CallWorks, CallFails
    <2> QED BY <2>1, <2>2, <2>4 DEF TypeOK
  <1>4. CASE Exited(r)
    <2>1. ReqType' /\ StopsOne'
      BY <1>4, GoesType DEF Exited, TypeOK, At, Stopping, Repairing, Resuming
    <2>2. (ProcType /\ ShellLives)'
      BY <1>4 DEF Exited, TypeOK, ProcType, ShellLives, CountType, procVars,
         optVars, pastVars
    <2>3. FlagType'
      BY <1>4 DEF Exited, TypeOK, FlagType, ProcType, procVars, optVars, pastVars
    <2>4. CountType'
      BY <1>4, Bounds DEF Exited, TypeOK, CountType, procVars, optVars, pastVars
    <2> QED BY <2>1, <2>2, <2>3, <2>4 DEF TypeOK
  <1>5. CASE GraceOver(r)
    <2>1. ReqType' /\ StopsOne'
      BY <1>5, GivesType DEF GraceOver, TypeOK, At, Stopping, Repairing, Resuming
    <2>2. (ProcType /\ ShellLives)'
      BY <1>5 DEF GraceOver, TypeOK, ProcType, ShellLives, CountType,
         procVars, optVars, pastVars
    <2>3. FlagType'
      BY <1>5 DEF GraceOver, TypeOK, FlagType, ProcType, procVars, optVars, pastVars
    <2>4. CountType'
      BY <1>5, Bounds DEF GraceOver, TypeOK, CountType, procVars, optVars, pastVars
    <2> QED BY <2>1, <2>2, <2>3, <2>4 DEF TypeOK
  <1>6. CASE Check(r)
    <2>1. ReqType' /\ StopsOne'
      BY <1>6, LooksType, GoesType, GivesType DEF Check, TypeOK, At, Stopping, Repairing, Resuming
    <2>2. (ProcType /\ ShellLives)'
      BY <1>6 DEF Check, TypeOK, ProcType, ShellLives, CountType, procVars,
         optVars, pastVars
    <2>3. FlagType'
      BY <1>6 DEF Check, TypeOK, FlagType, ProcType, procVars, optVars, pastVars
    <2>4. CountType'
      BY <1>6, Bounds DEF Check, TypeOK, CountType, Unreadable, procVars, optVars, pastVars
    <2> QED BY <2>1, <2>2, <2>3, <2>4 DEF TypeOK
  <1>7. CASE Mark(r)
    <2>1. ReqType' /\ StopsOne'
      BY <1>7, GoesType, GivesType DEF Mark, TypeOK, At, Stopping, Repairing, Resuming
    <2>2. (ProcType /\ ShellLives)'
      BY <1>7 DEF Mark, TypeOK, ProcType, ShellLives, CountType, CallWorks,
         CallFails, procVars, pastVars
    <2>3. FlagType'
      BY <1>7 DEF Mark, TypeOK, FlagType, ProcType, CallWorks, CallFails,
         procVars, pastVars
    <2>4. CountType'
      BY <1>7, Bounds DEF Mark, TypeOK, CountType, CallWorks, CallFails,
         procVars, pastVars
    <2> QED BY <2>1, <2>2, <2>3, <2>4 DEF TypeOK
  <1>8. CASE ReadRows(r)
    <2>1. ReqType' /\ StopsOne'
      BY <1>8, LooksType, GoesType, EndsType DEF ReadRows, TypeOK, At, Stopping,
         Repairing, Resuming
    <2>2. (ProcType /\ ShellLives)'
      BY <1>8 DEF ReadRows, TypeOK, ProcType, ShellLives, CountType, procVars,
         optVars, pastVars
    <2>3. FlagType'
      BY <1>8 DEF ReadRows, TypeOK, FlagType, ProcType, procVars, optVars, pastVars
    <2>4. CountType'
      BY <1>8, Bounds DEF ReadRows, TypeOK, CountType, Unreadable, procVars, optVars, pastVars
    <2> QED BY <2>1, <2>2, <2>3, <2>4 DEF TypeOK
  <1>9. CASE Stamp(r)
    <2>1. ReqType' /\ StopsOne'
      BY <1>9, EndsType DEF Stamp, TypeOK, At, Stopping, Repairing, Resuming
    <2>2. (ProcType /\ ShellLives)'
      BY <1>9 DEF Stamp, TypeOK, ProcType, ShellLives, CountType, CallWorks,
         CallFails, procVars, pastVars
    <2>3. FlagType'
      BY <1>9 DEF Stamp, TypeOK, FlagType, ProcType, CallWorks, CallFails,
         procVars, pastVars
    <2>4. CountType'
      BY <1>9, Bounds DEF Stamp, TypeOK, CountType, CallWorks, CallFails,
         procVars, pastVars
    <2> QED BY <2>1, <2>2, <2>3, <2>4 DEF TypeOK
  <1>10. CASE Look(r)
    <2>1. ReqType' /\ StopsOne'
      BY <1>10, LooksType, EndsType, GoesType DEF Look, TypeOK, At, Stopping, Repairing, Resuming
    <2>2. (ProcType /\ ShellLives)'
      BY <1>10 DEF Look, TypeOK, ProcType, ShellLives, CountType, procVars,
         optVars, pastVars
    <2>3. FlagType'
      BY <1>10 DEF Look, TypeOK, FlagType, ProcType, procVars, optVars, pastVars
    <2>4. CountType'
      BY <1>10, Bounds DEF Look, TypeOK, CountType, Unreadable, procVars, optVars, pastVars
    <2> QED BY <2>1, <2>2, <2>3, <2>4 DEF TypeOK
  <1>11. CASE Respawn(r)
    <2>1. ReqType' /\ StopsOne'
      BY <1>11, GoesType, EndsType DEF Respawn, TypeOK, At, Stopping,
         Repairing, Resuming
    <2>2. FlagType'
      BY <1>11 DEF Respawn, TypeOK, FlagType, optVars, pastVars
    <2>3. CountType'
      BY <1>11, Bounds DEF Respawn, TypeOK, CountType, CallWorks, CallFails, pastVars
    <2>4. ProcType'
      BY <1>11 DEF Respawn, TypeOK, ProcType, CountType
    <2>5. ShellLives'
      BY <1>11 DEF Respawn, TypeOK, ShellLives, ProcType, CountType
    <2> QED BY <2>1, <2>2, <2>3, <2>4, <2>5 DEF TypeOK
  <1>12. CASE Unremain(r)
    <2>1. ReqType' /\ StopsOne'
      BY <1>12, GoesType DEF Unremain, TypeOK, At, Stopping, Repairing, Resuming
    <2>2. (ProcType /\ ShellLives)'
      BY <1>12 DEF Unremain, TypeOK, ProcType, ShellLives, CountType,
         CallWorks, CallFails, procVars, pastVars
    <2>3. FlagType'
      BY <1>12 DEF Unremain, TypeOK, FlagType, ProcType, CallWorks, CallFails,
         procVars, pastVars
    <2>4. CountType'
      BY <1>12, Bounds DEF Unremain, TypeOK, CountType, CallWorks, CallFails,
         procVars, pastVars
    <2> QED BY <2>1, <2>2, <2>3, <2>4 DEF TypeOK
  <1>13. CASE Unmark(r)
    <2>1. ReqType' /\ StopsOne'
      BY <1>13, EndsType DEF Unmark, TypeOK, At, Stopping, Repairing, Resuming
    <2>2. (ProcType /\ ShellLives)'
      BY <1>13 DEF Unmark, TypeOK, ProcType, ShellLives, CountType, CallWorks,
         CallFails, procVars, pastVars
    <2>3. FlagType'
      BY <1>13 DEF Unmark, TypeOK, FlagType, ProcType, CallWorks, CallFails,
         procVars, pastVars
    <2>4. CountType'
      BY <1>13, Bounds DEF Unmark, TypeOK, CountType, CallWorks, CallFails,
         procVars, pastVars
    <2> QED BY <2>1, <2>2, <2>3, <2>4 DEF TypeOK
  <1>14. CASE Read(r)
    <2>1. ReqType' /\ StopsOne'
      <3> DEFINE now == [at |-> IF session = "dead" THEN "respawn" ELSE "look",
                         pid |-> 0, pane |-> pane, line |-> cmd, late |-> FALSE]
      <3>1. now \in ReqRecord /\ now.at \notin Stopping
        BY Bounds DEF TypeOK, ProcType, CountType, FlagType, ReqRecord, At, Stopping, Resuming
      <3>2. CASE req' = [req EXCEPT ![r] = now]
        <4>. HIDE DEF now
        <4>1. req \in [Request -> ReqRecord]
          BY DEF TypeOK, ReqType, ReqRecord, At
        <4>2. req' \in [Request -> ReqRecord] /\ req'[r] = now
          BY <3>1, <3>2, <4>1
        <4>3. \A q \in Request \ {r} : req'[q] = req[q]
          BY <3>2, <4>1
        <4> QED BY <3>1, <4>2, <4>3 DEF TypeOK, StopsOne, ReqType, ReqRecord, At
      <3> QED BY <1>14, <3>2, EndsType DEF Read, TypeOK
    <2>2. (ProcType /\ ShellLives)'
      BY <1>14 DEF Read, TypeOK, ProcType, ShellLives, CountType, procVars,
         optVars, pastVars
    <2>3. FlagType'
      BY <1>14 DEF Read, TypeOK, FlagType, ProcType, procVars, optVars, pastVars
    <2>4. CountType'
      BY <1>14, Bounds DEF Read, TypeOK, CountType, procVars, optVars, pastVars
    <2> QED BY <2>1, <2>2, <2>3, <2>4 DEF TypeOK
  <1> QED BY <1>1, <1>2, <1>3, <1>4, <1>5, <1>6, <1>7, <1>8, <1>9, <1>10, <1>11,
         <1>12, <1>13, <1>14 DEF Step

LEMMA TypeKept ==
  ASSUME TypeOK, [Next]_vars
  PROVE  TypeOK'
  <1>1. CASE UNCHANGED vars
    BY <1>1 DEF vars, procVars, optVars, pastVars, TypeOK, ReqType, ProcType,
       FlagType, CountType, StopsOne, ShellLives
  <1> QED BY <1>1, WorldTypeKept, BeginTypeKept, StepTypeKept DEF Next

\* The variables keep their types, whatever the requests and the bounds, a stop under
\* way has a process to wait for, and only a shell outlives its Claude (stopClaude,
\* Resume).
THEOREM TypeCorrect == Spec => []TypeOK
  <1>1. TypeOK /\ [Next]_vars => TypeOK'
    BY TypeKept
  <1> QED BY <1>1, TypeInit, PTL DEF Spec

-----------------------------------------------------------------------------
(* Safety, when requests do not overlap more than the services let them.   *)

Late == {"look", "respawn", "unremain", "unmark"}

\* A request does what its kind does, and one that runs alone runs alone.
Apart ==
    /\ \A q, r \in Request :
          q # r /\ {q, r} \cap Alone # {} => req[q].at = "idle" \/ req[r].at = "idle"
    /\ \A r \in Request :
          /\ req[r].at \in Stopping => r \in Sweep \cup Restart
          /\ req[r].at \in Repairing => r \in Sweep
          /\ req[r].at \in Resuming => r \in Open \cup Restart

\* A stop works on a session without the mark, a resume on one with it.
MarkInv ==
    \A r \in Request :
        /\ req[r].at \in Stopping \cup {"stamp"} => ~mark
        /\ req[r].at \in Late => mark

\* The command is there once it was written, and a Claude that boots has none.
CmdInv ==
    /\ mark => cmd
    /\ \A r \in Request : req[r].at \in (Stopping \ {"cmd"}) \cup {"stamp"} => cmd
    /\ booting => mark \/ ~cmd

\* What a request saw of the pane still holds when it acts on it.
ProcInv ==
    \A r \in Request :
        /\ req[r].at \in Stopping =>
              ~booting /\ req[r].pane = pane /\ req[r].pid \in 1..launches
        /\ req[r].at \in Stopping /\ ~shell => claude \in {0, req[r].pid}
        /\ req[r].at \in {"check", "mark", "stamp"} /\ ~shell => claude = 0

\* A Claude that was signalled, with no shell behind it, is under remain-on-exit.
RemainInv ==
    /\ \A r \in Request : req[r].at \in {"signal", "wait", "check", "mark"} => remain
    /\ termed \subseteq 1..launches
    /\ ~shell /\ claude \in termed => remain /\ ~mark
    /\ ~lost

IInv == TypeOK /\ Apart /\ MarkInv /\ CmdInv /\ ProcInv /\ RemainInv

LEMMA NoOther ==
  ASSUME OneAtATime, Apart, NEW q \in Request, NEW r \in Request, q # r
  PROVE  /\ req[q].at \in Stopping \cup Repairing => req[r].at \notin Stopping \cup Repairing
         /\ req[q].at \in Resuming => req[r].at \notin Resuming
  BY DEF OneAtATime, Apart, Stopping, Repairing, Resuming

LEMMA StepReq ==
  ASSUME TypeOK, NEW r \in Request, Step(r)
  PROVE  /\ ReqType /\ req[r].at \in Stopping \cup Repairing \cup Resuming
         /\ \A q \in Request \ {r} : req'[q] = req[q]
         /\ req'[r].at \in Stopping => req[r].at \in Stopping
         /\ req'[r].at \in Repairing => req[r].at \in Repairing \/ r \in Sweep
         /\ req'[r].at \in Resuming =>
               req[r].at \in Resuming \/ (r \notin Sweep /\ req[r].at \in Stopping)
  <1>. ReqType
    BY DEF TypeOK
  <1>1. CASE WriteCmd(r)
    BY <1>1, GoesReq, GivesReq DEF WriteCmd, At, Stopping, Repairing, Resuming
  <1>2. CASE RemainOn(r)
    BY <1>2, GoesReq, GivesReq DEF RemainOn, At, Stopping, Repairing, Resuming
  <1>3. CASE Signal(r)
    BY <1>3, GoesReq, GivesReq DEF Signal, At, Stopping, Repairing, Resuming
  <1>4. CASE Exited(r)
    BY <1>4, GoesReq DEF Exited, At, Stopping, Repairing, Resuming
  <1>5. CASE GraceOver(r)
    BY <1>5, GivesReq DEF GraceOver, At, Stopping, Repairing, Resuming
  <1>6. CASE Check(r)
    BY <1>6, GoesReq, GivesReq, LooksReq DEF Check, At, Stopping, Repairing, Resuming
  <1>7. CASE Mark(r)
    BY <1>7, GoesReq, GivesReq DEF Mark, At, Stopping, Repairing, Resuming
  <1>8. CASE ReadRows(r)
    BY <1>8, LooksReq, EndsReq DEF ReadRows, At, Stopping, Repairing, Resuming
  <1>9. CASE Stamp(r)
    BY <1>9, EndsReq DEF Stamp, At, Stopping, Repairing, Resuming
  <1>10. CASE Look(r)
    BY <1>10, GoesReq, LooksReq, EndsReq DEF Look, At, Stopping, Repairing, Resuming
  <1>11. CASE Respawn(r)
    BY <1>11, GoesReq, EndsReq DEF Respawn, At, Stopping, Repairing, Resuming
  <1>12. CASE Unremain(r)
    BY <1>12, GoesReq DEF Unremain, At, Stopping, Repairing, Resuming
  <1>13. CASE Unmark(r)
    BY <1>13, EndsReq DEF Unmark, At, Stopping, Repairing, Resuming
  <1>14. CASE Read(r)
    BY <1>14, EndsReq DEF Read, At, Stopping, Repairing, Resuming, ReqType
  <1> QED BY <1>1, <1>2, <1>3, <1>4, <1>5, <1>6, <1>7, <1>8, <1>9, <1>10, <1>11,
         <1>12, <1>13, <1>14 DEF Step

LEMMA BeginReq ==
  ASSUME TypeOK, NEW r \in Request, BeginSweep(r) \/ BeginRestart(r) \/ BeginOpen(r)
  PROVE  /\ ReqType /\ MayBegin(r) /\ \A q \in Request \ {r} : req'[q] = req[q]
         /\ UNCHANGED <<procVars, optVars, pastVars, launches, fails, crashes>>
         /\ \/ /\ r \in Sweep \cup Restart /\ Stoppable
               /\ req'[r].at = "cmd" /\ req'[r].pid = claude /\ req'[r].pane = pane
            \/ r \in Sweep /\ req'[r].at = "rows"
            \/ r \in Open /\ req'[r].at = "read"
  <1>1. ReqType /\ claude \in 0..MaxLaunches /\ pane \in 0..MaxLaunches
    BY Bounds DEF TypeOK, ProcType, CountType
  <1>2. CASE BeginSweep(r)
    BY <1>1, <1>2, BeginsReq, GoesReq DEF BeginSweep, At, Repairing
  <1>3. CASE BeginRestart(r)
    BY <1>1, <1>3, BeginsReq DEF BeginRestart
  <1>4. CASE BeginOpen(r)
    BY <1>1, <1>4, GoesReq DEF BeginOpen, At, Resuming
  <1> QED BY <1>2, <1>3, <1>4

LEMMA WorldReq ==
  ASSUME TypeOK, Boots \/ Exits \/ HandStarts \/ Crash \/ UNCHANGED vars
  PROVE  \A r \in Request :
            \/ /\ req'[r].at = req[r].at /\ req'[r].pid = req[r].pid
               /\ req'[r].pane = req[r].pane
            \/ Crash /\ req'[r].at = "idle"
  BY IdleType, ComesUpReq DEF TypeOK, Boots, Exits, HandStarts, Crash, vars

LEMMA ApartKept ==
  ASSUME TypeOK, Apart, [Next]_vars
  PROVE  Apart'
  <1>1. CASE Boots \/ Exits \/ HandStarts \/ Crash \/ UNCHANGED vars
    BY <1>1, WorldReq DEF Apart, Stopping, Repairing, Resuming
  <1>2. ASSUME NEW r \in Request, BeginSweep(r) \/ BeginRestart(r) \/ BeginOpen(r)
        PROVE Apart'
    BY <1>2, BeginReq DEF Apart, MayBegin, Stopping, Repairing, Resuming
  <1>3. ASSUME NEW r \in Request, Step(r)
        PROVE Apart'
    BY <1>3, StepReq, RequestAssumption DEF Apart, Stopping, Repairing,
       Resuming, Request
  <1> QED BY <1>1, <1>2, <1>3 DEF Next

LEMMA MarkInvKept ==
  ASSUME OneAtATime, TypeOK, Apart, MarkInv, [Next]_vars
  PROVE  MarkInv'
  <1>1. CASE Boots
    BY <1>1, WorldReq DEF Boots, optVars, pastVars, MarkInv, Stopping,
       Repairing, Resuming, Late
  <1>2. CASE Exits
    BY <1>2, WorldReq DEF Exits, optVars, MarkInv, Stopping, Repairing, Resuming, Late
  <1>3. CASE HandStarts
    BY <1>3, WorldReq DEF HandStarts, optVars, pastVars, MarkInv, Stopping,
       Repairing, Resuming, Late
  <1>4. CASE Crash
    BY <1>4, WorldReq DEF Crash, procVars, optVars, pastVars, MarkInv, Stopping,
       Repairing, Resuming, Late
  <1>5. CASE UNCHANGED vars
    BY <1>5, WorldReq DEF vars, procVars, optVars, pastVars, MarkInv, Stopping,
       Repairing, Resuming, Late
  <1>6. ASSUME NEW r \in Request, BeginSweep(r) \/ BeginRestart(r) \/ BeginOpen(r)
        PROVE MarkInv'
    BY <1>6, BeginReq DEF Stoppable, ClaudeUnder, procVars, optVars, pastVars,
       MarkInv, Stopping, Repairing, Resuming, Late
  <1>7. ASSUME NEW r \in Request, Step(r)
        PROVE MarkInv'
    <2>. ReqType
      BY DEF TypeOK
    <2>1. CASE WriteCmd(r)
      BY <1>7, <2>1, GoesReq, GivesReq, StepReq, NoOther DEF WriteCmd, At,
         CallWorks, CallFails, procVars, pastVars, MarkInv, Stopping,
         Repairing, Resuming, Late
    <2>2. CASE RemainOn(r)
      BY <1>7, <2>2, GoesReq, GivesReq, StepReq, NoOther DEF RemainOn, At,
         CallWorks, CallFails, procVars, pastVars, MarkInv, Stopping,
         Repairing, Resuming, Late
    <2>3. CASE Signal(r)
      BY <1>7, <2>3, GoesReq, GivesReq, StepReq, NoOther DEF Signal, At,
         CallWorks, CallFails, procVars, optVars, MarkInv, Stopping,
         Repairing, Resuming, Late
    <2>4. CASE Exited(r)
      BY <1>7, <2>4, GoesReq, StepReq, NoOther DEF Exited, At, procVars,
         optVars, pastVars, MarkInv, Stopping, Repairing, Resuming, Late
    <2>5. CASE GraceOver(r)
      BY <1>7, <2>5, GivesReq, StepReq, NoOther DEF GraceOver, At, procVars,
         optVars, pastVars, MarkInv, Stopping, Repairing, Resuming, Late
    <2>6. CASE Check(r)
      BY <1>7, <2>6, LooksReq, GoesReq, GivesReq, StepReq, NoOther DEF Check, At,
         procVars, optVars, pastVars, MarkInv, Stopping, Repairing, Resuming,
         Late
    <2>7. CASE Mark(r)
      BY <1>7, <2>7, GoesReq, GivesReq, StepReq, NoOther DEF Mark, At,
         CallWorks, CallFails, procVars, pastVars, MarkInv, Stopping,
         Repairing, Resuming, Late
    <2>8. CASE ReadRows(r)
      BY <1>7, <2>8, LooksReq, GoesReq, EndsReq, StepReq, NoOther DEF ReadRows, At,
         procVars, optVars, pastVars, MarkInv, Stopping, Repairing, Resuming,
         Late
    <2>9. CASE Stamp(r)
      BY <1>7, <2>9, EndsReq, StepReq, NoOther DEF Stamp, At, CallWorks,
         CallFails, procVars, pastVars, MarkInv, Stopping, Repairing,
         Resuming, Late
    <2>10. CASE Look(r)
      BY <1>7, <2>10, LooksReq, EndsReq, GoesReq, StepReq, NoOther DEF Look, At, procVars,
         optVars, pastVars, MarkInv, Stopping, Repairing, Resuming, Late
    <2>11. CASE Respawn(r)
      BY <1>7, <2>11, GoesReq, EndsReq, StepReq, NoOther DEF Respawn, At,
         CallWorks, CallFails, optVars, pastVars, MarkInv, Stopping,
         Repairing, Resuming, Late
    <2>12. CASE Unremain(r)
      BY <1>7, <2>12, GoesReq, StepReq, NoOther DEF Unremain, At, CallWorks,
         CallFails, procVars, pastVars, MarkInv, Stopping, Repairing,
         Resuming, Late
    <2>13. CASE Unmark(r)
      BY <1>7, <2>13, EndsReq, StepReq, NoOther DEF Unmark, At, CallWorks,
         CallFails, procVars, pastVars, MarkInv, Stopping, Repairing,
         Resuming, Late
    <2>14. CASE Read(r)
      BY <1>7, <2>14, EndsReq, StepReq, NoOther DEF Read, At, procVars,
         optVars, pastVars, MarkInv, Stopping, Repairing, Resuming, Late,
         ReqType
    <2> QED BY <1>7, <2>1, <2>2, <2>3, <2>4, <2>5, <2>6, <2>7, <2>8, <2>9,
           <2>10, <2>11, <2>12, <2>13, <2>14 DEF Step
  <1> QED BY <1>1, <1>2, <1>3, <1>4, <1>5, <1>6, <1>7 DEF Next

LEMMA CmdInvKept ==
  ASSUME OneAtATime, TypeOK, Apart, MarkInv, CmdInv, ProcInv, [Next]_vars
  PROVE  CmdInv'
  <1>1. CASE Boots
    BY <1>1, WorldReq DEF Boots, optVars, pastVars, CmdInv, ProcInv, MarkInv,
       TypeOK, FlagType, ShellLives, Stopping, Repairing, Resuming, Late
  <1>2. CASE Exits
    BY <1>2, WorldReq DEF Exits, optVars, CmdInv, ProcInv, MarkInv, TypeOK,
       FlagType, ShellLives, Stopping, Repairing, Resuming, Late
  <1>3. CASE HandStarts
    BY <1>3, WorldReq DEF HandStarts, optVars, pastVars, CmdInv, ProcInv,
       MarkInv, TypeOK, FlagType, ShellLives, Stopping, Repairing, Resuming,
       Late
  <1>4. CASE Crash
    BY <1>4, WorldReq DEF Crash, procVars, optVars, pastVars, CmdInv, ProcInv,
       MarkInv, TypeOK, FlagType, ShellLives, Stopping, Repairing, Resuming,
       Late
  <1>5. CASE UNCHANGED vars
    BY <1>5, WorldReq DEF vars, procVars, optVars, pastVars, CmdInv, ProcInv,
       MarkInv, TypeOK, FlagType, ShellLives, Stopping, Repairing, Resuming,
       Late
  <1>6. ASSUME NEW r \in Request, BeginSweep(r) \/ BeginRestart(r) \/ BeginOpen(r)
        PROVE CmdInv'
    BY <1>6, BeginReq DEF Stoppable, ClaudeUnder, procVars, optVars, pastVars,
       CmdInv, ProcInv, MarkInv, TypeOK, FlagType, ShellLives, ClaudeUnder,
       Stopping, Repairing, Resuming, Late
  <1>7. ASSUME NEW r \in Request, Step(r)
        PROVE CmdInv'
    <2>. ReqType
      BY DEF TypeOK
    <2>1. CASE WriteCmd(r)
      BY <1>7, <2>1, GoesReq, GivesReq, StepReq, NoOther DEF WriteCmd, At,
         CallWorks, CallFails, procVars, pastVars, CmdInv, ProcInv, MarkInv,
         TypeOK, FlagType, ShellLives, Stopping, Repairing, Resuming, Late
    <2>2. CASE RemainOn(r)
      BY <1>7, <2>2, GoesReq, GivesReq, StepReq, NoOther DEF RemainOn, At,
         CallWorks, CallFails, procVars, pastVars, CmdInv, ProcInv, MarkInv,
         TypeOK, FlagType, ShellLives, Stopping, Repairing, Resuming, Late
    <2>3. CASE Signal(r)
      BY <1>7, <2>3, GoesReq, GivesReq, StepReq, NoOther DEF Signal, At,
         CallWorks, CallFails, procVars, optVars, CmdInv, ProcInv, MarkInv,
         TypeOK, FlagType, ShellLives, Stopping, Repairing, Resuming, Late
    <2>4. CASE Exited(r)
      BY <1>7, <2>4, GoesReq, StepReq, NoOther DEF Exited, At, procVars,
         optVars, pastVars, CmdInv, ProcInv, MarkInv, TypeOK, FlagType,
         ShellLives, Stopping, Repairing, Resuming, Late
    <2>5. CASE GraceOver(r)
      BY <1>7, <2>5, GivesReq, StepReq, NoOther DEF GraceOver, At, procVars,
         optVars, pastVars, CmdInv, ProcInv, MarkInv, TypeOK, FlagType,
         ShellLives, Stopping, Repairing, Resuming, Late
    <2>6. CASE Check(r)
      BY <1>7, <2>6, LooksReq, GoesReq, GivesReq, StepReq, NoOther DEF Check, At,
         procVars, optVars, pastVars, CmdInv, ProcInv, MarkInv, TypeOK,
         FlagType, ShellLives, ClaudeUnder, Stopping, Repairing, Resuming,
         Late
    <2>7. CASE Mark(r)
      BY <1>7, <2>7, GoesReq, GivesReq, StepReq, NoOther DEF Mark, At,
         CallWorks, CallFails, procVars, pastVars, CmdInv, ProcInv, MarkInv,
         TypeOK, FlagType, ShellLives, Stopping, Repairing, Resuming, Late
    <2>8. CASE ReadRows(r)
      BY <1>7, <2>8, LooksReq, GoesReq, EndsReq, StepReq, NoOther DEF ReadRows, At,
         procVars, optVars, pastVars, CmdInv, ProcInv, MarkInv, TypeOK,
         FlagType, ShellLives, ClaudeUnder, Stopping, Repairing, Resuming,
         Late
    <2>9. CASE Stamp(r)
      BY <1>7, <2>9, EndsReq, StepReq, NoOther DEF Stamp, At, CallWorks,
         CallFails, procVars, pastVars, CmdInv, ProcInv, MarkInv, TypeOK,
         FlagType, ShellLives, Stopping, Repairing, Resuming, Late
    <2>10. CASE Look(r)
      BY <1>7, <2>10, LooksReq, EndsReq, GoesReq, StepReq, NoOther DEF Look, At, procVars,
         optVars, pastVars, CmdInv, ProcInv, MarkInv, TypeOK, FlagType,
         ShellLives, ClaudeUnder, Stopping, Repairing, Resuming, Late
    <2>11. CASE Respawn(r)
      BY <1>7, <2>11, GoesReq, EndsReq, StepReq, NoOther DEF Respawn, At,
         CallWorks, CallFails, optVars, pastVars, CmdInv, ProcInv, MarkInv,
         TypeOK, FlagType, ShellLives, Stopping, Repairing, Resuming, Late
    <2>12. CASE Unremain(r)
      BY <1>7, <2>12, GoesReq, StepReq, NoOther DEF Unremain, At, CallWorks,
         CallFails, procVars, pastVars, CmdInv, ProcInv, MarkInv, TypeOK,
         FlagType, ShellLives, Stopping, Repairing, Resuming, Late
    <2>13. CASE Unmark(r)
      BY <1>7, <2>13, EndsReq, StepReq, NoOther DEF Unmark, At, CallWorks,
         CallFails, procVars, pastVars, CmdInv, ProcInv, MarkInv, TypeOK,
         FlagType, ShellLives, Stopping, Repairing, Resuming, Late
    <2>14. CASE Read(r)
      BY <1>7, <2>14, EndsReq, StepReq, NoOther DEF Read, At, procVars,
         optVars, pastVars, CmdInv, ProcInv, MarkInv, TypeOK, FlagType,
         ShellLives, Stopping, Repairing, Resuming, Late, ReqType
    <2> QED BY <1>7, <2>1, <2>2, <2>3, <2>4, <2>5, <2>6, <2>7, <2>8, <2>9,
           <2>10, <2>11, <2>12, <2>13, <2>14 DEF Step
  <1> QED BY <1>1, <1>2, <1>3, <1>4, <1>5, <1>6, <1>7 DEF Next

LEMMA ProcInvKept ==
  ASSUME OneAtATime, TypeOK, Apart, MarkInv, CmdInv, ProcInv, [Next]_vars
  PROVE  ProcInv'
  <1>1. CASE Boots
    BY <1>1, WorldReq DEF Boots, optVars, pastVars, ProcInv, MarkInv, CmdInv,
       TypeOK, FlagType, ShellLives, ProcType, CountType, Up, Stopping,
       Repairing, Resuming, Late
  <1>2. CASE Exits
    BY <1>2, WorldReq DEF Exits, optVars, ProcInv, MarkInv, CmdInv, TypeOK,
       FlagType, ShellLives, ProcType, CountType, Up, Stopping, Repairing,
       Resuming, Late
  <1>3. CASE HandStarts
    BY <1>3, WorldReq DEF HandStarts, optVars, pastVars, ProcInv, MarkInv,
       CmdInv, TypeOK, FlagType, ShellLives, ProcType, CountType, Up,
       Stopping, Repairing, Resuming, Late
  <1>4. CASE Crash
    BY <1>4, WorldReq DEF Crash, procVars, optVars, pastVars, ProcInv, MarkInv,
       CmdInv, TypeOK, FlagType, ShellLives, ProcType, CountType, Up, Stopping,
       Repairing, Resuming, Late
  <1>5. CASE UNCHANGED vars
    BY <1>5, WorldReq DEF vars, procVars, optVars, pastVars, ProcInv, MarkInv,
       CmdInv, TypeOK, FlagType, ShellLives, ProcType, CountType, Up, Stopping,
       Repairing, Resuming, Late
  <1>6. ASSUME NEW r \in Request, BeginSweep(r) \/ BeginRestart(r) \/ BeginOpen(r)
        PROVE ProcInv'
    BY <1>6, BeginReq DEF Stoppable, ClaudeUnder, procVars, optVars, pastVars,
       ProcInv, MarkInv, CmdInv, TypeOK, FlagType, ShellLives, ProcType,
       CountType, ClaudeUnder, Up, Stopping, Repairing, Resuming, Late
  <1>7. ASSUME NEW r \in Request, Step(r)
        PROVE ProcInv'
    <2>. ReqType
      BY DEF TypeOK
    <2>1. CASE WriteCmd(r)
      BY <1>7, <2>1, GoesReq, GivesReq, StepReq, NoOther DEF WriteCmd, At,
         CallWorks, CallFails, procVars, pastVars, ProcInv, MarkInv, CmdInv,
         TypeOK, FlagType, ShellLives, ProcType, CountType, Up, Stopping,
         Repairing, Resuming, Late
    <2>2. CASE RemainOn(r)
      BY <1>7, <2>2, GoesReq, GivesReq, StepReq, NoOther DEF RemainOn, At,
         CallWorks, CallFails, procVars, pastVars, ProcInv, MarkInv, CmdInv,
         TypeOK, FlagType, ShellLives, ProcType, CountType, Up, Stopping,
         Repairing, Resuming, Late
    <2>3. CASE Signal(r)
      BY <1>7, <2>3, GoesReq, GivesReq, StepReq, NoOther DEF Signal, At,
         CallWorks, CallFails, procVars, optVars, ProcInv, MarkInv, CmdInv,
         TypeOK, FlagType, ShellLives, ProcType, CountType, Up, Stopping,
         Repairing, Resuming, Late
    <2>4. CASE Exited(r)
      BY <1>7, <2>4, GoesReq, StepReq, NoOther DEF Exited, At, procVars,
         optVars, pastVars, ProcInv, MarkInv, CmdInv, TypeOK, FlagType,
         ShellLives, ProcType, CountType, Up, Stopping, Repairing, Resuming,
         Late
    <2>5. CASE GraceOver(r)
      BY <1>7, <2>5, GivesReq, StepReq, NoOther DEF GraceOver, At, procVars,
         optVars, pastVars, ProcInv, MarkInv, CmdInv, TypeOK, FlagType,
         ShellLives, ProcType, CountType, Up, Stopping, Repairing, Resuming,
         Late
    <2>6. CASE Check(r)
      BY <1>7, <2>6, LooksReq, GoesReq, GivesReq, StepReq, NoOther DEF Check, At,
         procVars, optVars, pastVars, ProcInv, MarkInv, CmdInv, TypeOK,
         FlagType, ShellLives, ProcType, CountType, ClaudeUnder, Up, Stopping,
         Repairing, Resuming, Late
    <2>7. CASE Mark(r)
      BY <1>7, <2>7, GoesReq, GivesReq, StepReq, NoOther DEF Mark, At,
         CallWorks, CallFails, procVars, pastVars, ProcInv, MarkInv, CmdInv,
         TypeOK, FlagType, ShellLives, ProcType, CountType, Up, Stopping,
         Repairing, Resuming, Late
    <2>8. CASE ReadRows(r)
      BY <1>7, <2>8, LooksReq, GoesReq, EndsReq, StepReq, NoOther DEF ReadRows, At,
         procVars, optVars, pastVars, ProcInv, MarkInv, CmdInv, TypeOK,
         FlagType, ShellLives, ProcType, CountType, ClaudeUnder, Up, Stopping,
         Repairing, Resuming, Late
    <2>9. CASE Stamp(r)
      BY <1>7, <2>9, EndsReq, StepReq, NoOther DEF Stamp, At, CallWorks,
         CallFails, procVars, pastVars, ProcInv, MarkInv, CmdInv, TypeOK,
         FlagType, ShellLives, ProcType, CountType, Up, Stopping, Repairing,
         Resuming, Late
    <2>10. CASE Look(r)
      BY <1>7, <2>10, LooksReq, EndsReq, GoesReq, StepReq, NoOther DEF Look, At, procVars,
         optVars, pastVars, ProcInv, MarkInv, CmdInv, TypeOK, FlagType,
         ShellLives, ProcType, CountType, ClaudeUnder, Up, Stopping,
         Repairing, Resuming, Late
    <2>11. CASE Respawn(r)
      BY <1>7, <2>11, GoesReq, EndsReq, StepReq, NoOther DEF Respawn, At,
         CallWorks, CallFails, optVars, pastVars, ProcInv, MarkInv, CmdInv,
         TypeOK, FlagType, ShellLives, ProcType, CountType, Up, Stopping,
         Repairing, Resuming, Late
    <2>12. CASE Unremain(r)
      BY <1>7, <2>12, GoesReq, StepReq, NoOther DEF Unremain, At, CallWorks,
         CallFails, procVars, pastVars, ProcInv, MarkInv, CmdInv, TypeOK,
         FlagType, ShellLives, ProcType, CountType, Up, Stopping, Repairing,
         Resuming, Late
    <2>13. CASE Unmark(r)
      BY <1>7, <2>13, EndsReq, StepReq, NoOther DEF Unmark, At, CallWorks,
         CallFails, procVars, pastVars, ProcInv, MarkInv, CmdInv, TypeOK,
         FlagType, ShellLives, ProcType, CountType, Up, Stopping, Repairing,
         Resuming, Late
    <2>14. CASE Read(r)
      BY <1>7, <2>14, EndsReq, StepReq, NoOther DEF Read, At, procVars,
         optVars, pastVars, ProcInv, MarkInv, CmdInv, TypeOK, FlagType,
         ShellLives, ProcType, CountType, Up, Stopping, Repairing, Resuming,
         Late, ReqType
    <2> QED BY <1>7, <2>1, <2>2, <2>3, <2>4, <2>5, <2>6, <2>7, <2>8, <2>9,
           <2>10, <2>11, <2>12, <2>13, <2>14 DEF Step
  <1> QED BY <1>1, <1>2, <1>3, <1>4, <1>5, <1>6, <1>7 DEF Next

LEMMA RemainInvKept ==
  ASSUME OneAtATime, TypeOK, Apart, MarkInv, CmdInv, ProcInv, RemainInv, [Next]_vars
  PROVE  RemainInv'
  <1>1. CASE Boots
    BY <1>1, WorldReq DEF Boots, optVars, pastVars, RemainInv, MarkInv, ProcInv,
       TypeOK, FlagType, ShellLives, ProcType, CountType, Stopping, Repairing,
       Resuming, Late
  <1>2. CASE Exits
    BY <1>2, WorldReq DEF Exits, optVars, RemainInv, MarkInv, ProcInv, TypeOK,
       FlagType, ShellLives, ProcType, CountType, Stopping, Repairing, Resuming,
       Late
  <1>3. CASE HandStarts
    BY <1>3, WorldReq DEF HandStarts, optVars, pastVars, RemainInv, MarkInv,
       ProcInv, TypeOK, FlagType, ShellLives, ProcType, CountType, Stopping,
       Repairing, Resuming, Late
  <1>4. CASE Crash
    BY <1>4, WorldReq DEF Crash, procVars, optVars, pastVars, RemainInv,
       MarkInv, ProcInv, TypeOK, FlagType, ShellLives, ProcType, CountType,
       Stopping, Repairing, Resuming, Late
  <1>5. CASE UNCHANGED vars
    BY <1>5, WorldReq DEF vars, procVars, optVars, pastVars, RemainInv, MarkInv,
       ProcInv, TypeOK, FlagType, ShellLives, ProcType, CountType, Stopping,
       Repairing, Resuming, Late
  <1>6. ASSUME NEW r \in Request, BeginSweep(r) \/ BeginRestart(r) \/ BeginOpen(r)
        PROVE RemainInv'
    <2>1. UNCHANGED <<shell, claude, remain, mark, termed, lost, launches>>
      BY <1>6, BeginReq DEF procVars, optVars, pastVars
    <2>2. req'[r].at \in {"cmd", "rows", "read"} /\ \A q \in Request \ {r} : req'[q] = req[q]
      BY <1>6, BeginReq
    <2>3. \A q \in Request : req'[q].at \in {"signal", "wait", "check", "mark"} => remain'
      BY <2>1, <2>2 DEF RemainInv
    <2> QED BY <2>1, <2>3 DEF RemainInv
  <1>7. ASSUME NEW r \in Request, Step(r)
        PROVE RemainInv'
    <2>. ReqType
      BY DEF TypeOK
    <2>1. CASE WriteCmd(r)
      BY <1>7, <2>1, GoesReq, GivesReq, StepReq, NoOther DEF WriteCmd, At,
         CallWorks, CallFails, procVars, pastVars, RemainInv, MarkInv,
         ProcInv, TypeOK, FlagType, ShellLives, ProcType, CountType, Stopping,
         Repairing, Resuming, Late
    <2>2. CASE RemainOn(r)
      BY <1>7, <2>2, GoesReq, GivesReq, StepReq, NoOther DEF RemainOn, At,
         CallWorks, CallFails, procVars, pastVars, RemainInv, MarkInv,
         ProcInv, TypeOK, FlagType, ShellLives, ProcType, CountType, Stopping,
         Repairing, Resuming, Late
    <2>3. CASE Signal(r)
      BY ZenonT(30), <1>7, <2>3, GoesReq, GivesReq, StepReq, NoOther DEF Signal, At,
         CallWorks, CallFails, procVars, optVars, RemainInv, MarkInv, ProcInv,
         TypeOK, FlagType, ShellLives, ProcType, CountType, Stopping,
         Repairing, Resuming, Late
    <2>4. CASE Exited(r)
      BY <1>7, <2>4, GoesReq, StepReq, NoOther DEF Exited, At, procVars,
         optVars, pastVars, RemainInv, MarkInv, ProcInv, TypeOK, FlagType,
         ShellLives, ProcType, CountType, Stopping, Repairing, Resuming, Late
    <2>5. CASE GraceOver(r)
      BY <1>7, <2>5, GivesReq, StepReq, NoOther DEF GraceOver, At, procVars,
         optVars, pastVars, RemainInv, MarkInv, ProcInv, TypeOK, FlagType,
         ShellLives, ProcType, CountType, Stopping, Repairing, Resuming, Late
    <2>6. CASE Check(r)
      BY <1>7, <2>6, LooksReq, GoesReq, GivesReq, StepReq, NoOther DEF Check, At,
         procVars, optVars, pastVars, RemainInv, MarkInv, ProcInv, TypeOK,
         FlagType, ShellLives, ProcType, CountType, Stopping, Repairing,
         Resuming, Late
    <2>7. CASE Mark(r)
      BY <1>7, <2>7, GoesReq, GivesReq, StepReq, NoOther DEF Mark, At,
         CallWorks, CallFails, procVars, pastVars, RemainInv, MarkInv,
         ProcInv, TypeOK, FlagType, ShellLives, ProcType, CountType, Stopping,
         Repairing, Resuming, Late
    <2>8. CASE ReadRows(r)
      BY <1>7, <2>8, LooksReq, GoesReq, EndsReq, StepReq, NoOther DEF ReadRows, At,
         procVars, optVars, pastVars, RemainInv, MarkInv, ProcInv, TypeOK,
         FlagType, ShellLives, ProcType, CountType, Stopping, Repairing,
         Resuming, Late
    <2>9. CASE Stamp(r)
      BY <1>7, <2>9, EndsReq, StepReq, NoOther DEF Stamp, At, CallWorks,
         CallFails, procVars, pastVars, RemainInv, MarkInv, ProcInv, TypeOK,
         FlagType, ShellLives, ProcType, CountType, Stopping, Repairing,
         Resuming, Late
    <2>10. CASE Look(r)
      BY <1>7, <2>10, LooksReq, EndsReq, GoesReq, StepReq, NoOther DEF Look, At, procVars,
         optVars, pastVars, RemainInv, MarkInv, ProcInv, TypeOK, FlagType,
         ShellLives, ProcType, CountType, Stopping, Repairing, Resuming, Late
    <2>11. CASE Respawn(r)
      BY <1>7, <2>11, GoesReq, EndsReq, StepReq, NoOther DEF Respawn, At,
         CallWorks, CallFails, optVars, pastVars, RemainInv, MarkInv, ProcInv,
         TypeOK, FlagType, ShellLives, ProcType, CountType, Stopping,
         Repairing, Resuming, Late
    <2>12. CASE Unremain(r)
      BY <1>7, <2>12, GoesReq, StepReq, NoOther DEF Unremain, At, CallWorks,
         CallFails, procVars, pastVars, RemainInv, MarkInv, ProcInv, TypeOK,
         FlagType, ShellLives, ProcType, CountType, Stopping, Repairing,
         Resuming, Late
    <2>13. CASE Unmark(r)
      BY <1>7, <2>13, EndsReq, StepReq, NoOther DEF Unmark, At, CallWorks,
         CallFails, procVars, pastVars, RemainInv, MarkInv, ProcInv, TypeOK,
         FlagType, ShellLives, ProcType, CountType, Stopping, Repairing,
         Resuming, Late
    <2>14. CASE Read(r)
      BY <1>7, <2>14, EndsReq, StepReq, NoOther DEF Read, At, procVars,
         optVars, pastVars, RemainInv, MarkInv, ProcInv, TypeOK, FlagType,
         ShellLives, ProcType, CountType, Stopping, Repairing, Resuming, Late,
         ReqType
    <2> QED BY <1>7, <2>1, <2>2, <2>3, <2>4, <2>5, <2>6, <2>7, <2>8, <2>9,
           <2>10, <2>11, <2>12, <2>13, <2>14 DEF Step
  <1> QED BY <1>1, <1>2, <1>3, <1>4, <1>5, <1>6, <1>7 DEF Next

LEMMA IInvInit == Init => IInv
  <1>. SUFFICES ASSUME Init PROVE IInv
    OBVIOUS
  <1>1. TypeOK
    BY TypeInit
  <1>2. \A r \in Request : req[r].at = "idle"
    BY IdleType DEF Init
  <1>3. Apart /\ MarkInv
    BY <1>2 DEF Init, Apart, MarkInv, Stopping, Repairing, Resuming, Late
  <1>4. CmdInv /\ ProcInv
    BY <1>2 DEF Init, CmdInv, ProcInv, Stopping
  <1>5. RemainInv
    BY <1>2 DEF Init, RemainInv
  <1> QED BY <1>1, <1>3, <1>4, <1>5 DEF IInv

LEMMA IInvKept ==
  ASSUME OneAtATime, IInv, [Next]_vars
  PROVE  IInv'
  <1>1. TypeOK /\ Apart /\ MarkInv /\ CmdInv /\ ProcInv /\ RemainInv
    BY DEF IInv
  <1>2. TypeOK'
    BY <1>1, TypeKept
  <1>3. Apart'
    BY <1>1, ApartKept
  <1>4. MarkInv'
    BY <1>1, MarkInvKept
  <1>5. CmdInv'
    BY <1>1, CmdInvKept
  <1>6. ProcInv'
    BY <1>1, ProcInvKept
  <1>7. RemainInv'
    BY <1>1, RemainInvKept
  <1> QED BY <1>2, <1>3, <1>4, <1>5, <1>6, <1>7 DEF IInv

LEMMA Inductive ==
  ASSUME OneAtATime
  PROVE  Spec => []IInv
  <1>1. IInv /\ [Next]_vars => IInv'
    BY IInvKept
  <1> QED BY <1>1, IInvInit, PTL DEF Spec

\* While requests do not overlap more than the services let them, the signal of a
\* stop never ends the session, however many calls fail and whenever the service
\* restarts (stopClaude, steps f and g).
THEOREM Survives ==
  ASSUME OneAtATime
  PROVE  Spec => []SessionSurvives
  <1>1. IInv => SessionSurvives
    BY DEF IInv, RemainInv, SessionSurvives
  <1> QED BY <1>1, Inductive, PTL

\* A session that reads suspended has the command that resumes it: the stop writes it
\* before the mark, and the resume clears both in one call (ClearSuspendMarks).
THEOREM Resumable ==
  ASSUME OneAtATime
  PROVE  Spec => []MarkResumable
  <1>1. IInv => MarkResumable
    BY DEF IInv, CmdInv, MarkResumable
  <1> QED BY <1>1, Inductive, PTL

-----------------------------------------------------------------------------
(* Which Claudes a mark or a respawn can meet, whichever requests overlap. *)

\* A request that saw no Claude, or the one it stops, has another under its pane
\* only if that came up since.
SeenInv ==
    \A r \in Request :
        /\ req[r].at \in {"cmd", "remain", "signal", "wait"} =>
              (Up => claude = req[r].pid \/ req[r].late)
        /\ req[r].at \in {"check", "mark", "stamp", "respawn"} => (Up => req[r].late)
        /\ req[r].at = "look" => (Up => pane = req[r].pane \/ req[r].late)

LEMMA SeenStep ==
  ASSUME TypeOK, SeenInv, NEW r \in Request, Step(r)
  PROVE  SeenInv'
  <1>. ReqType
    BY DEF TypeOK
  <1>1. CASE Respawn(r)
    <2>1. CASE booting' = TRUE
      BY <2>1 DEF SeenInv, Up
    <2>2. CASE Ends(r) /\ UNCHANGED <<pane, claude, booting>>
      BY <2>2, EndsReq DEF SeenInv, Up
    <2> QED BY <1>1, <2>1, <2>2 DEF Respawn
  <1>2. ASSUME ~Respawn(r)
        PROVE  SeenInv'
    <2>1. UNCHANGED <<shell, session, pane, claude, booting>>
      BY <1>2 DEF Step, WriteCmd, RemainOn, Signal, Exited, GraceOver, Check, Mark,
         ReadRows, Stamp, Read, Look, Unremain, Unmark, procVars
    <2>2. \A q \in Request \ {r} : req'[q] = req[q]
      BY StepReq
    <2>3. SUFFICES ASSUME Up
          PROVE  /\ req'[r].at \in {"cmd", "remain", "signal", "wait"} =>
                       claude = req'[r].pid \/ req'[r].late
                 /\ req'[r].at \in {"check", "mark", "stamp", "respawn"} => req'[r].late
                 /\ req'[r].at = "look" => pane = req'[r].pane \/ req'[r].late
      BY <2>1, <2>2 DEF SeenInv, Up
    <2>4. session = "live" /\ ClaudeUnder(pane)
      BY <2>3 DEF TypeOK, ShellLives, ClaudeUnder, Up
    <2>5. CASE WriteCmd(r)
      BY <2>3, <2>5, GoesReq, GivesReq DEF WriteCmd, SeenInv, At, Stopping
    <2>6. CASE RemainOn(r)
      BY <2>3, <2>6, GoesReq, GivesReq DEF RemainOn, SeenInv, At, Stopping
    <2>7. CASE Signal(r)
      BY <2>3, <2>7, GoesReq, GivesReq DEF Signal, SeenInv, At, Stopping
    <2>8. CASE Exited(r)
      BY <2>3, <2>8, GoesReq DEF Exited, SeenInv, At, Stopping
    <2>9. CASE GraceOver(r)
      BY <2>9, GivesReq DEF GraceOver
    <2>10. CASE Check(r)
      BY <2>3, <2>4, <2>10, GoesReq, GivesReq, LooksReq DEF Check, SeenInv, ClaudeUnder,
         At, Stopping
    <2>11. CASE Mark(r)
      BY <2>11, GoesReq, GivesReq DEF Mark, At, Repairing, Resuming
    <2>12. CASE ReadRows(r)
      BY <2>4, <2>12, EndsReq DEF ReadRows
    <2>13. CASE Stamp(r)
      BY <2>13, EndsReq DEF Stamp
    <2>14. CASE Read(r)
      BY <2>4, <2>14, EndsReq DEF Read, ReqType
    <2>15. CASE Look(r)
      BY <2>3, <2>4, <2>15, GoesReq, EndsReq, LooksReq DEF Look, SeenInv, ClaudeUnder,
         At, Resuming
    <2>16. CASE Unremain(r)
      BY <2>16, GoesReq DEF Unremain, At, Resuming
    <2>17. CASE Unmark(r)
      BY <2>17, EndsReq DEF Unmark
    <2> QED BY <1>2, <2>5, <2>6, <2>7, <2>8, <2>9, <2>10, <2>11, <2>12, <2>13, <2>14,
               <2>15, <2>16, <2>17 DEF Step
  <1> QED BY <1>1, <1>2

LEMMA SeenKept ==
  ASSUME TypeOK, SeenInv, [Next]_vars
  PROVE  SeenInv'
  <1>1. CASE Boots \/ HandStarts
    <2>1. \A r \in Request : req'[r].at # "idle" => req'[r].late
      BY <1>1, ComesUpReq DEF TypeOK, Boots, HandStarts
    <2> QED BY <2>1 DEF SeenInv
  <1>2. CASE Exits
    BY <1>2 DEF Exits, SeenInv, Up
  <1>3. CASE Crash
    BY <1>3, IdleType DEF Crash, SeenInv
  <1>4. CASE UNCHANGED vars
    BY <1>4 DEF vars, procVars, SeenInv, Up
  <1>5. ASSUME NEW r \in Request, BeginSweep(r) \/ BeginRestart(r) \/ BeginOpen(r)
        PROVE  SeenInv'
    <2>1. UNCHANGED <<pane, claude, booting>> /\ \A q \in Request \ {r} : req'[q] = req[q]
      BY <1>5, BeginReq DEF procVars
    <2>2. \/ req'[r].at = "cmd" /\ req'[r].pid = claude
          \/ req'[r].at \in {"rows", "read"}
      BY <1>5, BeginReq
    <2> QED BY <2>1, <2>2 DEF SeenInv, Up
  <1> QED BY <1>1, <1>2, <1>3, <1>4, <1>5, SeenStep DEF Next

LEMMA Seen == Spec => []SeenInv
  <1>1. Init => SeenInv
    BY IdleType DEF Init, SeenInv
  <1>2. TypeOK /\ SeenInv /\ [Next]_vars => SeenInv'
    BY SeenKept
  <1> QED BY <1>1, <1>2, TypeCorrect, PTL DEF Spec

\* Whichever sweeps, restarts and resumes meet, a Claude that runs is marked suspended
\* only by a request it came up behind (stopClaude's invariant, suspend.go).
THEOREM Marked == Spec => MarkedUnlessLate
  <1>1. TypeOK /\ SeenInv /\ [Next]_vars =>
          [~mark /\ mark' /\ Up =>
             \E r \in Request : req[r].at \in {"mark", "stamp"} /\ req[r].late /\ req'[r].at # req[r].at]_vars
    <2>. SUFFICES ASSUME TypeOK, SeenInv, Next, ~mark, mark', Up
         PROVE  \E r \in Request : req[r].at \in {"mark", "stamp"} /\ req[r].late /\ req'[r].at # req[r].at
      BY DEF vars, procVars, optVars
    <2>1. ~(Boots \/ Exits \/ HandStarts \/ Crash)
      BY DEF Boots, Exits, HandStarts, Crash, optVars
    <2>2. PICK r \in Request : Step(r)
      BY <2>1 DEF Next, BeginSweep, BeginRestart, BeginOpen, optVars
    <2>3. Mark(r) \/ Stamp(r)
      BY <2>2 DEF Step, WriteCmd, RemainOn, Signal, Exited, GraceOver, Check, ReadRows,
         Read, Look, Respawn, Unremain, Unmark, optVars
    <2>4. req[r].at \in {"mark", "stamp"} /\ req[r].late
      BY <2>3 DEF Mark, Stamp, SeenInv
    <2>5. req'[r].at # req[r].at
      <3>. ReqType
        BY DEF TypeOK
      <3>1. CASE Mark(r)
        <4>1. PICK at \in {"rows", "read"} : Goes(r, at)
          BY <3>1 DEF Mark
        <4>2. req'[r].at = at
          BY <4>1, GoesReq DEF At, Repairing, Resuming
        <4> QED BY <3>1, <4>2 DEF Mark
      <3>2. CASE Stamp(r)
        BY <3>2, EndsReq DEF Stamp
      <3> QED BY <2>3, <3>1, <3>2
    <2> QED BY <2>4, <2>5
  <1> QED BY <1>1, Seen, TypeCorrect, PTL DEF Spec, MarkedUnlessLate

\* Whichever requests meet, the respawn of a resume replaces a Claude that runs only if
\* that came up after the resume read the pane dead, or looked and saw none (Resume,
\* sessionio/resume.go).
THEOREM Respawned == Spec => RespawnedUnlessLate
  <1>1. TypeOK /\ SeenInv /\ [Next]_vars =>
          [pane' # pane /\ Up =>
             \E r \in Request : req[r].at = "respawn" /\ req[r].late /\ req'[r].at = "unremain"]_vars
    <2>. SUFFICES ASSUME TypeOK, SeenInv, Next, pane' # pane, Up
         PROVE  \E r \in Request : req[r].at = "respawn" /\ req[r].late /\ req'[r].at = "unremain"
      BY DEF vars, procVars, optVars
    <2>1. ~(Boots \/ Exits \/ HandStarts \/ Crash)
      BY DEF Boots, Exits, HandStarts, Crash, procVars
    <2>2. PICK r \in Request : Step(r)
      BY <2>1 DEF Next, BeginSweep, BeginRestart, BeginOpen, procVars
    <2>3. Respawn(r)
      BY <2>2 DEF Step, WriteCmd, RemainOn, Signal, Exited, GraceOver, Check, ReadRows,
         Mark, Stamp, Read, Look, Unremain, Unmark, procVars
    <2>4. req[r].at = "respawn" /\ req[r].late
      BY <2>3 DEF Respawn, SeenInv
    <2>5. req'[r].at = "unremain"
      BY <2>3, GoesReq DEF Respawn, TypeOK, At, Resuming
    <2> QED BY <2>4, <2>5
  <1> QED BY <1>1, Seen, TypeCorrect, PTL DEF Spec, RespawnedUnlessLate
=============================================================================
