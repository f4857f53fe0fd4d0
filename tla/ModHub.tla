--------------------------------- MODULE ModHub ---------------------------------
(***************************************************************************)
(* The connections session-events keeps for the mods of one user's Claudes *)
(* (modHub, mod.go): the hello that makes or moves one, which of two       *)
(* Claudes in a tmux session has it, the reaper, the cap, the bye, and     *)
(* what becomes of the prompts a connection holds when it ends (held.go).  *)
(*                                                                         *)
(* A Claude is in a pane, and runs one conversation at a time; it may be   *)
(* killed, or end a conversation without its bye arriving.  What it says   *)
(* of its turn is a level; its other events are left out, and so are the   *)
(* steps of a hello (ModLink) and of a prompt's delivery (HeldPrompts).    *)
(***************************************************************************)
EXTENDS Naturals, Sequences, FiniteSets, SequencesExt

CONSTANTS
    Sid,          \* conversations
    Pane, Session,
    Prompt,       \* the prompts sent while a turn runs
    None,
    Cap,          \* modConnsPerUser
    Races,        \* whether anything comes between the two halves of a hello or a reap
    MaxEnds,      \* bound: conversations ended
    MaxRenames,   \* bound: tmux sessions renamed
    MaxStops,     \* bound: Stops that take the held prompts
    MaxRestarts   \* bound: restarts of session-events

ASSUME CapAssumption == Cap \in Nat \ {0}
ASSUME NoneAssumption == None \notin Sid \cup Session /\ Races \in BOOLEAN
ASSUME BoundAssumption == {MaxEnds, MaxRenames, MaxStops, MaxRestarts} \subseteq Nat

VARIABLES
    \* the panes: the conversation of the Claude in each, its tmux session, whether
    \* its mod takes its token for good, and its hello while it is being served
    claude, name, linked, asking,
    hub,        \* the service
    \* tmux: @claude_transcript and @claude_state of each session
    stamp, shown,
    reaped,     \* the sessions of reaped connections whose options are still to go
    \* history: the prompts accepted, how often Claude was given each, those handed
    \* back, those a Stop lost with its connection (in hand or overwritten), whether a
    \* conversation came back that was carried, whether a hello was crossed
    sent, given, returned, cut, cameBack, crossed,
    \* counters of the bounds
    ends, renames, stops, restarts

worldVars == <<claude, name, linked, asking>>
tmuxVars  == <<stamp, shown>>
ghostVars == <<sent, given, returned, cut, cameBack, crossed>>
boundVars == <<ends, renames, stops, restarts>>
vars == <<worldVars, hub, tmuxVars, reaped, ghostVars, boundVars>>

\* quiet is how long the mod has not been heard: 0 below modLiveGap or while it
\* polls (alive), 2 past modExpiry.  turn is what the fold says, once it is known;
\* written is the state last written to tmux.
Conn == [on : BOOLEAN, pane : Pane \cup {None}, session : Session \cup {None},
         stamps : BOOLEAN, token : BOOLEAN, quiet : 0..2,
         turn : {"unknown", "idle", "on"}, written : {"", "idle", "on"},
         held : Seq(Prompt)]
NoConn == [on |-> FALSE, pane |-> None, session |-> None, stamps |-> FALSE,
           token |-> FALSE, quiet |-> 0, turn |-> "unknown", written |-> "", held |-> <<>>]

\* What ended conversations left, by pane (heldCarry).
NoCarry == [sid |-> None, texts |-> <<>>]

\* A Stop's prompts while its abort is on its way; late says the connection ended.
NoStop == [sid |-> None, texts |-> <<>>, late |-> FALSE]

\* A hello being served: yields says what its first half found (yields).
NoHello == [sid |-> None, session |-> None, yields |-> FALSE]

Init ==
    /\ claude = [p \in Pane |-> None] /\ name \in [Pane -> Session]
    /\ linked = [p \in Pane |-> FALSE] /\ asking = [p \in Pane |-> NoHello]
    /\ hub = [conn |-> [s \in Sid |-> NoConn], owner |-> [n \in Session |-> None],
              carry |-> [p \in Pane |-> NoCarry], files |-> [s \in Sid |-> <<>>],
              stop |-> NoStop]
    /\ stamp = [n \in Session |-> None] /\ shown = [n \in Session |-> ""] /\ reaped = {}
    /\ sent = {} /\ given = [x \in Prompt |-> 0] /\ returned = {} /\ cut = {}
    /\ cameBack = FALSE /\ crossed = FALSE
    /\ ends = 0 /\ renames = 0 /\ stops = 0 /\ restarts = 0

Registered == {s \in Sid : hub.conn[s].on}
Running == {claude[p] : p \in Pane} \ {None}

\* The mod of s holds a poll.
Polling(s) ==
    /\ hub.conn[s].token
    /\ \E p \in Pane : claude[p] = s /\ linked[p]

\* Claude is given texts.
Give(texts) ==
    given' = [x \in Prompt |-> IF x \in ToSet(texts) /\ given[x] < 2 THEN given[x] + 1 ELSE given[x]]

-----------------------------------------------------------------------------
(* The hub's helpers, over its value h.                                    *)

\* Faulty: the session keeps its entry.
Drop_keepsSession(h, s) ==
    LET c == h.conn[s] IN
    [h EXCEPT !.conn[s] = NoConn,
              !.carry[c.pane] = IF c.held = <<>> THEN @ ELSE [sid |-> s, texts |-> c.held],
              !.stop.late = @ \/ h.stop.sid = s]

\* dropLocked: a connection is forgotten, and what it held is kept for the next
\* conversation in its pane (carryLocked).
Drop(h, s) ==
    LET c == h.conn[s] IN
    [h EXCEPT !.conn[s] = NoConn,
              !.owner[c.session] = IF @ = s THEN None ELSE @,
              !.carry[c.pane] = IF c.held = <<>> THEN @ ELSE [sid |-> s, texts |-> c.held],
              !.stop.late = @ \/ h.stop.sid = s]

\* Faulty: what was left stays for the conversation after.
Adopt_leavesIt(h, s, p) ==
    LET left == h.carry[p]
        kept == h.files[s]
    IN  IF left.sid \notin {None, s}
        THEN [h EXCEPT !.conn[s].held = kept \o left.texts,
                       !.files = [@ EXCEPT ![left.sid] = <<>>, ![s] = kept \o left.texts]]
        ELSE [h EXCEPT !.conn[s].held = kept]

\* Faulty: the file of the conversation that takes them over is left as it was.
Adopt_unsaved(h, s, p) ==
    LET left == h.carry[p]
        kept == h.files[s]
    IN  IF left.sid \notin {None, s}
        THEN [h EXCEPT !.conn[s].held = kept \o left.texts, !.carry[p] = NoCarry,
                       !.files[left.sid] = <<>>]
        ELSE [h EXCEPT !.conn[s].held = kept]

\* adoptLocked: a new connection has what its conversation's file says and what
\* another conversation left in the pane.
Adopt(h, s, p) ==
    LET left == h.carry[p]
        kept == h.files[s]
    IN  IF left.sid \notin {None, s}
        THEN [h EXCEPT !.conn[s].held = kept \o left.texts,
                       !.carry[p] = NoCarry,
                       !.files = [@ EXCEPT ![left.sid] = <<>>, ![s] = kept \o left.texts]]
        ELSE [h EXCEPT !.conn[s].held = kept]

\* capLocked: as many connections as a user may have, and whom a new one puts out,
\* the longest silent.
Crowded == ~(Cardinality(Registered) < Cap)
Victims ==
    IF ~Crowded THEN {None}
    ELSE {v \in Registered : \A s \in Registered : hub.conn[s].quiet <= hub.conn[v].quiet}

\* Faulty: the last hello has the session.
Yields_never(h, s, p, n) == FALSE

\* yieldsLocked: another conversation has the session, from another pane, and its
\* mod is alive.
Yields(h, s, p, n) ==
    LET o == h.owner[n] IN
    o \notin {None, s} /\ h.conn[o].pane # p /\ h.conn[o].quiet = 0

\* hello, once the connection is made: it moves to the session, and has it unless
\* it yields.
Register(h, s, p, n) ==
    LET moved  == [h EXCEPT !.owner = [m \in Session |-> IF @[m] = s /\ m # n THEN None ELSE @[m]]]
        stamps == ~Yields(moved, s, p, n)
        before == moved.owner[n]
        alone  == IF stamps /\ before \notin {None, s} THEN Drop(moved, before) ELSE moved
    IN  [alone EXCEPT
            !.conn[s] = [@ EXCEPT !.on = TRUE, !.pane = p, !.session = n, !.stamps = stamps,
                                  !.token = TRUE, !.quiet = 0, !.turn = "unknown"],
            !.owner[n] = IF stamps THEN s ELSE @]

\* write: the session the options of connection c go to, by its pane if no session
\* has the name any more (followRename).
Lost(c) == \A q \in Pane : name[q] # c.session
Target(c) == IF Lost(c) THEN name[c.pane] ELSE c.session

-----------------------------------------------------------------------------
(* The Claudes.                                                            *)

\* A Claude starts, or a conversation is resumed, in a pane.
Start(p, s) ==
    /\ claude[p] = None /\ s \notin Running
    /\ claude' = [claude EXCEPT ![p] = s] /\ linked' = [linked EXCEPT ![p] = FALSE]
    /\ UNCHANGED <<name, asking, hub, tmuxVars, reaped, ghostVars, boundVars>>

\* apply on a bye for the connection's conversation: the options go, and it is
\* dropped.  A connection that has no session ignores it.
Bye(s) ==
    LET c == hub.conn[s] IN
    IF c.stamps
    THEN hub' = Drop(hub, s) /\ shown' = [shown EXCEPT ![Target(c)] = ""]
    ELSE UNCHANGED <<hub, shown>>

\* The conversation in p ends, and the Claude with it or another begins in it
\* (a /clear, or a resume).  The bye arrives, or it does not: Claude was killed,
\* or its last post failed.
End(p, next) ==
    /\ claude[p] # None /\ ends < MaxEnds /\ ends' = ends + 1
    /\ next \in {None} \cup (Sid \ Running)
    /\ claude' = [claude EXCEPT ![p] = next] /\ linked' = [linked EXCEPT ![p] = FALSE]
    /\ \/ linked[p] /\ hub.conn[claude[p]].token /\ Bye(claude[p])
       \/ UNCHANGED <<hub, shown>>
    /\ UNCHANGED <<name, asking, stamp, reaped, ghostVars, renames, stops, restarts>>

\* A tmux session gets a free name, its options with it.
Rename(old, new) ==
    /\ renames < MaxRenames /\ renames' = renames + 1
    /\ \E p \in Pane : name[p] = old
    /\ \A p \in Pane : name[p] # new
    /\ name' = [p \in Pane |-> IF name[p] = old THEN new ELSE name[p]]
    /\ stamp' = [stamp EXCEPT ![new] = stamp[old], ![old] = None]
    /\ shown' = [shown EXCEPT ![new] = shown[old], ![old] = ""]
    /\ UNCHANGED <<claude, linked, asking, hub, reaped, ghostVars, ends, stops, restarts>>

\* A request is refused: the token is not a connection's any more.
Refused(p) ==
    /\ linked[p] /\ ~hub.conn[claude[p]].token
    /\ linked' = [linked EXCEPT ![p] = FALSE]
    /\ UNCHANGED <<claude, name, asking, hub, tmuxVars, reaped, ghostVars, boundVars>>

-----------------------------------------------------------------------------
(* The service.                                                            *)

\* A hello under way stamped session n.
Stamping(p, n) == asking[p] # NoHello /\ asking[p].session = n /\ ~asking[p].yields

\* Faulty: the transcript is stamped whoever has the session.
HelloStamps_always(p) ==
    LET n == name[p]
        y == Yields(hub, claude[p], p, n)
    IN  /\ claude[p] # None /\ ~linked[p] /\ asking[p] = NoHello
        /\ asking' = [asking EXCEPT ![p] = [sid |-> claude[p], session |-> n, yields |-> y]]
        /\ stamp' = [stamp EXCEPT ![n] = claude[p]]
        /\ crossed' = (crossed \/ (~y /\ \E q \in Pane \ {p} : Stamping(q, n)))
        /\ UNCHANGED <<claude, name, linked, hub, shown, reaped, sent, given, returned, cut,
                       cameBack, boundVars>>

\* hello, before the lock: the transcript is stamped unless the session is
\* another's (mod.go:464).  Two hellos cross when both stamp the same session.
HelloStamps(p) ==
    LET n == name[p]
        y == Yields(hub, claude[p], p, n)
    IN  /\ claude[p] # None /\ ~linked[p] /\ asking[p] = NoHello
        /\ asking' = [asking EXCEPT ![p] = [sid |-> claude[p], session |-> n, yields |-> y]]
        /\ stamp' = IF y THEN stamp ELSE [stamp EXCEPT ![n] = claude[p]]
        /\ crossed' = (crossed \/ (~y /\ \E q \in Pane \ {p} : Stamping(q, n)))
        /\ UNCHANGED <<claude, name, linked, hub, shown, reaped, sent, given, returned, cut,
                       cameBack, boundVars>>

\* hello, under the lock.  It was crossed if it finds now that it yields and did
\* not when it stamped, or the other way round.
HelloRegisters(p) ==
    LET s == asking[p].sid
        n == asking[p].session
    IN  /\ asking[p] # NoHello
        /\ IF hub.conn[s].on
           THEN hub' = Register(hub, s, p, n) /\ UNCHANGED cameBack
           ELSE /\ \E v \in Victims :
                     hub' = Register(Adopt(IF v = None THEN hub ELSE Drop(hub, v), s, p), s, p, n)
                /\ cameBack' = (cameBack \/ \E q \in Pane : hub.carry[q].sid = s)
        /\ crossed' = (crossed \/ asking[p].yields = hub'.conn[s].stamps)
        /\ asking' = [asking EXCEPT ![p] = NoHello]
        /\ linked' = [q \in Pane |-> IF claude[q] = s THEN q = p ELSE linked[q]]
        /\ UNCHANGED <<claude, name, tmuxVars, reaped, sent, given, returned, cut, boundVars>>

\* releaseHeld: with no turn running, what is held goes to Claude, and a turn is
\* awaited.
Release(h, s) ==
    IF h.conn[s].turn = "idle" /\ h.conn[s].held # <<>>
    THEN [h EXCEPT !.conn[s].held = <<>>, !.conn[s].turn = "on", !.files[s] = <<>>]
    ELSE h

\* Faulty: only what differs from the last write is written, after a hello too.
Level_onlyChanges(p, turn) ==
    LET s     == claude[p]
        c     == hub.conn[s]
        fold  == [hub EXCEPT !.conn[s].quiet = 0, !.conn[s].turn = turn, !.conn[s].written = turn]
        write == c.written # turn
    IN  /\ linked[p] /\ c.token /\ c.stamps
        /\ hub' = [Release(fold, s) EXCEPT !.conn[s].token = ~(write /\ Lost(c))]
        /\ IF turn = "idle" THEN Give(c.held) ELSE UNCHANGED given
        /\ shown' = IF write
                    THEN [shown EXCEPT ![Target(c)] = turn] ELSE shown
        /\ UNCHANGED <<worldVars, stamp, reaped, sent, returned, cut, cameBack, crossed, boundVars>>

\* apply on a level: the fold is known, what is held goes once no turn runs, and
\* the state is written when it moved.  A write that fails because the session was
\* renamed is made under the name the pane has and asks for a hello (followRename).
Level(p, turn) ==
    LET s     == claude[p]
        c     == hub.conn[s]
        fold  == [hub EXCEPT !.conn[s].quiet = 0, !.conn[s].turn = turn, !.conn[s].written = turn]
        write == c.turn = "unknown" \/ c.written # turn
    IN  /\ linked[p] /\ c.token /\ c.stamps
        /\ hub' = [Release(fold, s) EXCEPT !.conn[s].token = ~(write /\ Lost(c))]
        /\ IF turn = "idle" THEN Give(c.held) ELSE UNCHANGED given
        /\ shown' = IF write
                    THEN [shown EXCEPT ![Target(c)] = turn] ELSE shown
        /\ UNCHANGED <<worldVars, stamp, reaped, sent, returned, cut, cameBack, crossed, boundVars>>

\* Faulty: a connection that yielded once never asks again.
ClaimIfFree_never(p) ==
    LET s == claude[p] IN
    /\ linked[p] /\ hub.conn[s].token /\ ~hub.conn[s].stamps
    /\ hub' = [hub EXCEPT !.conn[s].quiet = 0]
    /\ UNCHANGED <<worldVars, tmuxVars, reaped, ghostVars, boundVars>>

\* claimIfFree, from apply: a connection without its session asks for a hello once
\* nobody alive has it.
ClaimIfFree(p) ==
    LET s == claude[p]
        c == hub.conn[s]
        o == hub.owner[c.session]
    IN  /\ linked[p] /\ c.token /\ ~c.stamps
        /\ hub' = [hub EXCEPT !.conn[s].quiet = 0,
                              !.conn[s].token = o # None /\ (o = s \/ hub.conn[o].quiet = 0)]
        /\ UNCHANGED <<worldVars, tmuxVars, reaped, ghostVars, boundVars>>

\* follow: somebody opens the session under the name its pane has now.
Follow(s) ==
    LET c == hub.conn[s] IN
    /\ c.on /\ c.token /\ name[c.pane] # c.session /\ hub.owner[name[c.pane]] = None
    /\ hub' = [hub EXCEPT !.conn[s].token = FALSE]
    /\ UNCHANGED <<worldVars, tmuxVars, reaped, ghostVars, boundVars>>

\* Time passes with no word from the mod.
Quiet(s) ==
    /\ hub.conn[s].on /\ ~Polling(s) /\ hub.conn[s].quiet < 2
    /\ hub' = [hub EXCEPT !.conn[s].quiet = @ + 1]
    /\ UNCHANGED <<worldVars, tmuxVars, reaped, ghostVars, boundVars>>

\* sweep: the connections silent past modExpiry are dropped.
Sweep ==
    LET stale == {s \in Registered : hub.conn[s].quiet = 2} IN
    /\ stale # {}
    /\ \E s \in stale :
        /\ hub' = Drop(hub, s)
        /\ reaped' = IF hub.conn[s].stamps THEN reaped \cup {hub.conn[s].session} ELSE reaped
    /\ UNCHANGED <<worldVars, tmuxVars, ghostVars, boundVars>>

\* sweep, after the lock: the state goes if no Claude runs in the session.
SweepWrites(n) ==
    /\ n \in reaped /\ reaped' = reaped \ {n}
    /\ shown' = IF \E p \in Pane : name[p] = n /\ claude[p] # None THEN shown
                ELSE [shown EXCEPT ![n] = ""]
    /\ UNCHANGED <<worldVars, hub, stamp, ghostVars, boundVars>>

\* hold: a prompt sent while a turn runs.
Hold(s, x) ==
    /\ x \notin sent /\ sent' = sent \cup {x}
    /\ hub.conn[s].stamps /\ hub.conn[s].turn = "on"
    /\ hub' = [hub EXCEPT !.conn[s].held = Append(@, x), !.files[s] = Append(hub.conn[s].held, x)]
    /\ UNCHANGED <<worldVars, tmuxVars, reaped, given, returned, cut, cameBack, crossed, boundVars>>

\* handleCancel: a Stop takes what is held.
TakeHeld(n) ==
    LET s == hub.owner[n] IN
    /\ stops < MaxStops /\ stops' = stops + 1
    /\ s # None /\ hub.stop.sid = None /\ hub.conn[s].held # <<>>
    /\ hub' = [hub EXCEPT !.conn[s].held = <<>>, !.files[s] = <<>>,
                          !.stop = [sid |-> s, texts |-> hub.conn[s].held, late |-> FALSE]]
    /\ UNCHANGED <<worldVars, tmuxVars, reaped, ghostVars, ends, renames, restarts>>

\* The abort is confirmed: the prompts are the person's again.
Stopped ==
    /\ hub.stop.sid # None /\ ~hub.stop.late
    /\ returned' = returned \cup ToSet(hub.stop.texts)
    /\ hub' = [hub EXCEPT !.stop = NoStop]
    /\ UNCHANGED <<worldVars, tmuxVars, reaped, sent, given, cut, cameBack, crossed, boundVars>>

\* putBack: the abort failed, as every command of a connection that ended does.
PutBack ==
    LET st == hub.stop
        h  == [hub EXCEPT !.stop = NoStop]
    IN  /\ st.sid # None
        /\ IF st.late
           THEN /\ hub' = [h EXCEPT !.files[st.sid] = st.texts]
                /\ cut' = cut \cup ToSet(st.texts \o h.files[st.sid]) /\ UNCHANGED given
           ELSE LET held == st.texts \o h.conn[st.sid].held
                    back == [h EXCEPT !.conn[st.sid].held = held, !.files[st.sid] = held]
                IN  /\ hub' = Release(back, st.sid)
                    /\ IF h.conn[st.sid].turn = "idle" THEN Give(held) ELSE UNCHANGED given
                    /\ UNCHANGED cut
        /\ UNCHANGED <<worldVars, tmuxVars, reaped, sent, returned, cameBack, crossed, boundVars>>

\* The service restarts: the files are all it has.
Restart ==
    /\ restarts < MaxRestarts /\ restarts' = restarts + 1
    /\ hub' = [hub EXCEPT !.conn = [s \in Sid |-> NoConn], !.owner = [n \in Session |-> None],
                          !.carry = [p \in Pane |-> NoCarry], !.stop = NoStop]
    /\ asking' = [p \in Pane |-> NoHello] /\ reaped' = {}
    /\ cut' = cut \cup ToSet(hub.stop.texts)
    /\ UNCHANGED <<claude, name, linked, tmuxVars, sent, given, returned, cameBack, crossed,
                   ends, renames, stops>>

-----------------------------------------------------------------------------
World ==
    \/ \E p \in Pane, s \in Sid : Start(p, s)
    \/ \E p \in Pane, s \in Sid \cup {None} : End(p, s)
    \/ \E m, n \in Session : Rename(m, n)

Mod(p) ==
    \/ Refused(p) \/ HelloStamps(p) \/ ClaimIfFree(p)
    \/ \E t \in {"idle", "on"} : Level(p, t)

Service ==
    \/ \E s \in Sid : Follow(s) \/ Quiet(s)
    \/ Sweep
    \/ \E s \in Sid, x \in Prompt : Hold(s, x)
    \/ \E n \in Session : TakeHeld(n)
    \/ Stopped \/ PutBack

\* No hello and no reap is between its halves.
Between == \A p \in Pane : asking[p] = NoHello

Next ==
    \/ \E p \in Pane : HelloRegisters(p)
    \/ \E n \in Session : SweepWrites(n)
    \/ /\ Races \/ (reaped = {} /\ Between)
       /\ World \/ (\E p \in Pane : Mod(p)) \/ Service \/ Restart

Spec == Init /\ [][Next]_vars

\* The mod's level says what the service knows, or is the first one after a hello.
Repeats(p) ==
    /\ linked[p]
    /\ \E t \in {"idle", "on"} : hub.conn[claude[p]].turn \in {"unknown", t} /\ Level(p, t)

\* A mod says hello, polls and sends a level every so often for as long as its
\* Claude runs, which makes no Claude begin or end a turn; time passes and the
\* reaper goes round.
Fairness ==
    /\ \A p \in Pane :
          /\ WF_vars(Refused(p) \/ HelloStamps(p) \/ ClaimIfFree(p) \/ Repeats(p))
          /\ WF_vars(HelloRegisters(p))
    /\ \A s \in Sid : WF_vars(Quiet(s))
    /\ WF_vars(Sweep) /\ \A n \in Session : WF_vars(SweepWrites(n))

FairSpec == Spec /\ Fairness

-----------------------------------------------------------------------------
(* Properties.                                                             *)

Left == [sid : Sid \cup {None}, texts : Seq(Prompt)]

WorldType ==
    /\ claude \in [Pane -> Sid \cup {None}] /\ name \in [Pane -> Session]
    /\ linked \in [Pane -> BOOLEAN]
    /\ asking \in [Pane -> [sid : Sid, session : Session, yields : BOOLEAN] \cup {NoHello}]
HubType ==
    hub \in [conn : [Sid -> Conn], owner : [Session -> Sid \cup {None}], carry : [Pane -> Left],
             files : [Sid -> Seq(Prompt)],
             stop : [sid : Sid \cup {None}, texts : Seq(Prompt), late : BOOLEAN]]
TmuxType ==
    /\ stamp \in [Session -> Sid \cup {None}] /\ shown \in [Session -> {"", "idle", "on"}]
    /\ reaped \subseteq Session
GhostType ==
    /\ sent \subseteq Prompt /\ given \in [Prompt -> 0..2]
    /\ returned \subseteq Prompt /\ cut \subseteq Prompt /\ {cameBack, crossed} \subseteq BOOLEAN

\* The variables keep their types.
TypeOK ==
    /\ WorldType /\ HubType /\ TmuxType /\ GhostType
    /\ {ends, renames, stops, restarts} \subseteq Nat

\* The hub's two maps agree: the connection a session's streams and routes find is
\* the one that says it has the session, whatever renames, takeovers, byes and
\* drops came in between (byToken, bySID and bySession in mod.go).
OneHolder ==
    /\ \A s \in Registered : hub.conn[s].stamps <=> hub.owner[hub.conn[s].session] = s
    /\ \A n \in Session : hub.owner[n] # None =>
          hub.conn[hub.owner[n]].on /\ hub.conn[hub.owner[n]].session = n

\* In how many places prompt x is, or was given to Claude from.
Places(x) ==
    Cardinality({s \in Sid : x \in ToSet(hub.conn[s].held)})
    + Cardinality({p \in Pane : x \in ToSet(hub.carry[p].texts)})
    + given[x]

\* A held prompt is in one place, and Claude is given it once, however the
\* conversations end and begin, unless one comes back whose prompts are still
\* carried (carryLocked, adoptLocked).
GivenOnce == ~cameBack => \A x \in Prompt : Places(x) <= 1

\* Claude is given a held prompt once: a conversation takes over "what the last
\* conversation in its pane left" (held.go).  It does not hold.
SentOnce == \A x \in Prompt : given[x] <= 1

\* What has not been given or handed back outlives a restart, whoever holds it by
\* then (heldFiles), but for what a Stop had in hand when its connection ended, and
\* what that Stop's putting back overwrote in the file.  A conversation that comes
\* back while carried is excepted here too: who adopts the carry clears its file.
NotLost ==
    ~cameBack => \A x \in sent \ (returned \cup cut) :
        given[x] > 0 \/ x \in ToSet(hub.stop.texts) \/ \E s \in Sid : x \in ToSet(hub.files[s])

\* The Claude in p talks for its session n.
Serves(p, n) ==
    name[p] = n /\ claude[p] # None /\ hub.owner[n] = claude[p] /\ Polling(claude[p])

\* The transcript stamped on a session is that of the Claude talking for it, once
\* no hello that stamped it is under way, whatever hellos, takeovers, ends, drops
\* and restarts come between the halves of one (mod.go:464 and 472).  But not where
\* two hellos crossed, or a hello found the session another's in one half only; nor
\* in a session renamed twice, to a free name where another Claude of it stamps and
\* back to the owner's.
StampFollows ==
    ~crossed /\ renames <= 1 => \A p \in Pane, n \in Session :
        Serves(p, n) => stamp[n] = claude[p] \/ \E q \in Pane : Stamping(q, n)

\* The state tmux shows of a session is the one its Claude last said, though the
\* reaper and Claudes before it wrote there too (fullOnState, sweep).  A session
\* renamed with two Claudes in it is excepted: both write to it until the hello.
StateFollows ==
    renames = 0 => \A p \in Pane, n \in Session :
        Serves(p, n) /\ hub.conn[claude[p]].turn # "unknown" =>
            shown[n] = hub.conn[claude[p]].written

\* The hub is a lease of the tmux sessions: none is taken from a Claude that is
\* talking (yieldsLocked), unless the cap puts it out (capLocked).
Lease == INSTANCE SessionLease WITH
    Session <- Session, Conversation <- Sid, Nobody <- None,
    holder <- hub.owner, there <- {s \in Sid : Polling(s)},
    crowded <- Crowded
Leased == Lease!Spec

\* The only Claude of its tmux session comes to have it, whoever had it before:
\* it is told to say hello again once the other is gone (claimIfFree, sweep).  One
\* that has it under a name it lost since keeps that until its state changes or
\* somebody opens the new one (follow).
Alone(p) == claude[p] # None /\ \A q \in Pane \ {p} : name[q] = name[p] => claude[q] = None
Unnoticed(p) == \E n \in Session : hub.owner[n] = claude[p] /\ \A q \in Pane : name[q] # n
Arrived(p) == hub.owner[name[p]] = claude[p] \/ Unnoticed(p)
OwnerArrives == \A p \in Pane : Alone(p) ~> (~Alone(p) \/ Arrived(p))
=============================================================================
