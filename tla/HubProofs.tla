-------------------------------- MODULE HubProofs --------------------------------
(***************************************************************************)
(* The hub's two maps agree, and the hub is a lease of the tmux sessions;  *)
(* what becomes of held prompts when connections come and go; and that the *)
(* options of a tmux session, its transcript and its state, are those of   *)
(* the Claude talking for it: theorems about ModHub, for every set of      *)
(* conversations, panes, sessions and prompts, any cap and any bounds.     *)
(***************************************************************************)
EXTENDS ModHub, FiniteSetTheorems, TLAPS

-----------------------------------------------------------------------------
(* Who has a tmux session.                                                 *)

HubSet ==
    [conn : [Sid -> Conn], owner : [Session -> Sid \cup {None}], carry : [Pane -> Left],
     files : [Sid -> Seq(Prompt)],
     stop : [sid : Sid \cup {None}, texts : Seq(Prompt), late : BOOLEAN]]

\* OneHolder of any value of the hub.
One(h) ==
    /\ \A x \in Sid : h.conn[x].on =>
          /\ h.conn[x].session \in Session
          /\ (h.conn[x].stamps <=> h.owner[h.conn[x].session] = x)
    /\ \A n \in Session : h.owner[n] # None =>
          h.conn[h.owner[n]].on /\ h.conn[h.owner[n]].session = n

\* What a connection says of who has what.
Alike(c, d) ==
    d.on = c.on /\ d.stamps = c.stamps /\ d.session = c.session /\ d.pane = c.pane

\* A linked pane is that of its conversation's connection, whose mod was just heard.
Talks ==
    \A q \in Pane : linked[q] =>
        /\ claude[q] \in Sid
        /\ hub.conn[claude[q]].token =>
              hub.conn[claude[q]].pane = q /\ hub.conn[claude[q]].quiet = 0

\* A Claude whose hello is being served is not linked.
Asks == \A q \in Pane : asking[q] # NoHello => ~linked[q]

IInv == hub \in HubSet /\ WorldType /\ One(hub) /\ Talks /\ Asks

-----------------------------------------------------------------------------
(* The hub's helpers.                                                      *)

LEMMA NoConnType == NoConn \in Conn /\ ~NoConn.on /\ ~NoConn.token
  <1>1. <<>> \in Seq(Prompt)
    OBVIOUS
  <1> QED BY <1>1 DEF NoConn, Conn

LEMMA DropHub ==
  ASSUME NEW h \in HubSet, NEW s \in Sid
  PROVE  LET c == h.conn[s]
             d == Drop(h, s)
         IN  /\ d \in HubSet
             /\ d.conn = [h.conn EXCEPT ![s] = NoConn]
             /\ d.owner = [h.owner EXCEPT ![c.session] = IF @ = s THEN None ELSE @]
  <1> DEFINE c == h.conn[s]
             d == Drop(h, s)
             late == [h.stop EXCEPT !.late = @ \/ h.stop.sid = s]
  <1>1. c \in Conn /\ NoConn \in Conn
    BY NoConnType DEF HubSet
  <1>2. [sid |-> s, texts |-> c.held] \in Left
    BY <1>1 DEF Conn, Left
  <1>3. /\ d.conn = [h.conn EXCEPT ![s] = NoConn]
        /\ d.owner = [h.owner EXCEPT ![c.session] = IF @ = s THEN None ELSE @]
    BY DEF Drop, HubSet
  <1>4. [h.conn EXCEPT ![s] = NoConn] \in [Sid -> Conn]
    BY <1>1 DEF HubSet
  <1>5. [h.owner EXCEPT ![c.session] = IF @ = s THEN None ELSE @] \in [Session -> Sid \cup {None}]
    BY DEF HubSet
  <1>6. [h.carry EXCEPT ![c.pane] = IF c.held = <<>> THEN @ ELSE [sid |-> s, texts |-> c.held]]
           \in [Pane -> Left]
    BY <1>2 DEF HubSet
  <1>7. late \in [sid : Sid \cup {None}, texts : Seq(Prompt), late : BOOLEAN]
    BY DEF HubSet
  <1>8. d \in HubSet
    BY <1>4, <1>5, <1>6, <1>7 DEF HubSet, Drop
  <1> QED BY <1>3, <1>8

LEMMA DropOne ==
  ASSUME NEW h \in HubSet, NEW s \in Sid, One(h)
  PROVE  One(Drop(h, s))
  <1> DEFINE d == Drop(h, s)
  <1>1. /\ d.conn = [h.conn EXCEPT ![s] = NoConn]
        /\ d.owner = [h.owner EXCEPT ![h.conn[s].session] = IF @ = s THEN None ELSE @]
    BY DropHub
  <1>2. h.conn \in [Sid -> Conn] /\ h.owner \in [Session -> Sid \cup {None}]
    BY DEF HubSet
  <1>3. \A x \in Sid \ {s} : d.conn[x] = h.conn[x]
    BY <1>1, <1>2
  <1>4. ~d.conn[s].on
    BY <1>1, <1>2, NoConnType
  <1>5. \A n \in Session : d.owner[n] # s
    BY <1>1, <1>2, NoneAssumption DEF One
  <1>6. \A n \in Session : d.owner[n] = h.owner[n] \/ (h.owner[n] = s /\ d.owner[n] = None)
    BY <1>1, <1>2
  <1>7. \A x \in Sid : d.conn[x].on => (d.conn[x].stamps <=> d.owner[d.conn[x].session] = x)
                                    /\ d.conn[x].session \in Session
    BY <1>1, <1>2, <1>3, <1>4, NoneAssumption DEF One
  <1>8. \A n \in Session : d.owner[n] # None =>
          d.conn[d.owner[n]].on /\ d.conn[d.owner[n]].session = n
    BY <1>2, <1>3, <1>5, <1>6 DEF One
  <1> QED BY <1>7, <1>8 DEF One

LEMMA AdoptHub ==
  ASSUME NEW h \in HubSet, NEW s \in Sid, NEW p \in Pane
  PROVE  LET a == Adopt(h, s, p)
         IN  /\ a \in HubSet /\ a.owner = h.owner
             /\ a.conn[s].on = h.conn[s].on
             /\ \A x \in Sid \ {s} : a.conn[x] = h.conn[x]
  <1> DEFINE left == h.carry[p]
             kept == h.files[s]
             texts == kept \o left.texts
             a == Adopt(h, s, p)
  <1>1. left \in Left /\ kept \in Seq(Prompt) /\ texts \in Seq(Prompt) /\ h.conn[s] \in Conn
    BY DEF HubSet, Left
  <1>2. <<>> \in Seq(Prompt) /\ NoCarry \in Left
    BY DEF NoCarry, Left
  <1>3. CASE left.sid \notin {None, s}
    <2>1. a = [h EXCEPT !.conn[s].held = texts, !.carry[p] = NoCarry,
                        !.files = [@ EXCEPT ![left.sid] = <<>>, ![s] = texts]]
      BY <1>3 DEF Adopt
    <2>2. [h.conn EXCEPT ![s].held = texts] \in [Sid -> Conn]
      BY <1>1 DEF HubSet, Conn
    <2>3. [h.carry EXCEPT ![p] = NoCarry] \in [Pane -> Left]
      BY <1>2 DEF HubSet
    <2>4. [h.files EXCEPT ![left.sid] = <<>>, ![s] = texts] \in [Sid -> Seq(Prompt)]
      BY <1>1, <1>2 DEF HubSet
    <2>5. a \in HubSet
      BY <2>1, <2>2, <2>3, <2>4 DEF HubSet
    <2>6. a.owner = h.owner /\ a.conn = [h.conn EXCEPT ![s].held = texts]
      BY <2>1 DEF HubSet
    <2>7. /\ a.conn[s] = [h.conn[s] EXCEPT !.held = texts]
          /\ \A x \in Sid \ {s} : a.conn[x] = h.conn[x]
      BY <2>6 DEF HubSet
    <2>8. a.conn[s].on = h.conn[s].on
      BY <1>1, <2>7, Zenon DEF Conn
    <2> QED BY <2>5, <2>6, <2>7, <2>8
  <1>4. CASE left.sid \in {None, s}
    <2>1. a = [h EXCEPT !.conn[s].held = kept]
      BY <1>4 DEF Adopt
    <2>2. [h.conn EXCEPT ![s].held = kept] \in [Sid -> Conn]
      BY <1>1 DEF HubSet, Conn
    <2>3. a \in HubSet
      BY <2>1, <2>2 DEF HubSet
    <2>4. a.owner = h.owner /\ a.conn = [h.conn EXCEPT ![s].held = kept]
      BY <2>1 DEF HubSet
    <2>7. /\ a.conn[s] = [h.conn[s] EXCEPT !.held = kept]
          /\ \A x \in Sid \ {s} : a.conn[x] = h.conn[x]
      BY <2>4 DEF HubSet
    <2>8. a.conn[s].on = h.conn[s].on
      BY <1>1, <2>7, Zenon DEF Conn
    <2> QED BY <2>3, <2>4, <2>7, <2>8
  <1> QED BY <1>3, <1>4

\* What a registration leaves: s has a connection, with the session unless it yields.
LEMMA RegisterHub ==
  ASSUME NEW h \in HubSet, NEW s \in Sid, NEW p \in Pane, NEW n \in Session, One(h)
  PROVE  LET r == Register(h, s, p, n)
         IN  /\ r \in HubSet /\ One(r)
             /\ r.conn[s].pane = p /\ r.conn[s].quiet = 0
             /\ r.conn[s].on /\ r.conn[s].session = n /\ r.conn[s].turn = "unknown"
             /\ \A x \in Sid \ {s} : r.conn[x] \in {h.conn[x], NoConn}
             /\ \A m \in Session : r.owner[m] \in {h.owner[m], None} \/ (m = n /\ r.owner[m] = s)
             /\ Yields(h, s, p, n) => r.owner[n] = h.owner[n]
  <1> DEFINE moved == [h EXCEPT !.owner =
                          [m \in Session |-> IF @[m] = s /\ m # n THEN None ELSE @[m]]]
             before == moved.owner[n]
             stamps == ~Yields(moved, s, p, n)
             alone == IF stamps /\ before \notin {None, s} THEN Drop(moved, before) ELSE moved
             new == [alone.conn[s] EXCEPT !.on = TRUE, !.pane = p, !.session = n,
                                          !.stamps = stamps, !.token = TRUE, !.quiet = 0, !.turn = "unknown"]
             r == Register(h, s, p, n)
  <1>1. [m \in Session |-> IF h.owner[m] = s /\ m # n THEN None ELSE h.owner[m]]
           \in [Session -> Sid \cup {None}]
    BY DEF HubSet
  <1>2. /\ moved \in HubSet /\ moved.conn = h.conn
        /\ moved.owner = [m \in Session |-> IF h.owner[m] = s /\ m # n THEN None ELSE h.owner[m]]
    BY <1>1 DEF HubSet
  <1>3. before = h.owner[n] /\ before \in Sid \cup {None}
    BY <1>2 DEF HubSet
  <1>4. Yields(moved, s, p, n) <=> Yields(h, s, p, n)
    BY <1>2, <1>3 DEF Yields
  <1>5. /\ alone \in HubSet
        /\ \A x \in Sid : alone.conn[x] = IF stamps /\ before \notin {None, s} /\ x = before
                                          THEN NoConn ELSE h.conn[x]
        /\ \A m \in Session : alone.owner[m] =
              IF stamps /\ before \notin {None, s} /\ m = n THEN None
              ELSE IF h.owner[m] = s /\ m # n THEN None ELSE h.owner[m]
    <2>1. CASE stamps /\ before \notin {None, s}
      <3>1. before \in Sid /\ h.conn[before].session = n
        BY <1>3, <2>1 DEF One
      <3>2. /\ alone \in HubSet
            /\ alone.conn = [h.conn EXCEPT ![before] = NoConn]
            /\ alone.owner = [moved.owner EXCEPT ![n] = IF @ = before THEN None ELSE @]
        <4>1. alone = Drop(moved, before) /\ moved.conn[before].session = n
          BY <1>2, <2>1, <3>1
        <4>. HIDE DEF moved, before, alone
        <4>2. /\ Drop(moved, before) \in HubSet
              /\ Drop(moved, before).conn = [moved.conn EXCEPT ![before] = NoConn]
              /\ Drop(moved, before).owner =
                    [moved.owner EXCEPT ![moved.conn[before].session] =
                                           IF @ = before THEN None ELSE @]
          BY <1>2, <3>1, DropHub
        <4> QED BY <1>2, <4>1, <4>2
      <3> QED BY <1>2, <1>3, <2>1, <3>1, <3>2 DEF HubSet
    <2>2. CASE ~(stamps /\ before \notin {None, s})
      BY <1>2, <2>2 DEF HubSet
    <2> QED BY <2>1, <2>2
  <1>6. alone.conn[s] \in Conn /\ stamps \in BOOLEAN
    BY <1>5 DEF HubSet
  <1>8. r = [alone EXCEPT !.conn[s] = new, !.owner[n] = IF stamps THEN s ELSE @]
    BY DEF Register
  <1>. HIDE DEF r, stamps
  <1>7. /\ new \in Conn /\ new.on /\ new.pane = p /\ new.session = n /\ new.stamps = stamps
        /\ new.quiet = 0 /\ new.turn = "unknown"
    <2>0. alone.conn[s] \in Conn /\ 0 \in 0..2 /\ "unknown" \in {"unknown", "idle", "on"}
          /\ p \in Pane \cup {None} /\ n \in Session \cup {None}
      BY <1>6
    <2>1. new.pane = p /\ new.session = n /\ new.quiet = 0 /\ new.turn = "unknown"
      BY <2>0 DEF Conn
    <2>3. new \in Conn
      BY <1>6, <2>0 DEF Conn
    <2>2. new.on /\ new.stamps = stamps
      BY <1>6, Zenon DEF Conn
    <2> QED BY <2>1, <2>2, <2>3
  <1>. HIDE DEF new, alone, moved
  <1>9. /\ r.conn = [alone.conn EXCEPT ![s] = new]
        /\ r.owner = [alone.owner EXCEPT ![n] = IF stamps THEN s ELSE @]
    BY <1>5, <1>8 DEF HubSet
  <1>10. r \in HubSet
    <2>1. [alone.conn EXCEPT ![s] = new] \in [Sid -> Conn]
      BY <1>5, <1>7 DEF HubSet
    <2>2. [alone.owner EXCEPT ![n] = IF stamps THEN s ELSE @] \in [Session -> Sid \cup {None}]
      BY <1>5 DEF HubSet
    <2> QED BY <1>5, <1>8, <2>1, <2>2 DEF HubSet
  <1>11. r.conn[s] = new /\ \A x \in Sid \ {s} : r.conn[x] = alone.conn[x]
    BY <1>5, <1>9 DEF HubSet
  <1>12. \A m \in Session : r.owner[m] =
            IF m = n THEN (IF stamps THEN s ELSE h.owner[n])
            ELSE IF h.owner[m] = s THEN None ELSE h.owner[m]
    BY <1>5, <1>9 DEF HubSet
  <1>13. ~stamps => h.owner[n] \notin {None, s}
    BY <1>2, <1>3 DEF Yields, stamps
  <1>14. \A x \in Sid : r.conn[x].on =>
            r.conn[x].session \in Session /\ (r.conn[x].stamps <=> r.owner[r.conn[x].session] = x)
    <2>1. ASSUME NEW x \in Sid \ {s}, r.conn[x].on
          PROVE  /\ r.conn[x].session \in Session
                 /\ (r.conn[x].stamps <=> r.owner[r.conn[x].session] = x)
      <3>1. r.conn[x] = h.conn[x] /\ ~(stamps /\ before \notin {None, s} /\ x = before)
        BY <1>5, <1>11, <2>1, NoConnType
      <3>2. h.conn[x].session \in Session /\ (h.conn[x].stamps <=> h.owner[h.conn[x].session] = x)
        BY <2>1, <3>1, NoneAssumption DEF One
      <3> QED BY <1>3, <1>12, <3>1, <3>2, NoneAssumption
    <2>2. r.conn[s].session = n /\ (r.conn[s].stamps <=> r.owner[n] = s)
      BY <1>7, <1>11, <1>12, <1>13
    <2> QED BY <2>1, <2>2
  <1>15. \A m \in Session : r.owner[m] # None =>
            r.conn[r.owner[m]].on /\ r.conn[r.owner[m]].session = m
    <2>1. ASSUME NEW m \in Session, r.owner[m] \notin {None, s}
          PROVE  r.conn[r.owner[m]].on /\ r.conn[r.owner[m]].session = m
      <3>1. r.owner[m] = h.owner[m] /\ h.owner[m] \in Sid \ {s}
        BY <1>12, <2>1 DEF HubSet
      <3>2. h.conn[h.owner[m]].on /\ h.conn[h.owner[m]].session = m
        BY <2>1, <3>1 DEF One
      <3>3. ~(stamps /\ before \notin {None, s} /\ h.owner[m] = before)
        <4>1. CASE m = n
          BY <1>3, <1>12, <2>1, <4>1
        <4>2. CASE m # n
          <5>1. before \notin {None, s} => h.conn[before].session = n
            BY <1>3 DEF One
          <5> QED BY <3>2, <4>2, <5>1
        <4> QED BY <4>1, <4>2
      <3> QED BY <1>5, <1>11, <3>1, <3>2, <3>3
    <2>2. \A m \in Session : r.owner[m] = s => m = n
      BY <1>12, NoneAssumption
    <2>3. r.conn[s].on /\ r.conn[s].session = n
      BY <1>7, <1>11
    <2> QED BY <2>1, <2>2, <2>3
  <1>16. One(r)
    BY <1>14, <1>15 DEF One
  <1>17. \A x \in Sid \ {s} : r.conn[x] \in {h.conn[x], NoConn}
    BY <1>5, <1>11
  <1>18. /\ r.conn[s].pane = p /\ r.conn[s].quiet = 0
         /\ r.conn[s].on /\ r.conn[s].session = n /\ r.conn[s].turn = "unknown"
    BY <1>7, <1>11
  <1>19. \A m \in Session : r.owner[m] \in {h.owner[m], None} \/ (m = n /\ r.owner[m] = s)
    BY <1>12
  <1>20. Yields(h, s, p, n) => r.owner[n] = h.owner[n]
    BY <1>4, <1>12 DEF stamps
  <1> QED BY <1>10, <1>16, <1>17, <1>18, <1>19, <1>20 DEF r

LEMMA AdoptOne ==
  ASSUME NEW h \in HubSet, NEW s \in Sid, NEW p \in Pane, One(h), ~h.conn[s].on
  PROVE  One(Adopt(h, s, p))
  <1> DEFINE a == Adopt(h, s, p)
  <1>1. /\ a.owner = h.owner /\ ~a.conn[s].on
        /\ \A x \in Sid \ {s} : a.conn[x] = h.conn[x]
    BY AdoptHub
  <1>2. \A n \in Session : h.owner[n] # None => h.owner[n] \in Sid \ {s}
    BY DEF HubSet, One
  <1>. HIDE DEF a
  <1>3. One(a)
    BY <1>1, <1>2, NoneAssumption DEF One
  <1> QED BY <1>3 DEF a

-----------------------------------------------------------------------------
(* Single fields of a connection.                                          *)

LEMMA HeardNow == 0 \in 0..2
  OBVIOUS

LEMMA HeldSet ==
  ASSUME NEW c \in Conn, NEW t \in Seq(Prompt),
         NEW d, d = [c EXCEPT !.held = t]
  PROVE  d \in Conn /\ Alike(c, d) /\ d.token = c.token /\ d.quiet = c.quiet
  <1>1. d \in Conn
    BY DEF Conn
  <1>2. d.on = c.on /\ d.stamps = c.stamps /\ d.token = c.token
    BY Zenon DEF Conn
  <1>3. d.session = c.session /\ d.pane = c.pane /\ d.quiet = c.quiet
    BY DEF Conn
  <1> QED BY <1>1, <1>2, <1>3 DEF Alike

LEMMA GivenSet ==
  ASSUME NEW c \in Conn,
         NEW d, d = [c EXCEPT !.held = <<>>, !.turn = "on"]
  PROVE  d \in Conn /\ Alike(c, d) /\ d.token = c.token /\ d.quiet = c.quiet
  <1>. <<>> \in Seq(Prompt) /\ "on" \in {"unknown", "idle", "on"}
    OBVIOUS
  <1>1. d \in Conn
    BY DEF Conn
  <1>2. d.on = c.on /\ d.stamps = c.stamps /\ d.token = c.token
    BY Zenon DEF Conn
  <1>3. d.session = c.session /\ d.pane = c.pane /\ d.quiet = c.quiet
    BY DEF Conn
  <1> QED BY <1>1, <1>2, <1>3 DEF Alike

LEMMA LevelSet ==
  ASSUME NEW c \in Conn, NEW t \in {"idle", "on"},
         NEW d, d = [c EXCEPT !.quiet = 0, !.turn = t, !.written = t]
  PROVE  d \in Conn /\ Alike(c, d) /\ d.token = c.token /\ d.quiet = 0
  <1>0. t \in {"unknown", "idle", "on"} /\ t \in {"", "idle", "on"}
    BY Zenon
  <1>1. d \in Conn
    BY <1>0, HeardNow DEF Conn
  <1>2. d.on = c.on /\ d.stamps = c.stamps /\ d.token = c.token
    BY Zenon DEF Conn
  <1>3. d.session = c.session /\ d.pane = c.pane /\ d.quiet = 0
    BY DEF Conn
  <1>4. Alike(c, d)
    BY <1>2, <1>3 DEF Alike
  <1> QED BY <1>1, <1>2, <1>3, <1>4

LEMMA TokenSet ==
  ASSUME NEW c \in Conn, NEW b \in BOOLEAN,
         NEW d, d = [c EXCEPT !.token = b]
  PROVE  d \in Conn /\ Alike(c, d) /\ d.token = b /\ d.quiet = c.quiet
  <1>1. d \in Conn
    BY DEF Conn
  <1>2. d.on = c.on /\ d.stamps = c.stamps /\ d.token = b
    BY Zenon DEF Conn
  <1>3. d.session = c.session /\ d.pane = c.pane /\ d.quiet = c.quiet
    BY DEF Conn
  <1> QED BY <1>1, <1>2, <1>3 DEF Alike

LEMMA QuietSet ==
  ASSUME NEW c \in Conn, NEW k \in 0..2,
         NEW d, d = [c EXCEPT !.quiet = k]
  PROVE  d \in Conn /\ Alike(c, d) /\ d.token = c.token /\ d.quiet = k
  <1>1. d \in Conn
    BY DEF Conn
  <1>2. d.on = c.on /\ d.stamps = c.stamps /\ d.token = c.token
    BY Zenon DEF Conn
  <1>3. d.session = c.session /\ d.pane = c.pane /\ d.quiet = k
    BY DEF Conn
  <1> QED BY <1>1, <1>2, <1>3 DEF Alike

LEMMA HeardSet ==
  ASSUME NEW c \in Conn, NEW b \in BOOLEAN,
         NEW d, d = [c EXCEPT !.quiet = 0, !.token = b]
  PROVE  d \in Conn /\ Alike(c, d) /\ d.token = b /\ d.quiet = 0
  <1>. 0 \in 0..2
    OBVIOUS
  <1>1. d \in Conn
    BY DEF Conn
  <1>2. d.on = c.on /\ d.stamps = c.stamps /\ d.token = b
    BY Zenon DEF Conn
  <1>3. d.session = c.session /\ d.pane = c.pane /\ d.quiet = 0
    BY DEF Conn
  <1> QED BY <1>1, <1>2, <1>3 DEF Alike

-----------------------------------------------------------------------------
(* What the steps do.                                                      *)

\* No session is given to anybody.
Frees == \A n \in Session : hub'.owner[n] \in {hub.owner[n], None}

\* One session at most is given, and not one whose Claude is talking.
Given(n) == hub'.owner[n] \notin {hub.owner[n], None}
Gives ==
    /\ \A m, n \in Session : Given(m) /\ Given(n) => m = n
    /\ \A n \in Session : Given(n) => Crowded \/ hub.owner[n] \notin Sid \/ ~Polling(hub.owner[n])

LEMMA FreesGives == Frees => Gives
  BY DEF Frees, Gives, Given

\* A step that touches what one connection says of itself.
LEMMA Touch ==
  ASSUME IInv, NEW s \in Sid, hub' \in HubSet, UNCHANGED worldVars,
         hub'.owner = hub.owner, Alike(hub.conn[s], hub'.conn[s]),
         \A x \in Sid \ {s} : hub'.conn[x] = hub.conn[x],
         hub'.conn[s].token => hub.conn[s].token,
         Polling(s) => hub'.conn[s].quiet \in {0, hub.conn[s].quiet}
  PROVE  IInv' /\ Gives
  <1>1. /\ WorldType' /\ Asks'
    BY DEF IInv, worldVars, WorldType, Asks
  <1>2. One(hub')
    <2>1. \A n \in Session : hub.owner[n] \in Sid \cup {None}
      BY DEF IInv, HubSet
    <2>2. \A x \in Sid : Alike(hub.conn[x], hub'.conn[x])
      BY DEF Alike
    <2> QED BY <2>1, <2>2 DEF IInv, One, Alike
  <1>3. Talks'
    <2>. SUFFICES ASSUME NEW q \in Pane, linked[q]
         PROVE  /\ claude[q] \in Sid
                /\ hub'.conn[claude[q]].token =>
                      hub'.conn[claude[q]].pane = q /\ hub'.conn[claude[q]].quiet = 0
      BY DEF Talks, worldVars
    <2>1. /\ claude[q] \in Sid
          /\ hub.conn[claude[q]].token =>
                hub.conn[claude[q]].pane = q /\ hub.conn[claude[q]].quiet = 0
      BY DEF IInv, Talks
    <2>2. CASE claude[q] # s
      BY <2>1, <2>2
    <2>3. CASE claude[q] = s /\ hub'.conn[s].token
      BY <2>1, <2>3 DEF Alike, Polling
    <2> QED BY <2>1, <2>2, <2>3
  <1>4. Frees
    BY DEF Frees
  <1> QED BY <1>1, <1>2, <1>3, <1>4, FreesGives DEF IInv

\* A step that drops a connection, and may unlink a pane.
LEMMA Dropped ==
  ASSUME IInv, NEW s \in Sid, hub' = Drop(hub, s), WorldType', UNCHANGED asking,
         \A q \in Pane : linked'[q] => linked[q] /\ claude'[q] = claude[q]
  PROVE  IInv' /\ Gives
  <1>1. /\ hub' \in HubSet /\ One(hub')
        /\ hub'.conn = [hub.conn EXCEPT ![s] = NoConn]
        /\ hub'.owner = [hub.owner EXCEPT ![hub.conn[s].session] = IF @ = s THEN None ELSE @]
    BY DropHub, DropOne DEF IInv
  <1>2. Asks'
    BY DEF IInv, Asks
  <1>3. \A x \in Sid : hub'.conn[x] = hub.conn[x] \/ ~hub'.conn[x].token
    BY <1>1, NoConnType DEF IInv, HubSet
  <1>4. Talks'
    BY <1>3 DEF IInv, Talks
  <1>5. Frees
    BY <1>1 DEF Frees, IInv, HubSet
  <1> QED BY <1>1, <1>2, <1>4, <1>5, FreesGives DEF IInv

\* A step of the world, or of the tmux options.
LEMMA Elsewhere ==
  ASSUME IInv, hub' = hub, WorldType', UNCHANGED asking,
         \A q \in Pane : linked'[q] => linked[q] /\ claude'[q] = claude[q]
  PROVE  IInv' /\ Gives
  <1>1. Talks' /\ Asks'
    BY DEF IInv, Talks, Asks
  <1>2. Frees
    BY DEF Frees
  <1> QED BY <1>1, <1>2, FreesGives DEF IInv
-----------------------------------------------------------------------------
(* The actions.                                                            *)

LEMMA TypeFacts ==
  ASSUME IInv
  PROVE  /\ hub \in HubSet /\ hub.conn \in [Sid -> Conn]
         /\ hub.owner \in [Session -> Sid \cup {None}]
         /\ \A p \in Pane : claude[p] \in Sid \cup {None} /\ name[p] \in Session
         /\ \A p \in Pane : linked[p] => claude[p] \in Sid
         /\ \A p \in Pane : asking[p] # NoHello =>
                asking[p].sid \in Sid /\ asking[p].session \in Session
  BY DEF IInv, HubSet, WorldType, Talks

\* Only the connection s and what is not a connection or an owner changes.
LEMMA OneConn ==
  ASSUME NEW h \in HubSet, NEW s \in Sid, NEW d \in Conn, NEW g \in HubSet,
         g.conn = [h.conn EXCEPT ![s] = d], g.owner = h.owner
  PROVE  g.conn[s] = d /\ (\A x \in Sid \ {s} : g.conn[x] = h.conn[x])
  BY DEF HubSet

LEMMA ReleaseHub ==
  ASSUME NEW h \in HubSet, NEW s \in Sid
  PROVE  LET r == Release(h, s)
         IN  /\ r \in HubSet /\ r.owner = h.owner
             /\ Alike(h.conn[s], r.conn[s]) /\ r.conn[s].token = h.conn[s].token
             /\ r.conn[s].quiet = h.conn[s].quiet
             /\ \A x \in Sid \ {s} : r.conn[x] = h.conn[x]
  <1> DEFINE r == Release(h, s)
             c == h.conn[s]
             d == [c EXCEPT !.held = <<>>, !.turn = "on"]
  <1>1. c \in Conn /\ <<>> \in Seq(Prompt)
    BY DEF HubSet
  <1>2. d \in Conn /\ Alike(c, d) /\ d.token = c.token /\ d.quiet = c.quiet
    BY <1>1, GivenSet
  <1>3. CASE r = h
    BY <1>3 DEF Alike
  <1>4. CASE r = [h EXCEPT !.conn[s].held = <<>>, !.conn[s].turn = "on", !.files[s] = <<>>]
    <2>1. r.conn = [[h.conn EXCEPT ![s].held = <<>>] EXCEPT ![s].turn = "on"] /\ r.owner = h.owner
      BY <1>4 DEF HubSet
    <2>2. r.conn = [h.conn EXCEPT ![s] = d]
      BY <1>1, <2>1 DEF HubSet
    <2>3. /\ [h.conn EXCEPT ![s] = d] \in [Sid -> Conn]
          /\ [h.files EXCEPT ![s] = <<>>] \in [Sid -> Seq(Prompt)]
      BY <1>1, <1>2 DEF HubSet
    <2>4. r \in HubSet
      BY <1>4, <2>1, <2>2, <2>3 DEF HubSet
    <2>5. r.conn[s] = d /\ \A x \in Sid \ {s} : r.conn[x] = h.conn[x]
      BY <1>2, <2>1, <2>2, <2>4, OneConn
    <2> QED BY <1>2, <2>1, <2>4, <2>5
  <1> QED BY <1>3, <1>4 DEF Release
LEMMA LevelKept ==
  ASSUME IInv, NEW p \in Pane, NEW turn \in {"idle", "on"}, Level(p, turn)
  PROVE  IInv' /\ Gives
  <1> DEFINE s == claude[p]
             c == hub.conn[s]
             fold == [hub EXCEPT !.conn[s].quiet = 0, !.conn[s].turn = turn,
                                 !.conn[s].written = turn]
             write == c.turn = "unknown" \/ c.written # turn
             d == [c EXCEPT !.quiet = 0, !.turn = turn, !.written = turn]
             rel == Release(fold, s)
             gone == ~(write /\ Lost(c))
             e == [rel.conn[s] EXCEPT !.token = gone]
  <1>1. /\ linked[p] /\ c.token /\ UNCHANGED worldVars
        /\ hub' = [rel EXCEPT !.conn[s].token = gone]
    BY DEF Level
  <1>2. s \in Sid /\ c \in Conn /\ gone \in BOOLEAN
    BY <1>1, TypeFacts
  <1>3. d \in Conn /\ Alike(c, d) /\ d.token = c.token /\ d.quiet = 0
    BY <1>2, LevelSet
  <1>4. fold.conn = [hub.conn EXCEPT ![s] = d] /\ fold.owner = hub.owner /\ fold \in HubSet
    <2>1. /\ fold.conn = [[[hub.conn EXCEPT ![s].quiet = 0] EXCEPT ![s].turn = turn]
                             EXCEPT ![s].written = turn]
          /\ fold.owner = hub.owner
      BY TypeFacts DEF HubSet
    <2>2. fold.conn = [hub.conn EXCEPT ![s] = d]
      BY <1>2, <2>1, TypeFacts
    <2>3. [hub.conn EXCEPT ![s] = d] \in [Sid -> Conn]
      BY <1>2, <1>3, TypeFacts
    <2>4. fold \in HubSet
      BY <2>1, <2>2, <2>3, TypeFacts DEF HubSet
    <2> QED BY <2>1, <2>2, <2>4
  <1>. HIDE DEF d, fold, gone, write
  <1>5. fold.conn[s] = d /\ \A x \in Sid \ {s} : fold.conn[x] = hub.conn[x]
    BY <1>2, <1>3, <1>4, TypeFacts, OneConn
  <1>6. /\ rel \in HubSet /\ rel.owner = fold.owner
        /\ Alike(d, rel.conn[s]) /\ rel.conn[s].token = d.token /\ rel.conn[s].quiet = 0
        /\ \A x \in Sid \ {s} : rel.conn[x] = fold.conn[x]
    BY <1>2, <1>3, <1>4, <1>5, ReleaseHub
  <1>. HIDE DEF rel
  <1>7. e \in Conn /\ Alike(rel.conn[s], e) /\ e.quiet = 0
    <2>1. rel.conn[s] \in Conn
      BY <1>2, <1>6 DEF HubSet
    <2> QED BY <1>2, <1>6, <2>1, TokenSet
  <1>8. hub' \in HubSet /\ hub'.conn = [rel.conn EXCEPT ![s] = e] /\ hub'.owner = rel.owner
    <2>1. hub'.conn = [rel.conn EXCEPT ![s] = e] /\ hub'.owner = rel.owner
      BY <1>1, <1>6 DEF HubSet
    <2>2. [rel.conn EXCEPT ![s] = e] \in [Sid -> Conn]
      BY <1>6, <1>7 DEF HubSet
    <2>3. hub' \in HubSet
      BY <1>1, <1>6, <2>1, <2>2 DEF HubSet
    <2> QED BY <2>1, <2>3
  <1>. HIDE DEF e
  <1>9. hub'.conn[s] = e /\ \A x \in Sid \ {s} : hub'.conn[x] = rel.conn[x]
    <2>1. rel.conn \in [Sid -> Conn]
      BY <1>6 DEF HubSet
    <2> QED BY <1>2, <1>8, <2>1
  <1>10. Alike(hub.conn[s], hub'.conn[s])
    BY <1>3, <1>6, <1>7, <1>9 DEF Alike
  <1>11. UNCHANGED worldVars /\ hub'.owner = hub.owner /\ hub' \in HubSet
    BY <1>1, <1>4, <1>6, <1>8
  <1>12. \A x \in Sid \ {s} : hub'.conn[x] = hub.conn[x]
    BY <1>5, <1>6, <1>9
  <1>13. hub'.conn[s].quiet = 0 /\ (hub'.conn[s].token => hub.conn[s].token)
    BY <1>1, <1>7, <1>9
  <1> QED BY <1>2, <1>10, <1>11, <1>12, <1>13, Touch

LEMMA ClaimIfFreeKept ==
  ASSUME IInv, NEW p \in Pane, ClaimIfFree(p)
  PROVE  IInv' /\ Gives
  <1> DEFINE s == claude[p]
             c == hub.conn[s]
             o == hub.owner[c.session]
             keeps == o # None /\ (o = s \/ hub.conn[o].quiet = 0)
             d == [c EXCEPT !.quiet = 0, !.token = keeps]
  <1>1. /\ linked[p] /\ c.token /\ UNCHANGED worldVars
        /\ hub' = [hub EXCEPT !.conn[s].quiet = 0, !.conn[s].token = keeps]
    BY DEF ClaimIfFree
  <1>2. s \in Sid /\ c \in Conn /\ keeps \in BOOLEAN
    BY <1>1, TypeFacts
  <1>. HIDE DEF keeps
  <1>3. d \in Conn /\ Alike(c, d) /\ d.quiet = 0
    <2>. HIDE DEF c
    <2> QED BY <1>2, HeardSet
  <1>4. hub'.conn = [hub.conn EXCEPT ![s] = d] /\ hub'.owner = hub.owner /\ hub' \in HubSet
    <2>1. /\ hub'.conn = [[hub.conn EXCEPT ![s].quiet = 0] EXCEPT ![s].token = keeps]
          /\ hub'.owner = hub.owner
      BY <1>1, TypeFacts DEF HubSet
    <2>2. hub'.conn = [hub.conn EXCEPT ![s] = d]
      BY <1>2, <2>1, TypeFacts
    <2>3. [hub.conn EXCEPT ![s] = d] \in [Sid -> Conn]
      BY <1>2, <1>3, TypeFacts
    <2>4. hub' \in HubSet
      BY <1>1, <2>1, <2>2, <2>3, TypeFacts DEF HubSet
    <2> QED BY <2>1, <2>2, <2>4
  <1>. HIDE DEF d
  <1>5. hub'.conn[s] = d /\ \A x \in Sid \ {s} : hub'.conn[x] = hub.conn[x]
    BY <1>2, <1>3, <1>4, TypeFacts, OneConn
  <1> QED BY <1>1, <1>2, <1>3, <1>4, <1>5, Touch

LEMMA FollowKept ==
  ASSUME IInv, NEW s \in Sid, Follow(s)
  PROVE  IInv' /\ Gives
  <1> DEFINE c == hub.conn[s]
             d == [c EXCEPT !.token = FALSE]
  <1>1. c.token /\ UNCHANGED worldVars /\ hub' = [hub EXCEPT !.conn[s].token = FALSE]
    BY DEF Follow
  <1>2. c \in Conn
    BY TypeFacts
  <1>3. d \in Conn /\ Alike(c, d) /\ d.quiet = c.quiet
    BY ZenonT(30), <1>2, TokenSet
  <1>4. hub'.conn = [hub.conn EXCEPT ![s] = d] /\ hub'.owner = hub.owner /\ hub' \in HubSet
    <2>1. hub'.conn = [hub.conn EXCEPT ![s] = d] /\ hub'.owner = hub.owner
      BY <1>1, TypeFacts DEF HubSet
    <2>2. [hub.conn EXCEPT ![s] = d] \in [Sid -> Conn]
      BY <1>3, TypeFacts
    <2>3. hub' \in HubSet
      BY <1>1, <2>1, <2>2, TypeFacts DEF HubSet
    <2> QED BY <2>1, <2>3
  <1>. HIDE DEF d
  <1>5. hub'.conn[s] = d /\ \A x \in Sid \ {s} : hub'.conn[x] = hub.conn[x]
    BY <1>3, <1>4, TypeFacts, OneConn
  <1> QED BY <1>1, <1>3, <1>4, <1>5, Touch

LEMMA QuietKept ==
  ASSUME IInv, NEW s \in Sid, Quiet(s)
  PROVE  IInv' /\ Gives
  <1> DEFINE c == hub.conn[s]
             d == [c EXCEPT !.quiet = c.quiet + 1]
  <1>1. /\ c.quiet < 2 /\ ~Polling(s) /\ UNCHANGED worldVars
        /\ hub' = [hub EXCEPT !.conn[s].quiet = @ + 1]
    BY DEF Quiet
  <1>2. c \in Conn /\ c.quiet + 1 \in 0..2
    <2>1. c \in Conn
      BY TypeFacts
    <2>2. c.quiet \in 0..2
      BY <2>1 DEF Conn
    <2> QED BY <1>1, <2>1, <2>2
  <1>3. d \in Conn /\ Alike(c, d) /\ d.token = c.token
    BY <1>2, QuietSet
  <1>4. hub'.conn = [hub.conn EXCEPT ![s] = d] /\ hub'.owner = hub.owner /\ hub' \in HubSet
    <2>1. hub'.conn = [hub.conn EXCEPT ![s] = d] /\ hub'.owner = hub.owner
      BY <1>1, TypeFacts DEF HubSet
    <2>2. [hub.conn EXCEPT ![s] = d] \in [Sid -> Conn]
      BY <1>3, TypeFacts
    <2>3. hub' \in HubSet
      BY <1>1, <2>1, <2>2, TypeFacts DEF HubSet
    <2> QED BY <2>1, <2>3
  <1>. HIDE DEF d
  <1>5. hub'.conn[s] = d /\ \A x \in Sid \ {s} : hub'.conn[x] = hub.conn[x]
    BY <1>3, <1>4, TypeFacts, OneConn
  <1> QED BY <1>1, <1>3, <1>4, <1>5, Touch
\* A step that touches no connection and no owner.
LEMMA Still ==
  ASSUME IInv, hub' \in HubSet, UNCHANGED worldVars, hub'.conn = hub.conn, hub'.owner = hub.owner
  PROVE  IInv' /\ Gives
  <1>1. WorldType' /\ Asks' /\ Talks' /\ One(hub')
    BY DEF IInv, worldVars, WorldType, Asks, Talks, One
  <1>2. Frees
    BY DEF Frees
  <1> QED BY <1>1, <1>2, FreesGives DEF IInv

LEMMA NoStopType == NoStop \in [sid : Sid \cup {None}, texts : Seq(Prompt), late : BOOLEAN]
  <1>1. <<>> \in Seq(Prompt)
    OBVIOUS
  <1> QED BY <1>1 DEF NoStop

\* The list of one connection, and what goes with it.
LEMMA HeldKept ==
  ASSUME IInv, NEW s \in Sid, NEW t \in Seq(Prompt), hub' \in HubSet, UNCHANGED worldVars,
         hub'.conn = [hub.conn EXCEPT ![s].held = t], hub'.owner = hub.owner
  PROVE  IInv' /\ Gives
  <1> DEFINE c == hub.conn[s]
             d == [c EXCEPT !.held = t]
  <1>1. c \in Conn
    BY TypeFacts
  <1>2. Alike(c, d) /\ d.token = c.token /\ d.quiet = c.quiet
    BY <1>1, HeldSet
  <1>3. hub'.conn[s] = d /\ \A x \in Sid \ {s} : hub'.conn[x] = hub.conn[x]
    BY TypeFacts
  <1>. HIDE DEF d
  <1> QED BY <1>2, <1>3, Touch

LEMMA HeldType ==
  ASSUME NEW h \in HubSet, NEW s \in Sid
  PROVE  h.conn[s] \in Conn /\ h.conn[s].held \in Seq(Prompt)
  BY DEF HubSet, Conn

LEMMA HoldKept ==
  ASSUME IInv, NEW s \in Sid, NEW x \in Prompt, Hold(s, x)
  PROVE  IInv' /\ Gives
  <1> DEFINE t == Append(hub.conn[s].held, x)
  <1>1. UNCHANGED worldVars /\ hub' = [hub EXCEPT !.conn[s].held = t, !.files[s] = t]
    BY DEF Hold
  <1>2. hub.conn[s].held \in Seq(Prompt) /\ t \in Seq(Prompt)
    BY TypeFacts, HeldType
  <1>. HIDE DEF t
  <1>3. hub'.conn = [hub.conn EXCEPT ![s].held = t] /\ hub'.owner = hub.owner
    BY <1>1, TypeFacts DEF HubSet
  <1>4. /\ [hub.conn EXCEPT ![s].held = t] \in [Sid -> Conn]
        /\ [hub.files EXCEPT ![s] = t] \in [Sid -> Seq(Prompt)]
    BY <1>2, TypeFacts, HeldSet DEF HubSet
  <1>5. hub' \in HubSet
    BY <1>1, <1>4, TypeFacts DEF HubSet
  <1> QED BY <1>1, <1>2, <1>3, <1>5, HeldKept

LEMMA TakeHeldKept ==
  ASSUME IInv, NEW n \in Session, TakeHeld(n)
  PROVE  IInv' /\ Gives
  <1> DEFINE s == hub.owner[n]
             st == [sid |-> s, texts |-> hub.conn[s].held, late |-> FALSE]
  <1>1. /\ UNCHANGED worldVars /\ s # None
        /\ hub' = [hub EXCEPT !.conn[s].held = <<>>, !.files[s] = <<>>, !.stop = st]
    BY DEF TakeHeld
  <1>2. s \in Sid /\ <<>> \in Seq(Prompt)
    BY <1>1, TypeFacts
  <1>3. st \in [sid : Sid \cup {None}, texts : Seq(Prompt), late : BOOLEAN]
    BY <1>2, TypeFacts DEF Conn
  <1>. HIDE DEF st
  <1>4. hub'.conn = [hub.conn EXCEPT ![s].held = <<>>] /\ hub'.owner = hub.owner
    BY <1>1, TypeFacts DEF HubSet
  <1>5. /\ [hub.conn EXCEPT ![s].held = <<>>] \in [Sid -> Conn]
        /\ [hub.files EXCEPT ![s] = <<>>] \in [Sid -> Seq(Prompt)]
    BY <1>2, TypeFacts, HeldSet DEF HubSet
  <1>6. hub' \in HubSet
    BY <1>1, <1>3, <1>5, TypeFacts DEF HubSet
  <1> QED BY <1>1, <1>2, <1>4, <1>6, HeldKept

LEMMA StoppedKept ==
  ASSUME IInv, Stopped
  PROVE  IInv' /\ Gives
  <1>1. UNCHANGED worldVars /\ hub' = [hub EXCEPT !.stop = NoStop]
    BY DEF Stopped
  <1>2. hub' \in HubSet /\ hub'.conn = hub.conn /\ hub'.owner = hub.owner
    BY <1>1, TypeFacts, NoStopType DEF HubSet
  <1> QED BY <1>1, <1>2, Still

LEMMA PutBackKept ==
  ASSUME IInv, PutBack
  PROVE  IInv' /\ Gives
  <1> DEFINE st == hub.stop
             s == st.sid
             h == [hub EXCEPT !.stop = NoStop]
             t == st.texts \o h.conn[s].held
             back == [h EXCEPT !.conn[s].held = t, !.files[s] = t]
  <1>1. h \in HubSet /\ h.conn = hub.conn /\ h.owner = hub.owner
    BY TypeFacts, NoStopType DEF HubSet
  <1>2. st.texts \in Seq(Prompt)
    BY TypeFacts DEF HubSet
  <1>3. UNCHANGED worldVars /\ s \in Sid
    <2>1. s \in Sid \cup {None}
      BY TypeFacts DEF HubSet
    <2> QED BY <2>1 DEF PutBack
  <1>4. CASE st.late
    <2>1. hub' = [h EXCEPT !.files[s] = st.texts]
      BY <1>4 DEF PutBack
    <2>. HIDE DEF h
    <2>2. [h.files EXCEPT ![s] = st.texts] \in [Sid -> Seq(Prompt)]
      BY <1>1, <1>2 DEF HubSet
    <2>3. hub' \in HubSet /\ hub'.conn = h.conn /\ hub'.owner = h.owner
      BY <1>1, <2>1, <2>2 DEF HubSet
    <2> QED BY <1>1, <1>3, <2>3, Still
  <1>5. CASE ~st.late
    <2>1. hub' = Release(back, s)
      BY <1>5 DEF PutBack
    <2>. HIDE DEF h
    <2> DEFINE c == h.conn[s]
               d == [c EXCEPT !.held = t]
    <2>2. c \in Conn /\ t \in Seq(Prompt)
      BY <1>1, <1>2, <1>3, HeldType
    <2>. HIDE DEF t
    <2>3. d \in Conn /\ Alike(c, d) /\ d.token = c.token /\ d.quiet = c.quiet
      BY <2>2, HeldSet
    <2>4. back.conn = [h.conn EXCEPT ![s] = d] /\ back.owner = h.owner
      BY <1>1 DEF HubSet
    <2>5. /\ [h.conn EXCEPT ![s] = d] \in [Sid -> Conn]
          /\ [h.files EXCEPT ![s] = t] \in [Sid -> Seq(Prompt)]
      BY <1>1, <2>2, <2>3 DEF HubSet
    <2>6. back \in HubSet
      BY <1>1, <2>4, <2>5 DEF HubSet
    <2>. HIDE DEF d
    <2>7. back.conn[s] = d /\ \A x \in Sid \ {s} : back.conn[x] = h.conn[x]
      BY <1>1, <1>3, <2>4, TypeFacts
    <2>. HIDE DEF back
    <2>8. /\ hub' \in HubSet /\ hub'.owner = back.owner
          /\ Alike(d, hub'.conn[s]) /\ hub'.conn[s].token = d.token
          /\ hub'.conn[s].quiet = d.quiet
          /\ \A x \in Sid \ {s} : hub'.conn[x] = back.conn[x]
      BY <1>3, <2>1, <2>6, <2>7, ReleaseHub
    <2>9. Alike(hub.conn[s], hub'.conn[s])
      BY <1>1, <2>3, <2>8 DEF Alike
    <2> QED BY <1>1, <1>3, <2>3, <2>4, <2>7, <2>8, <2>9, Touch
  <1> QED BY <1>4, <1>5

LEMMA SweepKept ==
  ASSUME IInv, Sweep
  PROVE  IInv' /\ Gives
  <1>1. PICK s \in Sid : hub' = Drop(hub, s)
    BY DEF Sweep, Registered
  <1>2. UNCHANGED worldVars
    BY DEF Sweep
  <1>3. WorldType'
    BY <1>2 DEF IInv, WorldType, worldVars
  <1> QED BY <1>1, <1>2, <1>3, Dropped DEF worldVars
LEMMA RestartKept ==
  ASSUME IInv, Restart
  PROVE  IInv' /\ Gives
  <1> DEFINE conn == [x \in Sid |-> NoConn]
             owner == [n \in Session |-> None]
             carry == [p \in Pane |-> NoCarry]
  <1>1. /\ UNCHANGED <<claude, name, linked>> /\ asking' = [p \in Pane |-> NoHello]
        /\ hub' = [hub EXCEPT !.conn = conn, !.owner = owner, !.carry = carry, !.stop = NoStop]
    BY DEF Restart
  <1>2. /\ conn \in [Sid -> Conn] /\ owner \in [Session -> Sid \cup {None}]
        /\ carry \in [Pane -> Left]
    <2>1. <<>> \in Seq(Prompt)
      OBVIOUS
    <2> QED BY <2>1, NoConnType DEF NoCarry, Left
  <1>3. hub' \in HubSet /\ hub'.conn = conn /\ hub'.owner = owner
    BY <1>1, <1>2, NoStopType, TypeFacts DEF HubSet
  <1>4. One(hub')
    BY <1>3, NoConnType DEF One
  <1>5. WorldType' /\ Asks'
    BY <1>1 DEF IInv, WorldType, Asks
  <1>6. Talks'
    BY <1>1, <1>3, NoConnType DEF IInv, Talks
  <1>7. Frees
    BY <1>3 DEF Frees
  <1> QED BY <1>3, <1>4, <1>5, <1>6, <1>7, FreesGives DEF IInv

LEMMA HelloStampsKept ==
  ASSUME IInv, NEW p \in Pane, HelloStamps(p)
  PROVE  IInv' /\ Gives
  <1>1. /\ claude[p] # None /\ ~linked[p] /\ UNCHANGED <<claude, name, linked, hub>>
        /\ asking' = [asking EXCEPT ![p] =
              [sid |-> claude[p], session |-> name[p],
               yields |-> Yields(hub, claude[p], p, name[p])]]
    BY DEF HelloStamps
  <1>2. [sid |-> claude[p], session |-> name[p], yields |-> Yields(hub, claude[p], p, name[p])]
            \in [sid : Sid, session : Session, yields : BOOLEAN]
    BY <1>1, TypeFacts DEF Yields
  <1>3. WorldType' /\ Talks'
    BY <1>1, <1>2 DEF IInv, WorldType, Talks
  <1>4. Asks'
    BY <1>1 DEF IInv, WorldType, Asks
  <1>5. Frees
    BY <1>1 DEF Frees
  <1> QED BY <1>1, <1>3, <1>4, <1>5, FreesGives DEF IInv

\* A hello that registers in a hub h, which is the service's but for a connection
\* put out and for what the new one adopts.
LEMMA HelloKept ==
  ASSUME IInv, NEW p \in Pane, HelloRegisters(p), NEW h \in HubSet, One(h),
         hub' = Register(h, asking[p].sid, p, asking[p].session),
         \A x \in Sid \ {asking[p].sid} :
            h.conn[x] = hub.conn[x] \/ (Crowded /\ h.conn[x] = NoConn),
         \A n \in Session : h.owner[n] = hub.owner[n] \/ (Crowded /\ h.owner[n] = None)
  PROVE  IInv' /\ Gives
  <1> DEFINE s == asking[p].sid
             n == asking[p].session
  <1>1. /\ asking[p] # NoHello /\ UNCHANGED <<claude, name>>
        /\ asking' = [asking EXCEPT ![p] = NoHello]
        /\ linked' = [q \in Pane |-> IF claude[q] = s THEN q = p ELSE linked[q]]
    BY DEF HelloRegisters
  <1>2. s \in Sid /\ n \in Session
    BY <1>1, TypeFacts
  <1>3. /\ hub' \in HubSet /\ One(hub')
        /\ hub'.conn[s].pane = p /\ hub'.conn[s].quiet = 0
        /\ \A x \in Sid \ {s} : hub'.conn[x] \in {h.conn[x], NoConn}
        /\ \A m \in Session : hub'.owner[m] \in {h.owner[m], None} \/ (m = n /\ hub'.owner[m] = s)
        /\ Yields(h, s, p, n) => hub'.owner[n] = h.owner[n]
    BY <1>2, RegisterHub
  <1>4. WorldType'
    BY <1>1 DEF IInv, WorldType
  <1>5. Asks'
    BY <1>1 DEF IInv, WorldType, Asks
  <1>6. Talks'
    <2>. SUFFICES ASSUME NEW q \in Pane, linked'[q]
         PROVE  /\ claude[q] \in Sid
                /\ hub'.conn[claude[q]].token =>
                      hub'.conn[claude[q]].pane = q /\ hub'.conn[claude[q]].quiet = 0
      BY <1>1 DEF Talks
    <2>1. CASE claude[q] = s
      BY <1>1, <1>2, <1>3, <2>1
    <2>2. CASE claude[q] # s
      <3>1. linked[q] /\ claude[q] \in Sid \ {s}
        BY <1>1, <2>2, TypeFacts
      <3>2. hub'.conn[claude[q]] \in {hub.conn[claude[q]], NoConn}
        BY <1>3, <3>1
      <3> QED BY <3>1, <3>2, NoConnType DEF IInv, Talks
    <2> QED BY <2>1, <2>2
  <1>7. \A m \in Session : Given(m) => m = n
    BY <1>3 DEF Given
  <1>8. ASSUME Given(n), hub.owner[n] \in Sid, Polling(hub.owner[n])
        PROVE  Crowded
    <2> DEFINE o == hub.owner[n]
    <2>1. hub'.owner[n] = s /\ o # s
      BY <1>2, <1>3, <1>8 DEF Given
    <2>2. CASE h.owner[n] # o
      BY <1>2, <2>2
    <2>3. CASE h.owner[n] = o
      <3>1. ~Yields(h, s, p, n)
        BY <1>3, <2>1, <2>3
      <3>2. h.conn[o] = NoConn \/ h.conn[o].pane = p \/ h.conn[o].quiet # 0
        BY <1>8, <2>1, <2>3, <3>1, NoneAssumption DEF Yields
      <3>3. PICK q \in Pane : claude[q] = o /\ linked[q] /\ hub.conn[o].token
        BY <1>8 DEF Polling
      <3>4. hub.conn[o].pane = q /\ hub.conn[o].quiet = 0 /\ q # p
        BY <1>1, <3>3 DEF IInv, Talks, Asks
      <3>5. h.conn[o] # hub.conn[o]
        BY <3>2, <3>3, <3>4, NoConnType
      <3> QED BY <1>8, <2>1, <3>5
    <2> QED BY <2>2, <2>3
  <1> QED BY <1>2, <1>3, <1>4, <1>5, <1>6, <1>7, <1>8 DEF IInv, Gives

LEMMA HelloRegistersKept ==
  ASSUME IInv, NEW p \in Pane, HelloRegisters(p)
  PROVE  IInv' /\ Gives
  <1> DEFINE s == asking[p].sid
             n == asking[p].session
  <1>1. s \in Sid /\ n \in Session
    BY TypeFacts DEF HelloRegisters
  <1>2. CASE hub.conn[s].on
    <2>1. hub' = Register(hub, s, p, n)
      BY <1>2 DEF HelloRegisters
    <2> QED BY <2>1, HelloKept DEF IInv
  <1>3. CASE ~hub.conn[s].on
    <2>1. PICK v \in Victims :
             hub' = Register(Adopt(IF v = None THEN hub ELSE Drop(hub, v), s, p), s, p, n)
      BY <1>3 DEF HelloRegisters
    <2> DEFINE g == IF v = None THEN hub ELSE Drop(hub, v)
               h == Adopt(g, s, p)
    <2>2. /\ g \in HubSet /\ One(g) /\ ~g.conn[s].on
          /\ \A x \in Sid : g.conn[x] = hub.conn[x] \/ (Crowded /\ g.conn[x] = NoConn)
          /\ \A m \in Session : g.owner[m] = hub.owner[m] \/ (Crowded /\ g.owner[m] = None)
      <3>1. CASE v = None
        BY <1>3, <3>1 DEF IInv
      <3>2. CASE v # None
        <4>1. v \in Sid /\ Crowded
          BY <3>2 DEF Victims, Registered
        <4>2. /\ g \in HubSet /\ One(g) /\ g.conn = [hub.conn EXCEPT ![v] = NoConn]
              /\ g.owner = [hub.owner EXCEPT ![hub.conn[v].session] = IF @ = v THEN None ELSE @]
          BY <3>2, <4>1, DropHub, DropOne DEF IInv
        <4>. HIDE DEF g
        <4>3. \A x \in Sid : g.conn[x] = IF x = v THEN NoConn ELSE hub.conn[x]
          BY <4>2, TypeFacts
        <4>4. \A m \in Session : g.owner[m] \in {hub.owner[m], None}
          BY <4>2, TypeFacts
        <4> QED BY <1>1, <1>3, <4>1, <4>2, <4>3, <4>4, NoConnType
      <3> QED BY <3>1, <3>2
    <2>. HIDE DEF g
    <2>3. /\ h \in HubSet /\ One(h) /\ h.owner = g.owner
          /\ \A x \in Sid \ {s} : h.conn[x] = g.conn[x]
      BY <1>1, <2>2, AdoptHub, AdoptOne
    <2>4. hub' = Register(h, s, p, n)
      BY <2>1 DEF g
    <2>. HIDE DEF h
    <2> QED BY <2>2, <2>3, <2>4, HelloKept
  <1> QED BY <1>2, <1>3

LEMMA EndKept ==
  ASSUME IInv, NEW p \in Pane, NEW next \in Sid \cup {None}, End(p, next)
  PROVE  IInv' /\ Gives
  <1>1. /\ claude[p] # None /\ UNCHANGED <<name, asking>>
        /\ claude' = [claude EXCEPT ![p] = next] /\ linked' = [linked EXCEPT ![p] = FALSE]
        /\ hub' = Drop(hub, claude[p]) \/ hub' = hub
    BY DEF End, Bye
  <1>2. WorldType' /\ \A q \in Pane : linked'[q] => linked[q] /\ claude'[q] = claude[q]
    BY <1>1 DEF IInv, WorldType
  <1>3. claude[p] \in Sid
    BY <1>1, TypeFacts
  <1> QED BY <1>1, <1>2, <1>3, Dropped, Elsewhere

LEMMA StepKept ==
  ASSUME IInv, [Next]_vars
  PROVE  IInv' /\ Gives
  <1>1. CASE \E p \in Pane : HelloRegisters(p)
    BY <1>1, HelloRegistersKept
  <1>2. CASE World
    <2>1. ASSUME NEW p \in Pane, NEW s \in Sid, Start(p, s)
          PROVE  IInv' /\ Gives
      <3>1. /\ UNCHANGED <<name, asking, hub>>
            /\ claude' = [claude EXCEPT ![p] = s] /\ linked' = [linked EXCEPT ![p] = FALSE]
        BY <2>1 DEF Start
      <3>2. WorldType' /\ \A q \in Pane : linked'[q] => linked[q] /\ claude'[q] = claude[q]
        BY <3>1 DEF IInv, WorldType
      <3> QED BY <3>1, <3>2, Elsewhere
    <2>2. ASSUME NEW m \in Session, NEW n \in Session, Rename(m, n)
          PROVE  IInv' /\ Gives
      <3>1. /\ UNCHANGED <<claude, linked, asking, hub>>
            /\ name' = [p \in Pane |-> IF name[p] = m THEN n ELSE name[p]]
        BY <2>2 DEF Rename
      <3>2. WorldType'
        BY <3>1 DEF IInv, WorldType
      <3> QED BY <3>1, <3>2, Elsewhere
    <2> QED BY <1>2, <2>1, <2>2, EndKept DEF World
  <1>3. CASE \E p \in Pane : Mod(p)
    <2>1. ASSUME NEW p \in Pane, Refused(p)
          PROVE  IInv' /\ Gives
      <3>1. UNCHANGED <<claude, name, asking, hub>> /\ linked' = [linked EXCEPT ![p] = FALSE]
        BY <2>1 DEF Refused
      <3>2. WorldType' /\ \A q \in Pane : linked'[q] => linked[q] /\ claude'[q] = claude[q]
        BY <3>1 DEF IInv, WorldType
      <3> QED BY <3>1, <3>2, Elsewhere
    <2> QED BY <1>3, <2>1, HelloStampsKept, ClaimIfFreeKept, LevelKept DEF Mod
  <1>4. CASE Service
    BY <1>4, FollowKept, QuietKept, SweepKept, HoldKept, TakeHeldKept, StoppedKept, PutBackKept
    DEF Service
  <1>5. CASE Restart
    BY <1>5, RestartKept
  <1>6. CASE UNCHANGED vars \/ \E n \in Session : SweepWrites(n)
    <2>1. UNCHANGED <<worldVars, hub>>
      BY <1>6 DEF vars, SweepWrites
    <2>2. WorldType'
      BY <2>1 DEF IInv, WorldType, worldVars
    <2> QED BY <2>1, <2>2, Elsewhere DEF worldVars
  <1> QED BY <1>1, <1>2, <1>3, <1>4, <1>5, <1>6 DEF Next

LEMMA InitInv == Init => IInv
  <1>. SUFFICES ASSUME Init PROVE IInv
    OBVIOUS
  <1>1. <<>> \in Seq(Prompt)
    OBVIOUS
  <1>2. hub \in HubSet
    BY <1>1, NoConnType, NoStopType DEF Init, HubSet, NoCarry, Left
  <1>3. /\ hub.conn = [x \in Sid |-> NoConn] /\ hub.owner = [n \in Session |-> None]
    BY DEF Init
  <1>4. One(hub)
    BY <1>3, NoConnType DEF One
  <1>5. WorldType /\ Talks /\ Asks
    BY DEF Init, WorldType, Talks, Asks
  <1> QED BY <1>2, <1>4, <1>5 DEF IInv

LEMMA Inductive == Spec => []IInv
  <1>1. IInv /\ [Next]_vars => IInv'
    BY StepKept
  <1> QED BY <1>1, InitInv, PTL DEF Spec

\* The hub's maps agree whatever hellos, takeovers, renames, byes, drops, evictions and
\* restarts come in between, with any interleaving of a hello's two halves (hello,
\* dropLocked, capLocked in mod.go).
THEOREM MapsAgree == Spec => []OneHolder
  <1>1. IInv => OneHolder
    BY NoneAssumption DEF IInv, One, OneHolder, Registered
  <1> QED BY <1>1, Inductive, PTL

LEMMA LeaseInit == Init => Lease!Init
  <1>. SUFFICES ASSUME Init PROVE Lease!Init
    OBVIOUS
  <1>1. {s \in Sid : Polling(s)} = {}
    BY NoConnType DEF Init, Polling
  <1>2. hub.owner = [n \in Session |-> None] /\ Crowded \in BOOLEAN
    BY DEF Init, Crowded
  <1> QED BY <1>1, <1>2 DEF Lease!Init

LEMMA LeaseStep ==
  ASSUME IInv, IInv', Gives
  PROVE  Lease!Next
  <1>1. hub'.owner \in [Session -> Sid \cup {None}]
    BY DEF IInv, HubSet
  <1>2. \A n \in Session : Lease!Given(n) <=> Given(n)
    BY DEF Lease!Given, Given
  <1>3. \A m, n \in Session : Lease!Given(m) /\ Lease!Given(n) => m = n
    BY <1>2 DEF Gives
  <1>4. \A n \in Session :
           Lease!Given(n) => Crowded \/ hub.owner[n] \notin {s \in Sid : Polling(s)}
    BY <1>2 DEF Gives
  <1>5. \A m, n \in Session : hub'.owner[m] = hub'.owner[n] /\ hub'.owner[n] # None => m = n
    BY DEF IInv, One
  <1> QED BY <1>1, <1>3, <1>4, <1>5 DEF Lease!Next

\* ModHub implements SessionLease: a tmux session is one conversation's at a time, and
\* is taken from none whose Claude is talking but by the cap (yieldsLocked, capLocked).
THEOREM Implements == Spec => Leased
  <1>1. IInv /\ IInv' /\ [Next]_vars =>
           [Lease!Next]_<<hub.owner, {s \in Sid : Polling(s)}, Crowded>>
    BY StepKept, LeaseStep
  <1> QED BY <1>1, LeaseInit, Inductive, PTL DEF Spec, Leased, Lease!Spec

-----------------------------------------------------------------------------
(* The inductive invariant for the prompts.                                *)

\* Where a prompt may be: with a connection, carried in a pane, in a
\* conversation's file, or in the hands of a Stop.
HeldIn(h, s)  == ToSet(h.conn[s].held)
Carried(h, p) == ToSet(h.carry[p].texts)
FileOf(h, s)  == ToSet(h.files[s])
InHand(h)     == ToSet(h.stop.texts)

Somewhere(h, x) ==
    \/ x \in InHand(h)
    \/ \E s \in Sid : x \in HeldIn(h, s) \/ x \in FileOf(h, s)
    \/ \E p \in Pane : x \in Carried(h, p)

\* In one place only, and in the file of the conversation that has it or left it.
OnceAt(h, x) ==
    /\ \A s, t \in Sid : x \in HeldIn(h, s) /\ x \in HeldIn(h, t) => s = t
    /\ \A s, t \in Sid : x \in FileOf(h, s) /\ x \in FileOf(h, t) => s = t
    /\ \A s, t \in Sid : x \in HeldIn(h, s) /\ x \in FileOf(h, t) => s = t
    /\ \A p, q \in Pane : x \in Carried(h, p) /\ x \in Carried(h, q) => p = q
    /\ \A p \in Pane, s \in Sid :
          x \in Carried(h, p) => x \notin HeldIn(h, s) /\ (x \in FileOf(h, s) => h.carry[p].sid = s)
    /\ x \in InHand(h) =>
          /\ \A s \in Sid : x \notin HeldIn(h, s) /\ x \notin FileOf(h, s)
          /\ \A p \in Pane : x \notin Carried(h, p)

\* In a file, and the file of a conversation says no more than its list or its carry.
SafeAt(h, x) ==
    /\ x \in InHand(h) \/ \E s \in Sid : x \in FileOf(h, s)
    /\ \A s \in Sid : h.conn[s].on /\ x \in FileOf(h, s) => x \in HeldIn(h, s)
    /\ \A q \in Pane, s \in Sid : h.carry[q].sid = s /\ x \in FileOf(h, s) => x \in Carried(h, q)

\* What is carried was left by a conversation that ended; a Stop that is not late has
\* its connection.
Shape(h) ==
    /\ \A q \in Pane, s \in Sid : h.carry[q].sid = s => ~h.conn[s].on
    /\ h.stop.sid = None => InHand(h) = {}
    /\ h.stop.sid \in Sid => h.stop.late \/ h.conn[h.stop.sid].on
    /\ \A s \in Sid : h.conn[s].stamps => h.conn[s].on

Pending(x) == x \in sent \ (returned \cup cut) /\ given[x] = 0

PromptAt(h, x) ==
    /\ OnceAt(h, x)
    /\ given[x] <= 1
    /\ Somewhere(h, x) => x \in sent /\ given[x] = 0
    /\ given[x] # 0 => x \in sent
    /\ Pending(x) => SafeAt(h, x)

Kept == Shape(hub) /\ \A x \in Prompt : PromptAt(hub, x)

HeldInv == given \in [Prompt -> Nat] /\ (~cameBack => Kept)

\* The hub goes from h to d, and what held of its prompts holds.
Moves(h, d) ==
    /\ Shape(d)
    /\ \A x \in Prompt : OnceAt(h, x) => OnceAt(d, x)
    /\ \A x \in Prompt : OnceAt(h, x) /\ SafeAt(h, x) => SafeAt(d, x)
    /\ \A x \in Prompt : Somewhere(d, x) => Somewhere(h, x)

\* No list, no file, and no connection's place is touched.
SameLists(h, d) ==
    /\ d.files = h.files /\ d.carry = h.carry /\ d.stop = h.stop
    /\ \A s \in Sid : /\ d.conn[s].held = h.conn[s].held
                       /\ d.conn[s].on = h.conn[s].on /\ d.conn[s].stamps = h.conn[s].stamps

-----------------------------------------------------------------------------
(* Sequences.                                                              *)

LEMMA EmptySet == ToSet(<<>>) = {}
  BY DEF ToSet

LEMMA SeqSet ==
  /\ \A a \in Seq(Prompt) : ToSet(a) \subseteq Prompt
  /\ \A a \in Seq(Prompt), b \in Seq(Prompt) : ToSet(a \o b) \subseteq Prompt
  <1>1. ASSUME NEW a \in Seq(Prompt) PROVE ToSet(a) \subseteq Prompt
    <2>1. DOMAIN a = 1..Len(a) /\ \A i \in 1..Len(a) : a[i] \in Prompt
      OBVIOUS
    <2> QED BY <2>1 DEF ToSet
  <1>2. ASSUME NEW a \in Seq(Prompt), NEW b \in Seq(Prompt) PROVE a \o b \in Seq(Prompt)
    OBVIOUS
  <1> QED BY <1>1, <1>2

LEMMA AppendSet ==
  ASSUME NEW a \in Seq(Prompt), NEW x \in Prompt
  PROVE  ToSet(Append(a, x)) = ToSet(a) \cup {x}
  <1>1. DOMAIN Append(a, x) = 1..Len(a) + 1 /\ DOMAIN a = 1..Len(a) /\ Len(a) \in Nat
    OBVIOUS
  <1>2. \A i \in 1..Len(a) : Append(a, x)[i] = a[i]
    OBVIOUS
  <1>3. Append(a, x)[Len(a) + 1] = x
    OBVIOUS
  <1> QED BY <1>1, <1>2, <1>3 DEF ToSet

LEMMA ConcatSet ==
  ASSUME NEW a \in Seq(Prompt), NEW b \in Seq(Prompt)
  PROVE  ToSet(a \o b) = ToSet(a) \cup ToSet(b)
  <1>1. /\ Len(a) \in Nat /\ Len(b) \in Nat /\ DOMAIN a = 1..Len(a) /\ DOMAIN b = 1..Len(b)
        /\ DOMAIN (a \o b) = 1..Len(a) + Len(b)
    OBVIOUS
  <1>2. \A i \in 1..Len(a) : (a \o b)[i] = a[i]
    OBVIOUS
  <1>3. \A i \in Len(a) + 1..Len(a) + Len(b) : (a \o b)[i] = b[i - Len(a)]
    OBVIOUS
  <1>4. \A j \in 1..Len(b) : (a \o b)[Len(a) + j] = b[j] /\ Len(a) + j \in 1..Len(a) + Len(b)
    OBVIOUS
  <1>5. ToSet(a \o b) \subseteq ToSet(a) \cup ToSet(b)
    <2> SUFFICES ASSUME NEW i \in 1..Len(a) + Len(b)
        PROVE  (a \o b)[i] \in ToSet(a) \cup ToSet(b)
      BY <1>1 DEF ToSet
    <2>1. CASE i \in 1..Len(a)
      BY <1>1, <1>2, <2>1 DEF ToSet
    <2>2. CASE i \notin 1..Len(a)
      <3>1. i \in Len(a) + 1..Len(a) + Len(b) /\ i - Len(a) \in 1..Len(b)
        BY <1>1, <2>2
      <3> QED BY <1>1, <1>3, <3>1 DEF ToSet
    <2> QED BY <2>1, <2>2
  <1>6. ToSet(a) \subseteq ToSet(a \o b)
    BY <1>1, <1>2 DEF ToSet
  <1>7. ToSet(b) \subseteq ToSet(a \o b)
    BY <1>1, <1>4 DEF ToSet
  <1> QED BY <1>5, <1>6, <1>7

-----------------------------------------------------------------------------
(* What the hub's helpers do to the lists.                                 *)

LEMMA Nothing ==
  /\ ~NoConn.on /\ ~NoConn.stamps /\ NoConn.held = <<>>
  /\ NoCarry.sid = None /\ NoCarry.texts = <<>>
  /\ NoStop.sid = None /\ NoStop.texts = <<>>
  BY DEF NoConn, NoCarry, NoStop

LEMMA DropLists ==
  ASSUME NEW h \in HubSet, NEW s \in Sid
  PROVE  LET d == Drop(h, s)
         IN  /\ d.files = h.files /\ d.stop.texts = h.stop.texts /\ d.stop.sid = h.stop.sid
             /\ d.stop.late <=> h.stop.late \/ h.stop.sid = s
             /\ d.conn[s] = NoConn /\ \A t \in Sid \ {s} : d.conn[t] = h.conn[t]
             /\ \A p \in Pane : \/ d.carry[p] = h.carry[p]
                                \/ /\ p = h.conn[s].pane
                                   /\ d.carry[p] = [sid |-> s, texts |-> h.conn[s].held]
  <1> DEFINE c == h.conn[s]
             d == Drop(h, s)
             st == h.stop
             late == [st EXCEPT !.late = @ \/ st.sid = s]
  <1>1. /\ d.files = h.files /\ d.stop = late
        /\ d.conn = [h.conn EXCEPT ![s] = NoConn]
        /\ d.carry = [h.carry EXCEPT ![c.pane] =
                         IF c.held = <<>> THEN @ ELSE [sid |-> s, texts |-> c.held]]
    BY DEF Drop, HubSet
  <1>2. st \in [sid : Sid \cup {None}, texts : Seq(Prompt), late : BOOLEAN]
    BY DEF HubSet
  <1>3. late.sid = st.sid /\ late.texts = st.texts
    BY <1>2
  <1>4. late.late <=> st.late \/ st.sid = s
    BY <1>2, Zenon
  <1>5. d.conn[s] = NoConn /\ \A t \in Sid \ {s} : d.conn[t] = h.conn[t]
    BY <1>1 DEF HubSet
  <1>6. h.carry \in [Pane -> Left]
    BY DEF HubSet
  <1>. HIDE DEF d, late
  <1>7. \A p \in Pane : \/ d.carry[p] = h.carry[p]
                        \/ p = c.pane /\ d.carry[p] = [sid |-> s, texts |-> c.held]
    BY <1>1, <1>6
  <1> QED BY <1>1, <1>3, <1>4, <1>5, <1>7 DEF d

LEMMA AdoptLists ==
  ASSUME NEW h \in HubSet, NEW s \in Sid, NEW p \in Pane, h.carry[p].sid # s
  PROVE  LET left == h.carry[p]
             a == Adopt(h, s, p)
         IN  /\ a.stop = h.stop
             /\ a.conn[s].on = h.conn[s].on /\ a.conn[s].stamps = h.conn[s].stamps
             /\ \A t \in Sid \ {s} : a.conn[t] = h.conn[t]
             /\ \A q \in Pane \ {p} : a.carry[q] = h.carry[q]
             /\ left.sid = None => /\ a.carry = h.carry /\ a.files = h.files
                                   /\ a.conn[s].held = h.files[s]
             /\ left.sid # None =>
                   /\ a.carry[p] = NoCarry
                   /\ a.conn[s].held = h.files[s] \o left.texts
                   /\ a.files[s] = h.files[s] \o left.texts
                   /\ a.files[left.sid] = <<>>
                   /\ \A t \in Sid \ {s, left.sid} : a.files[t] = h.files[t]
  <1> DEFINE left == h.carry[p]
             kept == h.files[s]
             texts == kept \o left.texts
             a == Adopt(h, s, p)
  <1>1. /\ left \in Left /\ kept \in Seq(Prompt) /\ texts \in Seq(Prompt) /\ h.conn[s] \in Conn
        /\ left.sid \in Sid \cup {None} /\ s # None
    BY NoneAssumption DEF HubSet, Left
  <1>2. CASE left.sid # None
    <2>1. a = [h EXCEPT !.conn[s].held = texts, !.carry[p] = NoCarry,
                        !.files = [@ EXCEPT ![left.sid] = <<>>, ![s] = texts]]
      BY <1>2 DEF Adopt
    <2>. HIDE DEF texts
    <2>2. /\ a.stop = h.stop /\ a.conn = [h.conn EXCEPT ![s].held = texts]
          /\ a.carry = [h.carry EXCEPT ![p] = NoCarry]
          /\ a.files = [h.files EXCEPT ![left.sid] = <<>>, ![s] = texts]
      BY <2>1 DEF HubSet
    <2>. HIDE DEF a
    <2>3. a.conn[s] = [h.conn[s] EXCEPT !.held = texts] /\ \A t \in Sid \ {s} : a.conn[t] = h.conn[t]
      BY <2>2 DEF HubSet
    <2>4. a.conn[s].held = texts
      BY <1>1, <2>3 DEF Conn
    <2>5. a.conn[s].on = h.conn[s].on /\ a.conn[s].stamps = h.conn[s].stamps
      BY <1>1, <2>3, Zenon DEF Conn
    <2>6. a.carry[p] = NoCarry /\ \A q \in Pane \ {p} : a.carry[q] = h.carry[q]
      BY <2>2 DEF HubSet
    <2>7. /\ a.files[s] = texts /\ a.files[left.sid] = <<>>
          /\ \A t \in Sid \ {s, left.sid} : a.files[t] = h.files[t]
      BY <1>1, <1>2, <2>2 DEF HubSet
    <2> QED BY <1>2, <2>2, <2>3, <2>4, <2>5, <2>6, <2>7 DEF a, texts
  <1>3. CASE left.sid = None
    <2>1. a = [h EXCEPT !.conn[s].held = kept]
      BY <1>3 DEF Adopt
    <2>2. /\ a.stop = h.stop /\ a.conn = [h.conn EXCEPT ![s].held = kept]
          /\ a.carry = h.carry /\ a.files = h.files
      BY <2>1 DEF HubSet
    <2>. HIDE DEF a
    <2>3. a.conn[s] = [h.conn[s] EXCEPT !.held = kept] /\ \A t \in Sid \ {s} : a.conn[t] = h.conn[t]
      BY <2>2 DEF HubSet
    <2>4. a.conn[s].held = kept
      BY <1>1, <2>3 DEF Conn
    <2>5. a.conn[s].on = h.conn[s].on /\ a.conn[s].stamps = h.conn[s].stamps
      BY <1>1, <2>3, Zenon DEF Conn
    <2> QED BY <1>3, <2>2, <2>3, <2>4, <2>5 DEF a
  <1> QED BY <1>2, <1>3

LEMMA RegisterLists ==
  ASSUME NEW h \in HubSet, NEW s \in Sid, NEW p \in Pane, NEW n \in Session, One(h)
  PROVE  LET r == Register(h, s, p, n)
         IN  \E g \in HubSet :
                /\ g = h \/ \E b \in Sid \ {s} : h.conn[b].on /\ g = Drop(h, b)
                /\ r.files = g.files /\ r.carry = g.carry /\ r.stop = g.stop
                /\ r.conn[s].held = g.conn[s].held /\ r.conn[s].on
                /\ \A t \in Sid \ {s} : r.conn[t] = g.conn[t]
  <1> DEFINE moved == [h EXCEPT !.owner =
                          [m \in Session |-> IF @[m] = s /\ m # n THEN None ELSE @[m]]]
             before == moved.owner[n]
             stamps == ~Yields(moved, s, p, n)
             alone == IF stamps /\ before \notin {None, s} THEN Drop(moved, before) ELSE moved
             g == IF stamps /\ before \notin {None, s} THEN Drop(h, before) ELSE h
             new == [alone.conn[s] EXCEPT !.on = TRUE, !.pane = p, !.session = n,
                                          !.stamps = stamps, !.token = TRUE, !.quiet = 0, !.turn = "unknown"]
             r == Register(h, s, p, n)
  <1>1. /\ moved.conn = h.conn /\ moved.files = h.files /\ moved.carry = h.carry
        /\ moved.stop = h.stop /\ before = h.owner[n]
    BY DEF HubSet
  <1>2. before \notin {None, s} => before \in Sid \ {s} /\ h.conn[before].on
    BY <1>1 DEF HubSet, One
  <1>. HIDE DEF before
  <1>3. /\ alone.conn = g.conn /\ alone.files = g.files /\ alone.carry = g.carry
        /\ alone.stop = g.stop
    <2>1. CASE stamps /\ before \notin {None, s}
      <3>. HIDE DEF stamps
      <3>1. alone = Drop(moved, before) /\ g = Drop(h, before)
        BY <2>1
      <3>. HIDE DEF alone, g
      <3>2. /\ moved.conn = h.conn /\ moved.files = h.files /\ moved.carry = h.carry
            /\ moved.stop = h.stop
        BY <1>1
      <3> QED BY <3>1, <3>2 DEF Drop, HubSet
    <2>2. CASE ~(stamps /\ before \notin {None, s})
      BY <1>1, <2>2
    <2> QED BY <2>1, <2>2
  <1>4. g \in HubSet
    <2>1. before \notin {None, s} => Drop(h, before) \in HubSet
      BY <1>2, DropHub
    <2> QED BY <2>1
  <1>5. g = h \/ \E b \in Sid \ {s} : h.conn[b].on /\ g = Drop(h, b)
    BY <1>2
  <1>6. r = [alone EXCEPT !.conn[s] = new, !.owner[n] = IF stamps THEN s ELSE @]
    BY DEF Register, before
  <1>. HIDE DEF r, g, stamps
  <1>7. new.held = g.conn[s].held /\ new.on
    <2>1. new = [g.conn[s] EXCEPT !.on = TRUE, !.pane = p, !.session = n, !.stamps = stamps,
                                  !.token = TRUE, !.quiet = 0, !.turn = "unknown"]
      BY <1>3
    <2>2. g.conn[s] \in Conn
      BY <1>4 DEF HubSet
    <2>. HIDE DEF new
    <2>3. new.held = g.conn[s].held
      BY <2>1, <2>2 DEF Conn
    <2>4. new.on
      BY <2>1, <2>2, Zenon DEF Conn
    <2> QED BY <2>3, <2>4
  <1>8. /\ r.conn = [alone.conn EXCEPT ![s] = new] /\ r.files = alone.files
        /\ r.carry = alone.carry /\ r.stop = alone.stop
    <2>1. alone \in HubSet
      <3>1. moved \in HubSet
        <4>1. [m \in Session |-> IF h.owner[m] = s /\ m # n THEN None ELSE h.owner[m]]
                 \in [Session -> Sid \cup {None}]
          BY DEF HubSet
        <4> QED BY <4>1 DEF HubSet
      <3>2. before \notin {None, s} => Drop(moved, before) \in HubSet
        <4>. HIDE DEF moved
        <4> QED BY <1>2, <3>1, DropHub
      <3> QED BY <3>1, <3>2
    <2>. HIDE DEF alone, new
    <2> QED BY <1>6, <2>1 DEF HubSet
  <1>. HIDE DEF new, alone
  <1>9. r.conn[s] = new /\ \A t \in Sid \ {s} : r.conn[t] = g.conn[t]
    BY <1>3, <1>4, <1>8 DEF HubSet
  <1>10. /\ r.files = g.files /\ r.carry = g.carry /\ r.stop = g.stop
         /\ r.conn[s].held = g.conn[s].held /\ r.conn[s].on
    BY <1>3, <1>7, <1>8, <1>9
  <1>11. \E k \in HubSet :
            /\ k = h \/ \E b \in Sid \ {s} : h.conn[b].on /\ k = Drop(h, b)
            /\ r.files = k.files /\ r.carry = k.carry /\ r.stop = k.stop
            /\ r.conn[s].held = k.conn[s].held /\ r.conn[s].on
            /\ \A t \in Sid \ {s} : r.conn[t] = k.conn[t]
    <2>. WITNESS g \in HubSet
    <2> QED BY <1>5, <1>9, <1>10
  <1> QED BY <1>11 DEF r

-----------------------------------------------------------------------------
(* What the hub's helpers keep.                                            *)

LEMMA DropKeeps ==
  ASSUME NEW h \in HubSet, NEW s \in Sid, h.conn[s].on, Shape(h)
  PROVE  Moves(h, Drop(h, s))
  <1> DEFINE d == Drop(h, s)
             c == h.conn[s]
  <1>1. /\ d.files = h.files /\ d.stop.texts = h.stop.texts /\ d.stop.sid = h.stop.sid
        /\ d.stop.late <=> h.stop.late \/ h.stop.sid = s
        /\ d.conn[s] = NoConn /\ \A t \in Sid \ {s} : d.conn[t] = h.conn[t]
        /\ \A p \in Pane : \/ d.carry[p] = h.carry[p]
                           \/ p = c.pane /\ d.carry[p] = [sid |-> s, texts |-> c.held]
    BY DropLists
  <1>. HIDE DEF d
  <1>2. ~d.conn[s].on /\ ~d.conn[s].stamps /\ HeldIn(d, s) = {}
    BY <1>1, Nothing, EmptySet DEF HeldIn
  <1>3. /\ InHand(d) = InHand(h) /\ \A t \in Sid : FileOf(d, t) = FileOf(h, t)
        /\ \A t \in Sid \ {s} : HeldIn(d, t) = HeldIn(h, t)
    BY <1>1 DEF InHand, FileOf, HeldIn
  <1>4. \A p \in Pane :
           \/ d.carry[p].sid = h.carry[p].sid /\ Carried(d, p) = Carried(h, p)
           \/ p = c.pane /\ d.carry[p].sid = s /\ Carried(d, p) = HeldIn(h, s)
    BY <1>1 DEF Carried, HeldIn
  <1>5. Shape(d)
    BY <1>1, <1>2, <1>3, <1>4 DEF Shape
  <1>6. ASSUME NEW x \in Prompt, OnceAt(h, x)
        PROVE  OnceAt(d, x)
    BY <1>2, <1>3, <1>4, <1>6 DEF OnceAt
  <1>7. ASSUME NEW x \in Prompt, OnceAt(h, x), SafeAt(h, x)
        PROVE  SafeAt(d, x)
    BY <1>1, <1>2, <1>3, <1>4, <1>7 DEF SafeAt
  <1>8. ASSUME NEW x \in Prompt, Somewhere(d, x)
        PROVE  Somewhere(h, x)
    BY <1>2, <1>3, <1>4, <1>8 DEF Somewhere
  <1> QED BY <1>5, <1>6, <1>7, <1>8 DEF d, Moves

\* The conversation comes with no carry of its own.
Uncarried(h, s) == \A q \in Pane : h.carry[q].sid # s

LEMMA AdoptKeeps ==
  ASSUME NEW h \in HubSet, NEW s \in Sid, NEW p \in Pane, ~h.conn[s].on, Shape(h), Uncarried(h, s)
  PROVE  LET a == Adopt(h, s, p)
         IN  Moves(h, a) /\ Uncarried(a, s) /\ FileOf(a, s) = HeldIn(a, s)
  <1> DEFINE left == h.carry[p]
             a == Adopt(h, s, p)
  <1>1. left \in Left /\ left.sid \in Sid \cup {None} /\ left.sid # s /\ s # None
    BY NoneAssumption DEF HubSet, Left, Uncarried
  <1>2. /\ a.stop = h.stop
        /\ a.conn[s].on = h.conn[s].on /\ a.conn[s].stamps = h.conn[s].stamps
        /\ \A t \in Sid \ {s} : a.conn[t] = h.conn[t]
        /\ \A q \in Pane \ {p} : a.carry[q] = h.carry[q]
        /\ left.sid = None => /\ a.carry = h.carry /\ a.files = h.files
                              /\ a.conn[s].held = h.files[s]
        /\ left.sid # None =>
              /\ a.carry[p] = NoCarry
              /\ a.conn[s].held = h.files[s] \o left.texts
              /\ a.files[s] = h.files[s] \o left.texts
              /\ a.files[left.sid] = <<>>
              /\ \A t \in Sid \ {s, left.sid} : a.files[t] = h.files[t]
    BY <1>1, AdoptLists
  <1>3. ToSet(h.files[s] \o left.texts) = FileOf(h, s) \cup Carried(h, p)
    <2>1. h.files[s] \in Seq(Prompt) /\ left.texts \in Seq(Prompt)
      BY <1>1 DEF HubSet, Left
    <2> QED BY <2>1, ConcatSet DEF FileOf, Carried
  <1>. HIDE DEF a
  <1>4. /\ InHand(a) = InHand(h) /\ HeldIn(a, s) = FileOf(a, s)
        /\ \A t \in Sid \ {s} : HeldIn(a, t) = HeldIn(h, t)
        /\ \A q \in Pane \ {p} : a.carry[q].sid = h.carry[q].sid /\ Carried(a, q) = Carried(h, q)
    BY <1>2 DEF InHand, HeldIn, FileOf, Carried
  <1>5. CASE left.sid = None
    <2>1. /\ \A t \in Sid : FileOf(a, t) = FileOf(h, t)
          /\ \A q \in Pane : a.carry[q].sid = h.carry[q].sid /\ Carried(a, q) = Carried(h, q)
      BY <1>2, <1>5 DEF FileOf, Carried
    <2>2. Shape(a) /\ Uncarried(a, s)
      BY <1>2, <1>4, <2>1 DEF Shape, Uncarried
    <2>3. ASSUME NEW x \in Prompt, OnceAt(h, x)
          PROVE  OnceAt(a, x)
      BY <1>4, <2>1, <2>3 DEF OnceAt, Uncarried
    <2>4. ASSUME NEW x \in Prompt, SafeAt(h, x)
          PROVE  SafeAt(a, x)
      BY <1>2, <1>4, <2>1, <2>4 DEF SafeAt
    <2>5. ASSUME NEW x \in Prompt, Somewhere(a, x)
          PROVE  Somewhere(h, x)
      BY <1>4, <2>1, <2>5 DEF Somewhere
    <2> QED BY <1>4, <2>2, <2>3, <2>4, <2>5 DEF a, Moves
  <1>6. CASE left.sid # None
    <2> DEFINE u == left.sid
    <2>1. /\ FileOf(a, s) = FileOf(h, s) \cup Carried(h, p) /\ FileOf(a, u) = {}
          /\ \A t \in Sid \ {s, u} : FileOf(a, t) = FileOf(h, t)
          /\ Carried(a, p) = {} /\ a.carry[p].sid = None
      <3>1. a.carry[p].sid = None /\ a.carry[p].texts = <<>>
        BY <1>2, <1>6, Nothing
      <3>2. FileOf(a, s) = FileOf(h, s) \cup Carried(h, p) /\ FileOf(a, u) = {}
        BY <1>2, <1>3, <1>6, EmptySet DEF FileOf
      <3>3. \A t \in Sid \ {s, u} : FileOf(a, t) = FileOf(h, t)
        BY <1>2, <1>6 DEF FileOf
      <3> QED BY <3>1, <3>2, <3>3, EmptySet DEF Carried
    <2>2. Shape(a) /\ Uncarried(a, s)
      BY <1>1, <1>2, <1>4, <2>1, NoneAssumption DEF Shape, Uncarried
    <2>3. ASSUME NEW x \in Prompt, OnceAt(h, x)
          PROVE  OnceAt(a, x)
      <3>1. \A t \in Sid : x \in FileOf(a, t) =>
               (x \in FileOf(h, t) /\ t # u) \/ (t = s /\ x \in Carried(h, p))
        BY <2>1
      <3> QED BY <1>1, <1>4, <1>6, <2>1, <2>3, <3>1 DEF OnceAt, Uncarried
    <2>4. ASSUME NEW x \in Prompt, SafeAt(h, x)
          PROVE  SafeAt(a, x)
      <3>1. x \in InHand(a) \/ \E t \in Sid : x \in FileOf(a, t)
        <4>1. CASE x \in InHand(h)
          BY <1>4, <4>1
        <4>2. CASE x \notin InHand(h)
          <5>1. PICK t \in Sid : x \in FileOf(h, t)
            BY <2>4, <4>2 DEF SafeAt
          <5>2. t = u => x \in Carried(h, p)
            BY <2>4, <5>1 DEF SafeAt
          <5>3. x \in FileOf(a, s) \/ x \in FileOf(a, t)
            BY <2>1, <5>1, <5>2
          <5> QED BY <5>3
        <4> QED BY <4>1, <4>2
      <3>2. ASSUME NEW t \in Sid, a.conn[t].on, x \in FileOf(a, t)
            PROVE  x \in HeldIn(a, t)
        <4>1. t # s => x \in FileOf(h, t) /\ h.conn[t].on
          BY <1>2, <2>1, <3>2
        <4> QED BY <1>4, <2>4, <4>1, <3>2 DEF SafeAt
      <3>3. ASSUME NEW q \in Pane, NEW t \in Sid, a.carry[q].sid = t, x \in FileOf(a, t)
            PROVE  x \in Carried(a, q)
        <4>1. q # p
          BY <2>1, <3>3, NoneAssumption
        <4>2. t # s /\ h.carry[q].sid = t
          BY <1>4, <2>2, <3>3, <4>1 DEF Uncarried
        <4>3. x \in FileOf(h, t)
          BY <2>1, <3>3, <4>2
        <4> QED BY <1>4, <2>4, <4>1, <4>2, <4>3 DEF SafeAt
      <3> QED BY <3>1, <3>2, <3>3 DEF SafeAt
    <2>5. ASSUME NEW x \in Prompt, Somewhere(a, x)
          PROVE  Somewhere(h, x)
      BY <1>1, <1>4, <1>6, <2>1, <2>5 DEF Somewhere
    <2> QED BY <1>4, <2>2, <2>3, <2>4, <2>5 DEF a, Moves
  <1> QED BY <1>5, <1>6

LEMMA SameMoves ==
  ASSUME NEW h, NEW d, SameLists(h, d), Shape(h)
  PROVE  Moves(h, d)
  <1>1. /\ InHand(d) = InHand(h) /\ d.stop = h.stop
        /\ \A s \in Sid : HeldIn(d, s) = HeldIn(h, s) /\ FileOf(d, s) = FileOf(h, s)
        /\ \A p \in Pane : Carried(d, p) = Carried(h, p) /\ d.carry[p] = h.carry[p]
        /\ \A s \in Sid : d.conn[s].on = h.conn[s].on /\ d.conn[s].stamps = h.conn[s].stamps
    BY DEF SameLists, InHand, HeldIn, FileOf, Carried
  <1>2. Shape(d)
    BY <1>1 DEF Shape
  <1>3. \A x \in Prompt : OnceAt(h, x) => OnceAt(d, x)
    BY <1>1 DEF OnceAt
  <1>4. \A x \in Prompt : SafeAt(h, x) => SafeAt(d, x)
    BY <1>1 DEF SafeAt
  <1>5. \A x \in Prompt : Somewhere(d, x) => Somewhere(h, x)
    BY <1>1 DEF Somewhere
  <1> QED BY <1>2, <1>3, <1>4, <1>5 DEF Moves

LEMMA MovesTwice ==
  ASSUME NEW h, NEW g, NEW d, Moves(h, g), Moves(g, d)
  PROVE  Moves(h, d)
  BY DEF Moves

\* A conversation that has just adopted, or has a connection, registers.
LEMMA RegisterKeeps ==
  ASSUME NEW h \in HubSet, NEW s \in Sid, NEW p \in Pane, NEW n \in Session, One(h),
         Shape(h), Uncarried(h, s)
  PROVE  LET r == Register(h, s, p, n)
         IN  /\ Shape(r)
             /\ \A x \in Prompt : OnceAt(h, x) => OnceAt(r, x)
             /\ \A x \in Prompt : OnceAt(h, x) /\ SafeAt(h, x)
                                  /\ (x \in FileOf(h, s) => x \in HeldIn(h, s)) => SafeAt(r, x)
             /\ \A x \in Prompt : Somewhere(r, x) => Somewhere(h, x)
  <1> DEFINE r == Register(h, s, p, n)
  <1>1. PICK g \in HubSet :
           /\ g = h \/ \E b \in Sid \ {s} : h.conn[b].on /\ g = Drop(h, b)
           /\ r.files = g.files /\ r.carry = g.carry /\ r.stop = g.stop
           /\ r.conn[s].held = g.conn[s].held /\ r.conn[s].on
           /\ \A t \in Sid \ {s} : r.conn[t] = g.conn[t]
    BY RegisterLists
  <1>. HIDE DEF r
  <1>2. /\ Moves(h, g) /\ Uncarried(g, s)
        /\ FileOf(g, s) = FileOf(h, s) /\ HeldIn(g, s) = HeldIn(h, s)
    <2>1. CASE g = h
      <3>1. SameLists(h, g)
        BY <2>1 DEF SameLists
      <3> QED BY <2>1, <3>1, SameMoves
    <2>2. ASSUME NEW b \in Sid \ {s}, h.conn[b].on, g = Drop(h, b)
          PROVE  /\ Moves(h, g) /\ Uncarried(g, s)
                 /\ FileOf(g, s) = FileOf(h, s) /\ HeldIn(g, s) = HeldIn(h, s)
      <3>1. Moves(h, g)
        BY <2>2, DropKeeps
      <3>2. /\ g.files = h.files /\ g.conn[s] = h.conn[s]
            /\ \A q \in Pane : g.carry[q] = h.carry[q] \/
                                g.carry[q] = [sid |-> b, texts |-> h.conn[b].held]
        BY <2>2, DropLists
      <3>3. Uncarried(g, s)
        BY <3>2 DEF Uncarried
      <3> QED BY <3>1, <3>2, <3>3 DEF FileOf, HeldIn
    <2> QED BY <1>1, <2>1, <2>2
  <1>3. /\ InHand(r) = InHand(g)
        /\ \A t \in Sid : HeldIn(r, t) = HeldIn(g, t) /\ FileOf(r, t) = FileOf(g, t)
        /\ \A q \in Pane : Carried(r, q) = Carried(g, q) /\ r.carry[q] = g.carry[q]
    BY <1>1 DEF InHand, HeldIn, FileOf, Carried
  <1>4. Shape(r)
    BY <1>1, <1>2, <1>3 DEF Shape, Moves, Uncarried
  <1>5. ASSUME NEW x \in Prompt, OnceAt(h, x)
        PROVE  OnceAt(r, x)
    <2>1. OnceAt(g, x)
      BY <1>2, <1>5 DEF Moves
    <2> QED BY <1>3, <2>1 DEF OnceAt
  <1>6. ASSUME NEW x \in Prompt, OnceAt(h, x), SafeAt(h, x), x \in FileOf(h, s) => x \in HeldIn(h, s)
        PROVE  SafeAt(r, x)
    <2>1. SafeAt(g, x)
      BY <1>2, <1>6 DEF Moves
    <2> QED BY <1>1, <1>2, <1>3, <1>6, <2>1 DEF SafeAt
  <1>7. ASSUME NEW x \in Prompt, Somewhere(r, x)
        PROVE  Somewhere(h, x)
    <2>1. Somewhere(g, x)
      BY <1>3, <1>7 DEF Somewhere
    <2> QED BY <1>2, <2>1 DEF Moves
  <1> QED BY <1>4, <1>5, <1>6, <1>7 DEF r

LEMMA ReleaseLists ==
  ASSUME NEW h \in HubSet, NEW s \in Sid, h.conn[s].turn = "idle", h.conn[s].held # <<>>
  PROVE  LET r == Release(h, s)
         IN  /\ r.carry = h.carry /\ r.stop = h.stop
             /\ r.files[s] = <<>> /\ r.conn[s].held = <<>>
             /\ r.conn[s].on = h.conn[s].on /\ r.conn[s].stamps = h.conn[s].stamps
             /\ \A t \in Sid \ {s} : r.conn[t] = h.conn[t] /\ r.files[t] = h.files[t]
  <1> DEFINE r == Release(h, s)
             c == h.conn[s]
  <1>1. r = [h EXCEPT !.conn[s].held = <<>>, !.conn[s].turn = "on", !.files[s] = <<>>]
    BY DEF Release
  <1>2. /\ r.conn = [[h.conn EXCEPT ![s].held = <<>>] EXCEPT ![s].turn = "on"]
        /\ r.files = [h.files EXCEPT ![s] = <<>>] /\ r.carry = h.carry /\ r.stop = h.stop
    BY <1>1 DEF HubSet
  <1>. HIDE DEF r
  <1>3. /\ r.conn[s] = [c EXCEPT !.held = <<>>, !.turn = "on"]
        /\ \A t \in Sid \ {s} : r.conn[t] = h.conn[t]
        /\ r.files[s] = <<>> /\ \A t \in Sid \ {s} : r.files[t] = h.files[t]
    BY <1>2 DEF HubSet
  <1>4. c \in Conn
    BY DEF HubSet
  <1>. HIDE DEF c
  <1>5. r.conn[s].held = <<>>
    BY <1>3, <1>4 DEF Conn
  <1>6. r.conn[s].on = c.on /\ r.conn[s].stamps = c.stamps
    BY <1>3, <1>4, Zenon DEF Conn
  <1> QED BY <1>2, <1>3, <1>5, <1>6 DEF r, c

-----------------------------------------------------------------------------
(* The actions.                                                            *)

\* A step that gives and takes no prompt.
LEMMA MovesKept ==
  ASSUME HeldInv, UNCHANGED <<sent, given, returned, cut>>,
         cameBack => cameBack', Kept /\ ~cameBack' => Moves(hub, hub')
  PROVE  HeldInv'
  <1>1. given' \in [Prompt -> Nat]
    BY DEF HeldInv
  <1>2. ASSUME ~cameBack' PROVE Kept'
    <2>1. Kept /\ Moves(hub, hub')
      BY <1>2 DEF HeldInv
    <2>2. ASSUME NEW x \in Prompt PROVE PromptAt(hub, x)'
      <3>1. PromptAt(hub, x)
        BY <2>1 DEF Kept
      <3>2. Pending(x)' <=> Pending(x)
        BY DEF Pending
      <3> QED BY <2>1, <3>1, <3>2 DEF PromptAt, Moves
    <2> QED BY <2>1, <2>2 DEF Kept, Moves
  <1> QED BY <1>1, <1>2 DEF HeldInv

\* A step that touches no list.
LEMMA ListsKept ==
  ASSUME HeldInv, UNCHANGED <<sent, given, returned, cut, cameBack>>, SameLists(hub, hub')
  PROVE  HeldInv'
  BY MovesKept, SameMoves DEF Kept

\* What a Release gives: the hub becomes as h after it.
LEMMA ReleaseKept ==
  ASSUME HeldInv, ~cameBack, NEW h \in HubSet, NEW s \in Sid, h.conn[s].on, Shape(h),
         \A x \in Prompt : PromptAt(h, x),
         IF h.conn[s].turn = "idle" THEN Give(h.conn[s].held) ELSE UNCHANGED given,
         SameLists(Release(h, s), hub'), UNCHANGED <<sent, returned, cut>>
  PROVE  given' \in [Prompt -> Nat] /\ Kept'
  <1> DEFINE r == Release(h, s)
             gives == h.conn[s].turn = "idle" /\ h.conn[s].held # <<>>
  <1>1. CASE ~gives
    <2>1. r = h
      BY <1>1 DEF Release
    <2>2. given' = given
      <3>1. CASE h.conn[s].turn = "idle"
        <4>1. HeldIn(h, s) = {}
          BY <1>1, <3>1, EmptySet DEF HeldIn
        <4> QED BY <3>1, <4>1 DEF Give, HeldIn, HeldInv
      <3> QED BY <3>1
    <2>3. Moves(h, hub')
      BY <2>1, SameMoves
    <2>4. ASSUME NEW x \in Prompt PROVE PromptAt(hub, x)'
      <3>1. PromptAt(h, x)
        OBVIOUS
      <3>2. Pending(x)' <=> Pending(x)
        BY <2>2 DEF Pending
      <3> QED BY <2>2, <2>3, <3>1, <3>2 DEF PromptAt, Moves
    <2> QED BY <2>2, <2>3, <2>4 DEF Kept, Moves, HeldInv
  <1>2. CASE gives
    <2>1. /\ r.carry = h.carry /\ r.stop = h.stop
          /\ r.files[s] = <<>> /\ r.conn[s].held = <<>>
          /\ r.conn[s].on = h.conn[s].on /\ r.conn[s].stamps = h.conn[s].stamps
          /\ \A t \in Sid \ {s} : r.conn[t] = h.conn[t] /\ r.files[t] = h.files[t]
      BY <1>2, ReleaseLists
    <2>. HIDE DEF r
    <2>2. /\ InHand(r) = InHand(h) /\ HeldIn(r, s) = {} /\ FileOf(r, s) = {}
          /\ \A t \in Sid \ {s} : HeldIn(r, t) = HeldIn(h, t) /\ FileOf(r, t) = FileOf(h, t)
          /\ \A q \in Pane : Carried(r, q) = Carried(h, q) /\ r.carry[q] = h.carry[q]
      BY <2>1, EmptySet DEF InHand, HeldIn, FileOf, Carried
    <2>3. Shape(r)
      <3>1. \A t \in Sid : (r.conn[t].on <=> h.conn[t].on) /\ (r.conn[t].stamps <=> h.conn[t].stamps)
        BY <2>1
      <3> QED BY <2>1, <2>2, <3>1 DEF Shape
    <2>4. Moves(r, hub')
      BY <2>3, SameMoves DEF r
    <2>5. given' = [x \in Prompt |-> IF x \in HeldIn(h, s) /\ given[x] < 2
                                     THEN given[x] + 1 ELSE given[x]]
      BY <1>2 DEF Give, HeldIn
    <2>6. given \in [Prompt -> Nat] /\ given' \in [Prompt -> Nat]
      BY <2>5 DEF HeldInv
    <2>7. ASSUME NEW x \in Prompt PROVE PromptAt(hub, x)'
      <3>1. PromptAt(h, x)
        OBVIOUS
      <3>2. OnceAt(r, x) /\ (Somewhere(r, x) => Somewhere(h, x))
        BY <2>2, <3>1 DEF OnceAt, Somewhere, PromptAt
      <3>3. OnceAt(hub', x) /\ (Somewhere(hub', x) => Somewhere(r, x))
        BY <2>4, <3>2 DEF Moves
      <3>4. CASE x \in HeldIn(h, s)
        <4>1. x \in sent /\ given[x] = 0 /\ given'[x] = 1
          BY <2>5, <2>6, <3>1, <3>4 DEF PromptAt, Somewhere
        <4>2. ~Somewhere(r, x)
          BY <2>2, <3>1, <3>4 DEF PromptAt, OnceAt, Somewhere
        <4> QED BY <3>3, <4>1, <4>2 DEF PromptAt, Pending
      <3>5. CASE x \notin HeldIn(h, s)
        <4>1. given'[x] = given[x]
          BY <2>5, <3>5
        <4>2. Pending(x)' <=> Pending(x)
          BY <4>1 DEF Pending
        <4>3. Pending(x) => SafeAt(r, x)
          <5> SUFFICES ASSUME SafeAt(h, x) PROVE SafeAt(r, x)
            BY <3>1 DEF PromptAt
          <5>1. x \notin FileOf(h, s)
            BY <3>5 DEF SafeAt
          <5> QED BY <2>1, <2>2, <5>1 DEF SafeAt
        <4>4. Pending(x) => SafeAt(hub', x)
          BY <2>4, <3>2, <4>3 DEF Moves
        <4> QED BY <3>1, <3>2, <3>3, <4>1, <4>2, <4>4 DEF PromptAt
      <3> QED BY <3>4, <3>5
    <2> QED BY <2>4, <2>6, <2>7 DEF Kept, Moves
  <1> QED BY <1>1, <1>2

LEMMA HoldHeld ==
  ASSUME IInv, HeldInv, NEW s \in Sid, NEW y \in Prompt, Hold(s, y)
  PROVE  HeldInv'
  <1> DEFINE t == Append(hub.conn[s].held, y)
  <1>1. /\ y \notin sent /\ sent' = sent \cup {y} /\ hub.conn[s].stamps
        /\ UNCHANGED <<given, returned, cut, cameBack>>
        /\ hub' = [hub EXCEPT !.conn[s].held = t, !.files[s] = t]
    BY DEF Hold
  <1>2. hub.conn[s] \in Conn /\ hub.conn[s].held \in Seq(Prompt)
    BY TypeFacts, HeldType
  <1>3. ToSet(t) = HeldIn(hub, s) \cup {y}
    BY <1>2, AppendSet DEF HeldIn
  <1>. HIDE DEF t
  <1>4. /\ hub'.conn = [hub.conn EXCEPT ![s].held = t] /\ hub'.files = [hub.files EXCEPT ![s] = t]
        /\ hub'.carry = hub.carry /\ hub'.stop = hub.stop
    BY <1>1, TypeFacts DEF HubSet
  <1>5. /\ hub'.conn[s] = [hub.conn[s] EXCEPT !.held = t] /\ hub'.files[s] = t
        /\ \A u \in Sid \ {s} : hub'.conn[u] = hub.conn[u] /\ hub'.files[u] = hub.files[u]
    BY <1>4, TypeFacts DEF HubSet
  <1>6. hub'.conn[s].held = t
    BY <1>2, <1>5 DEF Conn
  <1>7. hub'.conn[s].on = hub.conn[s].on /\ hub'.conn[s].stamps = hub.conn[s].stamps
    BY <1>2, <1>5, Zenon DEF Conn
  <1>8. /\ InHand(hub') = InHand(hub)
        /\ HeldIn(hub', s) = HeldIn(hub, s) \cup {y} /\ FileOf(hub', s) = HeldIn(hub, s) \cup {y}
        /\ \A u \in Sid \ {s} : HeldIn(hub', u) = HeldIn(hub, u) /\ FileOf(hub', u) = FileOf(hub, u)
        /\ \A q \in Pane : Carried(hub', q) = Carried(hub, q) /\ hub'.carry[q] = hub.carry[q]
    BY <1>3, <1>4, <1>5, <1>6 DEF InHand, HeldIn, FileOf, Carried
  <1>9. ASSUME ~cameBack' PROVE Kept'
    <2>1. Kept
      BY <1>1, <1>9 DEF HeldInv
    <2>2. hub.conn[s].on /\ Shape(hub')
      BY <1>1, <1>4, <1>5, <1>7, <1>8, <2>1 DEF Kept, Shape
    <2>3. ASSUME NEW x \in Prompt PROVE PromptAt(hub, x)'
      <3>1. PromptAt(hub, x)
        BY <2>1 DEF Kept
      <3>2. CASE x = y
        <4>1. ~Somewhere(hub, x) /\ given[x] = 0
          BY <1>1, <3>1, <3>2, <1>1 DEF PromptAt, HeldInv
        <4>2. OnceAt(hub', x)
          BY <1>8, <3>2, <4>1 DEF OnceAt, Somewhere
        <4>3. SafeAt(hub', x)
          BY <1>8, <2>1, <2>2, <3>2, <4>1 DEF SafeAt, Somewhere, Kept, Shape
        <4> QED BY <1>1, <3>1, <3>2, <4>1, <4>2, <4>3 DEF PromptAt
      <3>3. CASE x # y
        <4>1. OnceAt(hub', x) /\ (Somewhere(hub', x) => Somewhere(hub, x))
          BY <1>8, <3>1, <3>3 DEF OnceAt, Somewhere, PromptAt
        <4>2. SafeAt(hub, x) => SafeAt(hub', x)
          BY <1>5, <1>7, <1>8, <2>1, <2>2, <3>1, <3>3 DEF SafeAt, PromptAt, OnceAt, Kept, Shape
        <4>3. Pending(x)' <=> Pending(x)
          BY <1>1, <3>3 DEF Pending
        <4> QED BY <1>1, <3>1, <4>1, <4>2, <4>3 DEF PromptAt
      <3> QED BY <3>2, <3>3
    <2> QED BY <2>2, <2>3 DEF Kept
  <1> QED BY <1>1, <1>9 DEF HeldInv

LEMMA TakeHeldHeld ==
  ASSUME IInv, HeldInv, NEW n \in Session, TakeHeld(n)
  PROVE  HeldInv'
  <1> DEFINE s == hub.owner[n]
             st == [sid |-> s, texts |-> hub.conn[s].held, late |-> FALSE]
  <1>1. /\ s # None /\ hub.stop.sid = None /\ UNCHANGED <<sent, given, returned, cut, cameBack>>
        /\ hub' = [hub EXCEPT !.conn[s].held = <<>>, !.files[s] = <<>>, !.stop = st]
    BY DEF TakeHeld, ghostVars
  <1>2. s \in Sid /\ hub.conn[s].on /\ hub.conn[s] \in Conn
    BY <1>1, TypeFacts DEF IInv, One
  <1>3. st.sid = s /\ st.texts = hub.conn[s].held
    OBVIOUS
  <1>. HIDE DEF st
  <1>4. /\ hub'.conn = [hub.conn EXCEPT ![s].held = <<>>]
        /\ hub'.files = [hub.files EXCEPT ![s] = <<>>]
        /\ hub'.carry = hub.carry /\ hub'.stop = st
    BY <1>1, TypeFacts DEF HubSet
  <1>. HIDE DEF s
  <1>5. /\ hub'.conn[s] = [hub.conn[s] EXCEPT !.held = <<>>] /\ hub'.files[s] = <<>>
        /\ \A u \in Sid \ {s} : hub'.conn[u] = hub.conn[u] /\ hub'.files[u] = hub.files[u]
    BY SMTT(20), <1>2, <1>4, TypeFacts DEF HubSet
  <1>6. hub'.conn[s].held = <<>>
    BY <1>2, <1>5 DEF Conn
  <1>7. (hub'.conn[s].on <=> hub.conn[s].on) /\ (hub'.conn[s].stamps <=> hub.conn[s].stamps)
    BY <1>2, <1>5, ZenonT(30) DEF Conn
  <1>8. /\ InHand(hub') = HeldIn(hub, s) /\ HeldIn(hub', s) = {} /\ FileOf(hub', s) = {}
        /\ \A u \in Sid \ {s} : HeldIn(hub', u) = HeldIn(hub, u) /\ FileOf(hub', u) = FileOf(hub, u)
        /\ \A q \in Pane : Carried(hub', q) = Carried(hub, q) /\ hub'.carry[q] = hub.carry[q]
    BY <1>3, <1>4, <1>5, <1>6, EmptySet DEF InHand, HeldIn, FileOf, Carried
  <1>9. ASSUME Kept PROVE Moves(hub, hub')
    <2>1. InHand(hub) = {}
      BY <1>1, <1>9 DEF Kept, Shape
    <2>2. Shape(hub')
      BY <1>2, <1>3, <1>4, <1>5, <1>7, <1>8, <1>9, NoneAssumption DEF Kept, Shape
    <2>3. ASSUME NEW x \in Prompt, OnceAt(hub, x)
          PROVE  OnceAt(hub', x)
      BY <1>2, <1>8, <2>3 DEF OnceAt
    <2>4. ASSUME NEW x \in Prompt, SafeAt(hub, x)
          PROVE  SafeAt(hub', x)
      BY <1>2, <1>5, <1>8, <2>1, <2>4 DEF SafeAt
    <2>5. ASSUME NEW x \in Prompt, Somewhere(hub', x)
          PROVE  Somewhere(hub, x)
      BY <1>2, <1>8, <2>5 DEF Somewhere
    <2> QED BY <2>2, <2>3, <2>4, <2>5 DEF Moves
  <1> QED BY <1>1, <1>9, MovesKept

LEMMA StoppedHeld ==
  ASSUME IInv, HeldInv, Stopped
  PROVE  HeldInv'
  <1>1. /\ returned' = returned \cup InHand(hub) /\ UNCHANGED <<sent, given, cut, cameBack>>
        /\ hub' = [hub EXCEPT !.stop = NoStop]
    BY DEF Stopped, InHand
  <1>2. /\ hub'.conn = hub.conn /\ hub'.files = hub.files /\ hub'.carry = hub.carry
        /\ hub'.stop = NoStop
    BY <1>1, TypeFacts DEF HubSet
  <1>3. /\ InHand(hub') = {} /\ hub'.stop.sid = None
        /\ \A u \in Sid : HeldIn(hub', u) = HeldIn(hub, u) /\ FileOf(hub', u) = FileOf(hub, u)
        /\ \A q \in Pane : Carried(hub', q) = Carried(hub, q)
    BY <1>2, Nothing, EmptySet DEF InHand, HeldIn, FileOf, Carried
  <1>4. ASSUME ~cameBack' PROVE Kept'
    <2>1. Kept
      BY <1>1, <1>4 DEF HeldInv
    <2>2. Shape(hub')
      BY <1>2, <1>3, <2>1, NoneAssumption DEF Kept, Shape
    <2>3. ASSUME NEW x \in Prompt PROVE PromptAt(hub, x)'
      <3>1. PromptAt(hub, x)
        BY <2>1 DEF Kept
      <3>2. OnceAt(hub', x) /\ (Somewhere(hub', x) => Somewhere(hub, x))
        BY <1>2, <1>3, <3>1 DEF OnceAt, Somewhere, PromptAt
      <3>3. ASSUME Pending(x)' PROVE SafeAt(hub', x)
        <4>1. Pending(x) /\ x \notin InHand(hub)
          BY <1>1, <3>3 DEF Pending
        <4> QED BY <1>2, <1>3, <3>1, <4>1 DEF PromptAt, SafeAt
      <3> QED BY <1>1, <3>1, <3>2, <3>3 DEF PromptAt
    <2> QED BY <2>2, <2>3 DEF Kept
  <1> QED BY <1>1, <1>4 DEF HeldInv

LEMMA LatePutBackHeld ==
  ASSUME IInv, HeldInv, PutBack, hub.stop.late
  PROVE  HeldInv'
  <1> DEFINE st == hub.stop
             s == st.sid
             h == [hub EXCEPT !.stop = NoStop]
  <1>1. /\ s # None /\ UNCHANGED <<sent, given, returned, cameBack>>
        /\ hub' = [h EXCEPT !.files[s] = st.texts]
        /\ cut' = cut \cup ToSet(st.texts \o h.files[s])
    BY DEF PutBack
  <1>2. s \in Sid /\ st.texts \in Seq(Prompt)
    BY <1>1, TypeFacts DEF HubSet
  <1>3. h.files = hub.files /\ h.conn = hub.conn /\ h.carry = hub.carry /\ h.stop = NoStop
    BY TypeFacts DEF HubSet
  <1>. HIDE DEF h
  <1>4. /\ hub'.files = [hub.files EXCEPT ![s] = st.texts] /\ hub'.conn = hub.conn
        /\ hub'.carry = hub.carry /\ hub'.stop = NoStop
    <2>1. h \in HubSet
      BY TypeFacts, NoStopType DEF h, HubSet
    <2> QED BY <1>1, <1>3, <2>1 DEF HubSet
  <1>5. cut' = cut \cup InHand(hub) \cup FileOf(hub, s)
    <2>1. hub.files[s] \in Seq(Prompt)
      BY <1>2, TypeFacts DEF HubSet
    <2> QED BY <1>1, <1>2, <1>3, <2>1, ConcatSet DEF InHand, FileOf
  <1>6. /\ InHand(hub') = {} /\ hub'.stop.sid = None /\ FileOf(hub', s) = InHand(hub)
        /\ \A u \in Sid : HeldIn(hub', u) = HeldIn(hub, u)
        /\ \A u \in Sid \ {s} : FileOf(hub', u) = FileOf(hub, u)
        /\ \A q \in Pane : Carried(hub', q) = Carried(hub, q)
    <2>1. hub'.files[s] = st.texts /\ \A u \in Sid \ {s} : hub'.files[u] = hub.files[u]
      BY <1>2, <1>4, TypeFacts DEF HubSet
    <2> QED BY <1>4, <2>1, Nothing, EmptySet DEF InHand, HeldIn, FileOf, Carried
  <1>. HIDE DEF s, st
  <1>7. ASSUME ~cameBack' PROVE Kept'
    <2>1. Kept
      BY <1>1, <1>7 DEF HeldInv
    <2>2. Shape(hub')
      BY <1>4, <1>6, <2>1, NoneAssumption DEF Kept, Shape
    <2>3. ASSUME NEW x \in Prompt PROVE PromptAt(hub, x)'
      <3>1. PromptAt(hub, x)
        BY <2>1 DEF Kept
      <3>2. OnceAt(hub', x) /\ (Somewhere(hub', x) => Somewhere(hub, x))
        BY <1>2, <1>4, <1>6, <3>1 DEF OnceAt, Somewhere, PromptAt
      <3>3. ASSUME Pending(x)' PROVE SafeAt(hub', x)
        <4>1. Pending(x) /\ x \notin InHand(hub) /\ x \notin FileOf(hub, s)
          BY <1>1, <1>5, <3>3 DEF Pending
        <4> QED BY <1>2, <1>4, <1>6, <3>1, <4>1 DEF PromptAt, SafeAt
      <3> QED BY <1>1, <3>1, <3>2, <3>3 DEF PromptAt
    <2> QED BY <2>2, <2>3 DEF Kept
  <1> QED BY <1>1, <1>7 DEF HeldInv

LEMMA PutBackHeld ==
  ASSUME IInv, HeldInv, PutBack, ~hub.stop.late
  PROVE  HeldInv'
  <1> DEFINE st == hub.stop
             s == st.sid
             h == [hub EXCEPT !.stop = NoStop]
             t == st.texts \o h.conn[s].held
             back == [h EXCEPT !.conn[s].held = t, !.files[s] = t]
  <1>1. /\ s # None /\ UNCHANGED <<sent, returned, cut, cameBack>>
        /\ hub' = Release(back, s)
        /\ IF h.conn[s].turn = "idle" THEN Give(t) ELSE UNCHANGED given
    BY DEF PutBack
  <1>2. s \in Sid /\ st.texts \in Seq(Prompt)
    BY <1>1, TypeFacts DEF HubSet
  <1>3. /\ h.files = hub.files /\ h.conn = hub.conn /\ h.carry = hub.carry /\ h.stop = NoStop
        /\ h \in HubSet
    BY TypeFacts, NoStopType DEF HubSet
  <1>. HIDE DEF h
  <1>4. hub.conn[s] \in Conn /\ hub.conn[s].held \in Seq(Prompt) /\ t \in Seq(Prompt)
    BY <1>2, <1>3, TypeFacts, HeldType
  <1>5. ToSet(t) = InHand(hub) \cup HeldIn(hub, s)
    BY <1>2, <1>3, <1>4, ConcatSet DEF InHand, HeldIn
  <1>. HIDE DEF t
  <1>6. /\ back.conn = [hub.conn EXCEPT ![s].held = t] /\ back.files = [hub.files EXCEPT ![s] = t]
        /\ back.carry = hub.carry /\ back.stop = NoStop /\ back.owner = h.owner
    BY <1>3 DEF HubSet
  <1>7. back \in HubSet
    <2>1. /\ [hub.conn EXCEPT ![s].held = t] \in [Sid -> Conn]
          /\ [hub.files EXCEPT ![s] = t] \in [Sid -> Seq(Prompt)]
      BY <1>2, <1>4, TypeFacts, HeldSet DEF HubSet
    <2> QED BY <1>3, <1>6, <2>1 DEF HubSet
  <1>. HIDE DEF back, s, st
  <1>8. /\ back.conn[s] = [hub.conn[s] EXCEPT !.held = t] /\ back.files[s] = t
        /\ \A u \in Sid \ {s} : back.conn[u] = hub.conn[u] /\ back.files[u] = hub.files[u]
    BY <1>2, <1>6, TypeFacts DEF HubSet
  <1>9. back.conn[s].held = t /\ back.conn[s].turn = h.conn[s].turn
    BY <1>3, <1>4, <1>8 DEF Conn
  <1>10. (back.conn[s].on <=> hub.conn[s].on) /\ (back.conn[s].stamps <=> hub.conn[s].stamps)
    BY <1>4, <1>8, Zenon DEF Conn
  <1>11. /\ InHand(back) = {} /\ back.stop.sid = None
         /\ HeldIn(back, s) = InHand(hub) \cup HeldIn(hub, s)
         /\ FileOf(back, s) = InHand(hub) \cup HeldIn(hub, s)
         /\ \A u \in Sid \ {s} : HeldIn(back, u) = HeldIn(hub, u) /\ FileOf(back, u) = FileOf(hub, u)
         /\ \A q \in Pane : Carried(back, q) = Carried(hub, q) /\ back.carry[q] = hub.carry[q]
    BY <1>5, <1>6, <1>8, <1>9, Nothing, EmptySet DEF InHand, HeldIn, FileOf, Carried
  <1>12. SameLists(Release(back, s), hub')
    BY <1>1 DEF SameLists
  <1>13. ASSUME ~cameBack PROVE given' \in [Prompt -> Nat] /\ Kept'
    <2>1. Kept
      BY <1>13 DEF HeldInv
    <2>2. hub.conn[s].on
      BY <1>2, <2>1 DEF Kept, Shape, s, st
    <2>3. back.conn[s].on /\ Shape(back)
      <3>1. \A u \in Sid : /\ back.conn[u].on <=> hub.conn[u].on
                           /\ back.conn[u].stamps <=> hub.conn[u].stamps
        BY <1>8, <1>10
      <3> QED BY <1>2, <1>11, <2>1, <2>2, <3>1, NoneAssumption DEF Kept, Shape
    <2>4. ASSUME NEW x \in Prompt PROVE PromptAt(back, x)
      <3>1. PromptAt(hub, x)
        BY <2>1 DEF Kept
      <3>2. OnceAt(back, x) /\ (Somewhere(back, x) => Somewhere(hub, x))
        BY <1>2, <1>11, <3>1 DEF OnceAt, Somewhere, PromptAt
      <3>3. ASSUME SafeAt(hub, x) PROVE SafeAt(back, x)
        <4>1. OnceAt(hub, x) /\ \A q \in Pane : hub.carry[q].sid # s
          BY <1>2, <2>1, <2>2, <3>1 DEF PromptAt, Kept, Shape
        <4> QED BY <1>2, <1>8, <1>11, <2>2, <3>3, <4>1 DEF SafeAt, OnceAt
      <3> QED BY <3>1, <3>2, <3>3 DEF PromptAt
    <2>5. IF back.conn[s].turn = "idle" THEN Give(back.conn[s].held) ELSE UNCHANGED given
      BY <1>1, <1>9
    <2> QED BY <1>1, <1>2, <1>7, <1>12, <1>13, <2>3, <2>4, <2>5, ReleaseKept
  <1>14. given' \in [Prompt -> Nat]
    BY <1>1 DEF Give, HeldInv
  <1> QED BY <1>1, <1>13, <1>14 DEF HeldInv

\* A step that drops a connection.
LEMMA DroppedHeld ==
  ASSUME IInv, HeldInv, NEW s \in Sid, hub.conn[s].on \/ hub.conn[s].stamps, hub' = Drop(hub, s),
         UNCHANGED ghostVars
  PROVE  HeldInv'
  <1>1. Kept => Moves(hub, hub')
    BY DropKeeps DEF Kept, Shape, IInv
  <1> QED BY <1>1, MovesKept DEF ghostVars

LEMMA RestartHeld ==
  ASSUME IInv, HeldInv, Restart
  PROVE  HeldInv'
  <1>1. /\ cut' = cut \cup InHand(hub) /\ UNCHANGED <<sent, given, returned, cameBack>>
        /\ hub' = [hub EXCEPT !.conn = [s \in Sid |-> NoConn], !.owner = [n \in Session |-> None],
                              !.carry = [p \in Pane |-> NoCarry], !.stop = NoStop]
    BY DEF Restart, InHand
  <1>2. /\ hub'.conn = [s \in Sid |-> NoConn] /\ hub'.carry = [p \in Pane |-> NoCarry]
        /\ hub'.stop = NoStop /\ hub'.files = hub.files
    BY <1>1, TypeFacts DEF HubSet
  <1>3. /\ \A u \in Sid : hub'.conn[u] = NoConn /\ \A q \in Pane : hub'.carry[q] = NoCarry
    BY <1>2
  <1>4. /\ InHand(hub') = {}
        /\ \A u \in Sid : HeldIn(hub', u) = {} /\ FileOf(hub', u) = FileOf(hub, u)
        /\ \A q \in Pane : Carried(hub', q) = {}
    BY <1>2, <1>3, Nothing, EmptySet DEF InHand, HeldIn, FileOf, Carried
  <1>5. Shape(hub')
    BY <1>2, <1>3, <1>4, Nothing, NoneAssumption DEF Shape
  <1>6. ASSUME ~cameBack' PROVE Kept'
    <2>1. ASSUME NEW x \in Prompt PROVE PromptAt(hub, x)'
      <3>1. PromptAt(hub, x)
        BY <1>1, <1>6 DEF Kept, HeldInv
      <3>2. OnceAt(hub', x) /\ (Somewhere(hub', x) => Somewhere(hub, x))
        BY <1>4, <3>1 DEF OnceAt, Somewhere, PromptAt
      <3>3. ASSUME Pending(x)' PROVE SafeAt(hub', x)
        <4>1. Pending(x) /\ x \notin InHand(hub)
          BY <1>1, <3>3 DEF Pending
        <4> QED BY <1>3, <1>4, <3>1, <4>1, Nothing, NoneAssumption DEF PromptAt, SafeAt
      <3> QED BY <1>1, <3>1, <3>2, <3>3 DEF PromptAt
    <2> QED BY <1>5, <2>1 DEF Kept
  <1> QED BY <1>1, <1>6 DEF HeldInv

\* A step that changes of one connection what is not its list or its place.
LEMMA OneTouched ==
  ASSUME NEW h \in HubSet, NEW s \in Sid, NEW g, NEW d,
         g.conn = [h.conn EXCEPT ![s] = d],
         g.files = h.files, g.carry = h.carry, g.stop = h.stop,
         d.held = h.conn[s].held, d.on = h.conn[s].on, d.stamps = h.conn[s].stamps
  PROVE  SameLists(h, g)
  <1>1. g.conn[s] = d /\ \A t \in Sid \ {s} : g.conn[t] = h.conn[t]
    BY DEF HubSet
  <1> QED BY <1>1 DEF SameLists

LEMMA FollowHeld ==
  ASSUME IInv, HeldInv, NEW s \in Sid, Follow(s)
  PROVE  HeldInv'
  <1> DEFINE d == [hub.conn[s] EXCEPT !.token = FALSE]
  <1>1. hub' = [hub EXCEPT !.conn[s].token = FALSE] /\ UNCHANGED ghostVars
    BY DEF Follow
  <1>2. /\ hub'.conn = [hub.conn EXCEPT ![s] = d] /\ hub'.files = hub.files
        /\ hub'.carry = hub.carry /\ hub'.stop = hub.stop
    BY <1>1, TypeFacts DEF HubSet
  <1>3. hub.conn[s] \in Conn
    BY TypeFacts
  <1>4. d.held = hub.conn[s].held
    BY <1>3 DEF Conn
  <1>5. d.on = hub.conn[s].on /\ d.stamps = hub.conn[s].stamps
    BY <1>3, Zenon DEF Conn
  <1>. HIDE DEF d
  <1>6. hub \in HubSet
    BY TypeFacts
  <1>7. SameLists(hub, hub')
    BY <1>2, <1>4, <1>5, <1>6, OneTouched
  <1> QED BY <1>1, <1>7, ListsKept DEF ghostVars

LEMMA QuietHeld ==
  ASSUME IInv, HeldInv, NEW s \in Sid, Quiet(s)
  PROVE  HeldInv'
  <1> DEFINE d == [hub.conn[s] EXCEPT !.quiet = hub.conn[s].quiet + 1]
  <1>1. hub' = [hub EXCEPT !.conn[s].quiet = @ + 1] /\ UNCHANGED ghostVars
    BY DEF Quiet
  <1>2. /\ hub'.conn = [hub.conn EXCEPT ![s] = d] /\ hub'.files = hub.files
        /\ hub'.carry = hub.carry /\ hub'.stop = hub.stop
    BY <1>1, TypeFacts DEF HubSet
  <1>3. hub.conn[s] \in Conn
    BY TypeFacts
  <1>4. d.held = hub.conn[s].held
    BY <1>3 DEF Conn
  <1>5. d.on = hub.conn[s].on /\ d.stamps = hub.conn[s].stamps
    BY <1>3, Zenon DEF Conn
  <1>. HIDE DEF d
  <1>6. hub \in HubSet
    BY TypeFacts
  <1>7. SameLists(hub, hub')
    BY <1>2, <1>4, <1>5, <1>6, OneTouched
  <1> QED BY <1>1, <1>7, ListsKept DEF ghostVars

LEMMA ClaimIfFreeHeld ==
  ASSUME IInv, HeldInv, NEW p \in Pane, ClaimIfFree(p)
  PROVE  HeldInv'
  <1> DEFINE s == claude[p]
             c == hub.conn[s]
             o == hub.owner[c.session]
             keeps == o # None /\ (o = s \/ hub.conn[o].quiet = 0)
             d == [c EXCEPT !.quiet = 0, !.token = keeps]
  <1>1. /\ linked[p] /\ hub' = [hub EXCEPT !.conn[s].quiet = 0, !.conn[s].token = keeps]
        /\ UNCHANGED ghostVars
    BY DEF ClaimIfFree
  <1>2. s \in Sid /\ c \in Conn
    BY <1>1, TypeFacts
  <1>. HIDE DEF keeps
  <1>3. /\ hub'.conn = [[hub.conn EXCEPT ![s].quiet = 0] EXCEPT ![s].token = keeps]
        /\ hub'.files = hub.files /\ hub'.carry = hub.carry /\ hub'.stop = hub.stop
    BY <1>1, TypeFacts DEF HubSet
  <1>4. hub'.conn = [hub.conn EXCEPT ![s] = d]
    BY <1>2, <1>3, TypeFacts
  <1>5. d.held = c.held
    BY <1>2 DEF Conn
  <1>6. d.on = c.on /\ d.stamps = c.stamps
    BY <1>2, Zenon DEF Conn
  <1>. HIDE DEF d
  <1> QED BY <1>1, <1>2, <1>3, <1>4, <1>5, <1>6, TypeFacts, OneTouched, ListsKept DEF ghostVars

LEMMA LevelHeld ==
  ASSUME IInv, HeldInv, NEW p \in Pane, NEW turn \in {"idle", "on"}, Level(p, turn)
  PROVE  HeldInv'
  <1> DEFINE s == claude[p]
             c == hub.conn[s]
             fold == [hub EXCEPT !.conn[s].quiet = 0, !.conn[s].turn = turn,
                                 !.conn[s].written = turn]
             write == c.turn = "unknown" \/ c.written # turn
             d == [c EXCEPT !.quiet = 0, !.turn = turn, !.written = turn]
             rel == Release(fold, s)
             gone == ~(write /\ Lost(c))
             e == [rel.conn[s] EXCEPT !.token = gone]
  <1>1. /\ linked[p] /\ c.stamps /\ UNCHANGED <<sent, returned, cut, cameBack>>
        /\ hub' = [rel EXCEPT !.conn[s].token = gone]
        /\ IF turn = "idle" THEN Give(c.held) ELSE UNCHANGED given
    BY DEF Level
  <1>2. s \in Sid /\ c \in Conn
    BY <1>1, TypeFacts
  <1>3. /\ fold.conn = [[[hub.conn EXCEPT ![s].quiet = 0] EXCEPT ![s].turn = turn]
                             EXCEPT ![s].written = turn]
        /\ fold.owner = hub.owner /\ fold.files = hub.files /\ fold.carry = hub.carry
        /\ fold.stop = hub.stop
    BY TypeFacts DEF HubSet
  <1>4. fold.conn = [hub.conn EXCEPT ![s] = d]
    BY <1>2, <1>3, TypeFacts
  <1>5. d \in Conn /\ Alike(c, d)
    BY <1>2, LevelSet
  <1>6. fold \in HubSet
    <2>1. [hub.conn EXCEPT ![s] = d] \in [Sid -> Conn]
      BY <1>2, <1>5, TypeFacts
    <2> QED BY <1>3, <1>4, <2>1, TypeFacts DEF HubSet
  <1>7. d.held = c.held /\ d.turn = turn
    BY <1>2 DEF Conn
  <1>. HIDE DEF fold, gone, write, d
  <1>8. fold.conn[s] = d
    BY <1>2, <1>4, TypeFacts
  <1>9. SameLists(hub, fold)
    <2>1. hub \in HubSet /\ d.held = hub.conn[s].held
      BY <1>7, TypeFacts
    <2>2. d.on = hub.conn[s].on /\ d.stamps = hub.conn[s].stamps
      BY <1>5 DEF Alike
    <2>. HIDE DEF s
    <2> QED BY <1>2, <1>3, <1>4, <2>1, <2>2, OneTouched
  <1>10. rel \in HubSet
    BY <1>2, <1>6, ReleaseHub
  <1>. HIDE DEF rel
  <1>11. SameLists(rel, hub')
    <2>1. /\ hub'.conn = [rel.conn EXCEPT ![s] = e] /\ hub'.files = rel.files
          /\ hub'.carry = rel.carry /\ hub'.stop = rel.stop
      BY <1>1, <1>10 DEF HubSet
    <2>2. rel.conn[s] \in Conn
      BY <1>2, <1>10 DEF HubSet
    <2>3. e.held = rel.conn[s].held
      BY <2>2 DEF Conn
    <2>4. e.on = rel.conn[s].on /\ e.stamps = rel.conn[s].stamps
      BY <2>2, Zenon DEF Conn
    <2>. HIDE DEF e
    <2> QED BY <1>2, <1>10, <2>1, <2>3, <2>4, OneTouched
  <1>12. ASSUME ~cameBack PROVE given' \in [Prompt -> Nat] /\ Kept'
    <2>1. Kept
      BY <1>12 DEF HeldInv
    <2>2. Moves(hub, fold) /\ c.on
      BY <1>1, <1>2, <1>9, <2>1, SameMoves DEF Kept, Shape
    <2>3. fold.conn[s].on /\ Shape(fold)
      BY <1>5, <1>8, <2>2 DEF Alike, Moves
    <2>4. ASSUME NEW x \in Prompt PROVE PromptAt(fold, x)
      BY <2>1, <2>2 DEF Kept, PromptAt, Moves
    <2>5. IF fold.conn[s].turn = "idle" THEN Give(fold.conn[s].held) ELSE UNCHANGED given
      BY <1>1, <1>7, <1>8
    <2> QED BY <1>1, <1>2, <1>6, <1>11, <1>12, <2>3, <2>4, <2>5, ReleaseKept DEF rel
  <1>13. given' \in [Prompt -> Nat]
    BY <1>1 DEF Give, HeldInv
  <1> QED BY <1>1, <1>12, <1>13 DEF HeldInv

\* A hello registers: of a connection that is there, or of a new one, which may put out
\* another and adopts what is carried.
LEMMA HelloHeld ==
  ASSUME IInv, HeldInv, NEW p \in Pane, HelloRegisters(p)
  PROVE  HeldInv'
  <1> DEFINE s == asking[p].sid
             n == asking[p].session
  <1>1. s \in Sid /\ n \in Session /\ UNCHANGED <<sent, given, returned, cut>>
    BY TypeFacts DEF HelloRegisters
  <1>2. hub \in HubSet /\ One(hub)
    BY DEF IInv
  <1>3. given' \in [Prompt -> Nat]
    BY <1>1 DEF HeldInv
  <1>4. \A x \in Prompt : Pending(x)' <=> Pending(x)
    BY <1>1 DEF Pending
  <1>5. CASE hub.conn[s].on
    <2>1. hub' = Register(hub, s, p, n) /\ cameBack' = cameBack
      BY <1>5 DEF HelloRegisters
    <2>. HIDE DEF s, n
    <2>2. ASSUME ~cameBack' PROVE Kept'
      <3>1. Kept
        BY <2>1, <2>2 DEF HeldInv
      <3>2. Uncarried(hub, s)
        BY <1>1, <1>5, <3>1 DEF Kept, Shape, Uncarried
      <3>3. /\ Shape(hub')
            /\ \A x \in Prompt : OnceAt(hub, x) => OnceAt(hub', x)
            /\ \A x \in Prompt : OnceAt(hub, x) /\ SafeAt(hub, x)
                     /\ (x \in FileOf(hub, s) => x \in HeldIn(hub, s)) => SafeAt(hub', x)
            /\ \A x \in Prompt : Somewhere(hub', x) => Somewhere(hub, x)
        BY <1>1, <1>2, <2>1, <3>1, <3>2, RegisterKeeps DEF Kept
      <3>4. ASSUME NEW x \in Prompt PROVE PromptAt(hub, x)'
        <4>1. PromptAt(hub, x)
          BY <3>1 DEF Kept
        <4>2. SafeAt(hub, x) => (x \in FileOf(hub, s) => x \in HeldIn(hub, s))
          BY <1>1, <1>5 DEF SafeAt
        <4> QED BY <1>1, <1>4, <3>3, <4>1, <4>2 DEF PromptAt
      <3> QED BY <3>3, <3>4 DEF Kept
    <2> QED BY <1>3, <2>2 DEF HeldInv
  <1>6. CASE ~hub.conn[s].on
    <2>1. PICK v \in Victims :
             hub' = Register(Adopt(IF v = None THEN hub ELSE Drop(hub, v), s, p), s, p, n)
      BY <1>6 DEF HelloRegisters
    <2>2. cameBack' = (cameBack \/ \E q \in Pane : hub.carry[q].sid = s)
      BY <1>6 DEF HelloRegisters
    <2>. HIDE DEF s, n
    <2> DEFINE g == IF v = None THEN hub ELSE Drop(hub, v)
               h == Adopt(g, s, p)
    <2>3. ASSUME ~cameBack' PROVE Kept'
      <3>1. Kept /\ Uncarried(hub, s)
        BY <2>2, <2>3 DEF HeldInv, Uncarried
      <3>2. g \in HubSet /\ One(g) /\ ~g.conn[s].on /\ Moves(hub, g) /\ Uncarried(g, s)
        <4>1. CASE v = None
          <5>1. SameLists(hub, hub)
            BY DEF SameLists
          <5> QED BY <1>2, <1>6, <3>1, <4>1, <5>1, SameMoves DEF Kept
        <4>2. CASE v # None
          <5>1. v \in Sid /\ hub.conn[v].on /\ v # s
            BY <1>6, <4>2 DEF Victims, Registered
          <5>2. g = Drop(hub, v)
            BY <4>2
          <5>. HIDE DEF g
          <5>3. g \in HubSet /\ One(g) /\ Moves(hub, g)
            BY <1>2, <3>1, <5>1, <5>2, DropHub, DropOne, DropKeeps DEF Kept
          <5>4. /\ g.conn[s] = hub.conn[s]
                /\ \A q \in Pane : g.carry[q] = hub.carry[q] \/
                                    g.carry[q] = [sid |-> v, texts |-> hub.conn[v].held]
            BY <1>1, <1>2, <5>1, <5>2, DropLists
          <5>5. Uncarried(g, s)
            BY <3>1, <5>1, <5>4 DEF Uncarried
          <5> QED BY <1>6, <5>3, <5>4, <5>5
        <4> QED BY <4>1, <4>2
      <3>. HIDE DEF g
      <3>3. h \in HubSet /\ One(h) /\ Moves(g, h) /\ Uncarried(h, s) /\ FileOf(h, s) = HeldIn(h, s)
        <4>1. Shape(g)
          BY <3>2 DEF Moves
        <4> QED BY <1>1, <3>2, <4>1, AdoptHub, AdoptOne, AdoptKeeps
      <3>4. hub' = Register(h, s, p, n)
        BY <2>1 DEF g
      <3>. HIDE DEF h
      <3>5. Moves(hub, h)
        BY <3>2, <3>3, MovesTwice
      <3>6. /\ Shape(hub')
            /\ \A x \in Prompt : OnceAt(h, x) => OnceAt(hub', x)
            /\ \A x \in Prompt : OnceAt(h, x) /\ SafeAt(h, x)
                     /\ (x \in FileOf(h, s) => x \in HeldIn(h, s)) => SafeAt(hub', x)
            /\ \A x \in Prompt : Somewhere(hub', x) => Somewhere(h, x)
        BY <1>1, <3>3, <3>4, <3>5, RegisterKeeps DEF Moves
      <3>7. Moves(hub, hub')
        BY <3>3, <3>5, <3>6 DEF Moves
      <3>8. ASSUME NEW x \in Prompt PROVE PromptAt(hub, x)'
        <4>1. PromptAt(hub, x)
          BY <3>1 DEF Kept
        <4> QED BY <1>1, <1>4, <3>7, <4>1 DEF PromptAt, Moves
      <3> QED BY <3>7, <3>8 DEF Kept, Moves
    <2> QED BY <1>3, <2>3 DEF HeldInv
  <1> QED BY <1>5, <1>6

LEMMA StepHeld ==
  ASSUME IInv, HeldInv, [Next]_vars
  PROVE  HeldInv'
  <1>1. CASE \E p \in Pane : HelloRegisters(p)
    BY <1>1, HelloHeld
  <1>2. ASSUME UNCHANGED <<hub, sent, given, returned, cut, cameBack>> PROVE HeldInv'
    <2>1. SameLists(hub, hub')
      BY <1>2 DEF SameLists
    <2> QED BY <1>2, <2>1, ListsKept
  <1>3. CASE World
    <2>1. ASSUME NEW p \in Pane, NEW next \in Sid \cup {None}, End(p, next)
          PROVE  HeldInv'
      <3>1. claude[p] \in Sid /\ UNCHANGED ghostVars
        BY <2>1, TypeFacts DEF End
      <3>2. CASE UNCHANGED hub
        BY <1>2, <3>1, <3>2 DEF ghostVars
      <3>3. CASE Bye(claude[p])
        <4>1. CASE hub.conn[claude[p]].stamps
          <5>1. hub' = Drop(hub, claude[p])
            BY <3>3, <4>1 DEF Bye
          <5> QED BY <3>1, <4>1, <5>1, DroppedHeld
        <4>2. CASE ~hub.conn[claude[p]].stamps
          BY <1>2, <3>1, <3>3, <4>2 DEF Bye, ghostVars
        <4> QED BY <4>1, <4>2
      <3> QED BY <2>1, <3>2, <3>3 DEF End
    <2>2. ASSUME NEW p \in Pane, NEW s \in Sid, Start(p, s)
          PROVE  HeldInv'
      BY <1>2, <2>2 DEF Start, ghostVars
    <2>3. ASSUME NEW m \in Session, NEW n \in Session, Rename(m, n)
          PROVE  HeldInv'
      BY <1>2, <2>3 DEF Rename, ghostVars
    <2> QED BY <1>3, <2>1, <2>2, <2>3 DEF World
  <1>4. CASE \E p \in Pane : Mod(p)
    <2>1. ASSUME NEW p \in Pane, Refused(p) \/ HelloStamps(p)
          PROVE  HeldInv'
      BY <1>2, <2>1 DEF Refused, HelloStamps, ghostVars
    <2> QED BY <1>4, <2>1, ClaimIfFreeHeld, LevelHeld DEF Mod
  <1>5. CASE Service
    <2>1. ASSUME Sweep PROVE HeldInv'
      <3>1. PICK s \in Sid : hub.conn[s].on /\ hub' = Drop(hub, s)
        BY <2>1 DEF Sweep, Registered
      <3>2. UNCHANGED ghostVars
        BY <2>1 DEF Sweep
      <3> QED BY <3>1, <3>2, DroppedHeld
    <2>2. ASSUME PutBack PROVE HeldInv'
      BY <2>2, PutBackHeld, LatePutBackHeld
    <2> QED BY <1>5, <2>1, <2>2, FollowHeld, QuietHeld, HoldHeld, TakeHeldHeld, StoppedHeld DEF Service
  <1>6. CASE Restart
    BY <1>6, RestartHeld
  <1>7. CASE UNCHANGED vars \/ \E n \in Session : SweepWrites(n)
    BY <1>2, <1>7 DEF vars, SweepWrites, ghostVars
  <1> QED BY <1>1, <1>3, <1>4, <1>5, <1>6, <1>7 DEF Next

LEMMA InitHeld == Init => HeldInv
  <1>. SUFFICES ASSUME Init PROVE HeldInv
    OBVIOUS
  <1>1. /\ \A s \in Sid : hub.conn[s] = NoConn /\ hub.files[s] = <<>>
        /\ \A p \in Pane : hub.carry[p] = NoCarry
        /\ hub.stop = NoStop /\ sent = {} /\ given = [x \in Prompt |-> 0]
    BY DEF Init
  <1>2. /\ InHand(hub) = {}
        /\ \A s \in Sid : HeldIn(hub, s) = {} /\ FileOf(hub, s) = {}
        /\ \A p \in Pane : Carried(hub, p) = {}
    BY <1>1, Nothing, EmptySet DEF InHand, HeldIn, FileOf, Carried
  <1>3. Shape(hub)
    BY <1>1, <1>2, Nothing, NoneAssumption DEF Shape
  <1>4. ASSUME NEW x \in Prompt PROVE PromptAt(hub, x)
    BY <1>1, <1>2 DEF PromptAt, OnceAt, Somewhere, Pending
  <1> QED BY <1>1, <1>3, <1>4 DEF HeldInv, Kept

LEMMA HeldHolds == Spec => []HeldInv
  <1>1. IInv /\ HeldInv /\ [Next]_vars => HeldInv'
    BY StepHeld
  <1> QED BY <1>1, InitHeld, Inductive, PTL DEF Spec

-----------------------------------------------------------------------------
(* The rest of the types.                                                  *)

Rest == TmuxType /\ GhostType /\ {ends, renames, stops, restarts} \subseteq Nat

LEMMA GiveType ==
  ASSUME GhostType, NEW texts, Give(texts)
  PROVE  given' \in [Prompt -> 0..2]
  BY DEF GhostType, Give

LEMMA RestStep ==
  ASSUME IInv, Rest, [Next]_vars
  PROVE  Rest'
  <1>0. /\ TmuxType /\ GhostType
        /\ ends \in Nat /\ renames \in Nat /\ stops \in Nat /\ restarts \in Nat
    BY DEF Rest
  <1>1. ASSUME UNCHANGED ghostVars PROVE GhostType'
    BY <1>0, <1>1 DEF ghostVars, GhostType
  <1>2. ASSUME UNCHANGED <<tmuxVars, reaped>> PROVE TmuxType'
    BY <1>0, <1>2 DEF tmuxVars, TmuxType
  <1>3. ASSUME UNCHANGED boundVars PROVE {ends, renames, stops, restarts}' \subseteq Nat
    BY <1>0, <1>3 DEF boundVars
  <1>4. CASE \E p \in Pane : HelloRegisters(p)
    <2>1. PICK p \in Pane : HelloRegisters(p)
      BY <1>4
    <2>2. UNCHANGED <<tmuxVars, reaped, sent, given, returned, cut, boundVars>>
      BY <2>1 DEF HelloRegisters
    <2>3. {cameBack, crossed}' \subseteq BOOLEAN
      BY <1>0, <2>1 DEF HelloRegisters, GhostType
    <2>4. GhostType'
      BY <1>0, <2>2, <2>3 DEF GhostType
    <2> QED BY <1>2, <1>3, <2>2, <2>4 DEF Rest
  <1>5. CASE \E n \in Session : SweepWrites(n)
    <2>1. PICK n \in Session : SweepWrites(n)
      BY <1>5
    <2>2. UNCHANGED <<ghostVars, boundVars>>
      BY <2>1 DEF SweepWrites
    <2>3. TmuxType'
      BY <1>0, <2>1 DEF SweepWrites, TmuxType
    <2> QED BY <1>1, <1>3, <2>2, <2>3 DEF Rest
  <1>6. CASE World
    <2>1. ASSUME NEW p \in Pane, NEW s \in Sid, Start(p, s) PROVE Rest'
      BY <1>1, <1>2, <1>3, <2>1 DEF Start, Rest
    <2>2. ASSUME NEW p \in Pane, NEW next \in Sid \cup {None}, End(p, next) PROVE Rest'
      <3>1. UNCHANGED <<stamp, reaped, ghostVars, renames, stops, restarts>> /\ ends' = ends + 1
        BY <2>2 DEF End
      <3>2. shown' \in [Session -> {"", "idle", "on"}]
        BY <1>0, <2>2 DEF End, Bye, TmuxType
      <3>3. TmuxType'
        BY <1>0, <3>1, <3>2 DEF TmuxType
      <3> QED BY <1>0, <1>1, <3>1, <3>3 DEF Rest
    <2>3. ASSUME NEW m \in Session, NEW n \in Session, Rename(m, n) PROVE Rest'
      <3>1. UNCHANGED <<reaped, ghostVars, ends, stops, restarts>> /\ renames' = renames + 1
        BY <2>3 DEF Rename
      <3>2. /\ stamp' = [stamp EXCEPT ![n] = stamp[m], ![m] = None]
            /\ shown' = [shown EXCEPT ![n] = shown[m], ![m] = ""]
        BY <2>3 DEF Rename
      <3>3. TmuxType'
        BY <1>0, <3>1, <3>2 DEF TmuxType
      <3> QED BY <1>0, <1>1, <3>1, <3>3 DEF Rest
    <2> QED BY <1>6, <2>1, <2>2, <2>3 DEF World
  <1>7. CASE \E p \in Pane : Mod(p)
    <2>1. ASSUME NEW p \in Pane, Refused(p) \/ ClaimIfFree(p) PROVE Rest'
      BY <1>1, <1>2, <1>3, <2>1 DEF Refused, ClaimIfFree, Rest
    <2>2. ASSUME NEW p \in Pane, HelloStamps(p) PROVE Rest'
      <3>1. claude[p] \in Sid
        BY <2>2 DEF IInv, WorldType, HelloStamps
      <3>2. stamp' \in [Session -> Sid \cup {None}]
        BY <1>0, <2>2, <3>1 DEF HelloStamps, TmuxType
      <3>3. /\ UNCHANGED <<shown, reaped, sent, given, returned, cut, cameBack, boundVars>>
            /\ crossed' \in BOOLEAN
        BY <2>2 DEF HelloStamps
      <3>4. TmuxType'
        BY <1>0, <3>2, <3>3 DEF TmuxType
      <3>5. GhostType'
        BY <1>0, <3>3 DEF GhostType
      <3> QED BY <1>3, <3>3, <3>4, <3>5 DEF Rest
    <2>3. ASSUME NEW p \in Pane, NEW turn \in {"idle", "on"}, Level(p, turn) PROVE Rest'
      <3>1. UNCHANGED <<stamp, reaped, sent, returned, cut, cameBack, crossed, boundVars>>
        BY <2>3 DEF Level
      <3>2. given' \in [Prompt -> 0..2]
        <4>1. Give(hub.conn[claude[p]].held) \/ given' = given
          BY <2>3 DEF Level
        <4> QED BY <1>0, <4>1, GiveType DEF GhostType
      <3>3. shown' \in [Session -> {"", "idle", "on"}]
        <4>1. shown' = shown \/ shown' = [shown EXCEPT ![Target(hub.conn[claude[p]])] = turn]
          BY <2>3 DEF Level
        <4> QED BY <1>0, <4>1 DEF TmuxType
      <3>4. TmuxType' /\ GhostType'
        BY <1>0, <3>1, <3>2, <3>3 DEF TmuxType, GhostType
      <3> QED BY <1>3, <3>1, <3>4 DEF Rest
    <2> QED BY <1>7, <2>1, <2>2, <2>3 DEF Mod
  <1>8. CASE Service
    <2>1. ASSUME NEW s \in Sid, Follow(s) \/ Quiet(s) PROVE Rest'
      BY <1>1, <1>2, <1>3, <2>1 DEF Follow, Quiet, Rest
    <2>2. ASSUME Sweep PROVE Rest'
      <3>1. PICK s \in Sid : /\ hub.conn[s].on
                             /\ reaped' = IF hub.conn[s].stamps
                                          THEN reaped \cup {hub.conn[s].session} ELSE reaped
        BY <2>2 DEF Sweep, Registered
      <3>2. UNCHANGED <<tmuxVars, ghostVars, boundVars>>
        BY <2>2 DEF Sweep
      <3>3. hub.conn[s].stamps => hub.conn[s].session \in Session
        BY <3>1 DEF IInv, One
      <3>4. TmuxType'
        BY <1>0, <3>1, <3>2, <3>3 DEF TmuxType, tmuxVars
      <3> QED BY <1>1, <1>3, <3>2, <3>4 DEF Rest
    <2>3. ASSUME NEW s \in Sid, NEW x \in Prompt, Hold(s, x) PROVE Rest'
      <3>1. /\ UNCHANGED <<tmuxVars, reaped, given, returned, cut, cameBack, crossed, boundVars>>
            /\ sent' = sent \cup {x}
        BY <2>3 DEF Hold
      <3>2. GhostType'
        BY <1>0, <3>1 DEF GhostType
      <3> QED BY <1>2, <1>3, <3>1, <3>2 DEF Rest
    <2>4. ASSUME NEW n \in Session, TakeHeld(n) PROVE Rest'
      <3>1. UNCHANGED <<tmuxVars, reaped, ghostVars, ends, renames, restarts>> /\ stops' = stops + 1
        BY <2>4 DEF TakeHeld
      <3> QED BY <1>0, <1>1, <1>2, <3>1 DEF Rest
    <2>5. ASSUME Stopped PROVE Rest'
      <3>1. /\ UNCHANGED <<tmuxVars, reaped, sent, given, cut, cameBack, crossed, boundVars>>
            /\ returned' = returned \cup InHand(hub)
        BY <2>5 DEF Stopped, InHand
      <3>2. InHand(hub) \subseteq Prompt
        BY SeqSet, TypeFacts DEF HubSet, InHand
      <3>3. GhostType'
        BY <1>0, <3>1, <3>2 DEF GhostType
      <3> QED BY <1>2, <1>3, <3>1, <3>3 DEF Rest
    <2>6. ASSUME PutBack PROVE Rest'
      <3> DEFINE st == hub.stop
                 h == [hub EXCEPT !.stop = NoStop]
      <3>1. /\ st.sid # None /\ UNCHANGED <<tmuxVars, reaped, sent, returned, cameBack, crossed, boundVars>>
            /\ \/ cut' = cut \cup ToSet(st.texts \o h.files[st.sid]) /\ given' = given
               \/ cut' = cut /\ (given' = given \/ Give(st.texts \o h.conn[st.sid].held))
        BY <2>6 DEF PutBack
      <3>2. ToSet(st.texts \o h.files[st.sid]) \subseteq Prompt
        <4>1. h.files = hub.files /\ st.sid \in Sid /\ st.texts \in Seq(Prompt)
          BY <3>1, TypeFacts DEF HubSet
        <4>2. hub.files[st.sid] \in Seq(Prompt)
          BY <4>1, TypeFacts DEF HubSet
        <4> QED BY <4>1, <4>2, SeqSet
      <3>3. given' \in [Prompt -> 0..2]
        BY <1>0, <3>1, GiveType DEF GhostType
      <3>. HIDE DEF st, h
      <3>4. GhostType'
        BY <1>0, <3>1, <3>2, <3>3 DEF GhostType
      <3> QED BY <1>2, <1>3, <3>1, <3>4 DEF Rest
    <2> QED BY <1>8, <2>1, <2>2, <2>3, <2>4, <2>5, <2>6 DEF Service
  <1>9. CASE Restart
    <2>1. /\ UNCHANGED <<tmuxVars, sent, given, returned, cameBack, crossed, ends, renames, stops>>
          /\ reaped' = {} /\ cut' = cut \cup InHand(hub) /\ restarts' = restarts + 1
      BY <1>9 DEF Restart, InHand
    <2>2. InHand(hub) \subseteq Prompt
      BY SeqSet, TypeFacts DEF HubSet, InHand
    <2>3. TmuxType' /\ GhostType'
      BY <1>0, <2>1, <2>2 DEF TmuxType, GhostType, tmuxVars
    <2> QED BY <1>0, <2>1, <2>3 DEF Rest
  <1>10. CASE UNCHANGED vars
    BY <1>1, <1>2, <1>3, <1>10 DEF vars, Rest
  <1> QED BY <1>4, <1>5, <1>6, <1>7, <1>8, <1>9, <1>10 DEF Next

\* The panes, the hub, what tmux shows and the history keep their types, whatever
\* hellos, reaps, Stops and restarts come in what order (modHub, mod.go).
THEOREM TypesHold == Spec => []TypeOK
  <1>1. Init => Rest
    <2>. SUFFICES ASSUME Init PROVE Rest
      OBVIOUS
    <2>1. TmuxType
      BY DEF Init, TmuxType
    <2>2. /\ sent = {} /\ returned = {} /\ cut = {} /\ cameBack = FALSE /\ crossed = FALSE
          /\ given = [x \in Prompt |-> 0]
      BY DEF Init
    <2>3. {cameBack, crossed} \subseteq BOOLEAN
      BY <2>2
    <2>4. GhostType
      BY <2>2, <2>3 DEF GhostType
    <2>5. ends = 0 /\ renames = 0 /\ stops = 0 /\ restarts = 0
      BY DEF Init
    <2> QED BY <2>1, <2>4, <2>5 DEF Rest
  <1>2. IInv /\ Rest /\ [Next]_vars => Rest'
    BY RestStep
  <1>3. IInv /\ Rest => TypeOK
    BY DEF IInv, HubSet, HubType, Rest, TypeOK
  <1> QED BY <1>1, <1>2, <1>3, Inductive, PTL DEF Spec

-----------------------------------------------------------------------------
(* What it says of the prompts.                                            *)

\* What has not been given or handed back is in a file or in a Stop's hands, whatever
\* ends, is put out, renamed or restarted, but for what NotLost excepts (adoptLocked,
\* carryLocked, saveHeldLocked, putBack).
THEOREM NothingLost == Spec => []NotLost
  <1>1. HeldInv /\ TypeOK => NotLost
    <2>. SUFFICES ASSUME HeldInv, TypeOK, ~cameBack, NEW x \in sent \ (returned \cup cut)
                  PROVE  \/ given[x] > 0 \/ x \in ToSet(hub.stop.texts)
                         \/ \E s \in Sid : x \in ToSet(hub.files[s])
      BY DEF NotLost
    <2>1. x \in Prompt /\ given[x] \in 0..2
      BY DEF TypeOK, GhostType
    <2>2. CASE given[x] = 0
      <3>1. SafeAt(hub, x)
        BY <2>1, <2>2 DEF HeldInv, Kept, PromptAt, Pending
      <3> QED BY <3>1 DEF SafeAt, InHand, FileOf
    <2> QED BY <2>1, <2>2
  <1> QED BY <1>1, HeldHolds, TypesHold, PTL

LEMMA AtMostOne ==
  ASSUME NEW S, \A a, b \in S : a = b
  PROVE  Cardinality(S) \in {0, 1} /\ (Cardinality(S) = 0 <=> S = {})
  <1>1. CASE S = {}
    BY <1>1, FS_EmptySet
  <1>2. CASE S # {}
    <2>1. PICK a \in S : S = {a}
      BY <1>2
    <2>2. Cardinality(S) = 1
      BY <2>1, FS_Singleton
    <2> QED BY <1>2, <2>2
  <1> QED BY <1>1, <1>2

\* A held prompt is held or carried in one place, or was given to Claude once, however
\* conversations end and begin, are evicted, reaped, stopped or restarted, unless one
\* comes back that is still carried (carryLocked, adoptLocked, releaseHeld).
THEOREM OnlyOnce == Spec => []GivenOnce
  <1>1. HeldInv => GivenOnce
    <2>. SUFFICES ASSUME HeldInv, ~cameBack, NEW x \in Prompt PROVE Places(x) <= 1
      BY DEF GivenOnce
    <2> DEFINE H == {s \in Sid : x \in HeldIn(hub, s)}
               C == {p \in Pane : x \in Carried(hub, p)}
    <2>1. PromptAt(hub, x) /\ given[x] \in Nat
      BY DEF HeldInv, Kept
    <2>2. (\A a, b \in H : a = b) /\ (\A a, b \in C : a = b) /\ (H = {} \/ C = {})
      BY <2>1 DEF PromptAt, OnceAt
    <2>3. H # {} \/ C # {} => given[x] = 0
      BY <2>1 DEF PromptAt, Somewhere
    <2>4. given[x] <= 1
      BY <2>1 DEF PromptAt
    <2>5. Places(x) = Cardinality(H) + Cardinality(C) + given[x]
      BY DEF Places, HeldIn, Carried
    <2>. HIDE DEF H, C
    <2>6. /\ Cardinality(H) \in {0, 1} /\ (Cardinality(H) = 0 <=> H = {})
          /\ Cardinality(C) \in {0, 1} /\ (Cardinality(C) = 0 <=> C = {})
      BY <2>2, AtMostOne
    <2> QED BY <2>1, <2>2, <2>3, <2>4, <2>5, <2>6
  <1> QED BY <1>1, HeldHolds, PTL

-----------------------------------------------------------------------------
(* The inductive invariant for the options.                                *)

\* A conversation runs in one pane.
Apart == \A p, q \in Pane : claude[p] = claude[q] /\ claude[p] # None => p = q

\* A connection that has its session exists.
Stands == \A s \in Sid : hub.conn[s].stamps => hub.conn[s].on

\* Until a session is renamed, a hello and a connection name the session of their pane.
AtName ==
    renames = 0 =>
        /\ \A q \in Pane : asking[q] # NoHello => asking[q].session = name[q]
        /\ \A s \in Sid : hub.conn[s].on =>
              hub.conn[s].pane \in Pane /\ hub.conn[s].session = name[hub.conn[s].pane]

\* The mod in q talks for a connection that has its session.
Speaks(q) ==
    /\ linked[q]
    /\ hub.conn[claude[q]].token /\ hub.conn[claude[q]].stamps

\* The state shown is what was last written for it, once its level is known.
Shows ==
    renames = 0 => \A q \in Pane :
        Speaks(q) /\ hub.conn[claude[q]].turn # "unknown" =>
            shown[name[q]] = hub.conn[claude[q]].written

\* The session of the Claude in q is that of its conversation.
Has(q) ==
    /\ linked[q] /\ hub.conn[claude[q]].token
    /\ hub.owner[name[q]] = claude[q]

\* The transcript stamped is that of the Claude that has the session, or a hello that
\* stamped it is under way,
Stamped ==
    ~crossed /\ renames <= 1 => \A q \in Pane :
        Has(q) => stamp[name[q]] = claude[q] \/ \E r \in Pane : Stamping(r, name[q])

\* and while one is, that of its conversation.
StampedFirst ==
    ~crossed /\ renames <= 1 => \A q, r \in Pane :
        Stamping(q, name[r]) => stamp[name[r]] = asking[q].sid

StampPart == Stamped /\ StampedFirst

OptionsInv == Apart /\ Stands /\ AtName /\ Shows /\ StampPart

-----------------------------------------------------------------------------
(* Steps that write no option of a Claude that talks.                      *)

\* A connection is dropped, or keeps its place, and no session is given.
Firm(c, d) == d = NoConn \/ (Alike(c, d) /\ (d.token => c.token))
Firmly == Frees /\ \A x \in Sid : Firm(hub.conn[x], hub'.conn[x])

\* It keeps what it last wrote too, and is told nothing new.
Milder(c, d) ==
    /\ Alike(c, d)
    /\ d.token => c.token
    /\ d.turn # "unknown" => c.turn # "unknown"
    /\ d.written = c.written
Softer(c, d) == d = NoConn \/ Milder(c, d)
Softly == Frees /\ \A x \in Sid : Softer(hub.conn[x], hub'.conn[x])

LEMMA NoConnFields == ~NoConn.on /\ ~NoConn.token /\ ~NoConn.stamps
  BY Zenon DEF NoConn

LEMMA SoftFirm == Softly => Firmly
  BY DEF Softly, Softer, Milder, Firmly, Firm

\* Who talks after such a step talked before it.
LEMMA FirmlySpeaks ==
  ASSUME IInv, Firmly, NEW q \in Pane, linked'[q] => linked[q] /\ claude'[q] = claude[q]
  PROVE  /\ Speaks(q)' => Speaks(q) /\ claude'[q] = claude[q] /\ claude[q] \in Sid
         /\ name' = name /\ Has(q)' => Has(q) /\ claude'[q] = claude[q]
  <1>1. linked'[q] => claude[q] \in Sid /\ claude'[q] = claude[q] /\ linked[q]
    BY TypeFacts
  <1>2. linked'[q] => Firm(hub.conn[claude[q]], hub'.conn[claude[q]])
    BY <1>1 DEF Firmly
  <1>3. ASSUME Speaks(q)'
        PROVE  Speaks(q) /\ claude'[q] = claude[q] /\ claude[q] \in Sid
    <2>1. linked'[q] /\ hub'.conn[claude'[q]].token /\ hub'.conn[claude'[q]].stamps
      BY <1>3 DEF Speaks
    <2> QED BY <1>1, <1>2, <2>1, NoConnFields DEF Firm, Alike, Speaks
  <1>4. ASSUME name' = name, Has(q)'
        PROVE  Has(q) /\ claude'[q] = claude[q]
    <2>1. /\ linked'[q] /\ hub'.conn[claude'[q]].token
          /\ hub'.owner[name[q]] = claude'[q]
      BY <1>4 DEF Has
    <2>2. hub.conn[claude[q]].token
      BY <1>1, <1>2, <2>1, NoConnFields DEF Firm
    <2>3. hub'.owner[name[q]] \in {hub.owner[name[q]], None} /\ claude'[q] # None
      BY <1>1, <2>1, TypeFacts, NoneAssumption DEF Firmly, Frees
    <2> QED BY <1>1, <2>1, <2>2, <2>3 DEF Has
  <1> QED BY <1>3, <1>4

\* Such a step, which has no hello under way forgotten but all, with the connections.
LEMMA FirmStep ==
  ASSUME IInv, IInv', OptionsInv, Firmly, Apart', Shows',
         UNCHANGED <<name, stamp, renames, crossed>>,
         \A q \in Pane : linked'[q] => linked[q] /\ claude'[q] = claude[q],
         \/ asking' = asking
         \/ \A q \in Pane : asking'[q] = NoHello /\ ~Has(q)'
  PROVE  OptionsInv'
  <1>1. Stands'
    <2>1. \A x \in Sid : Firm(hub.conn[x], hub'.conn[x])
      BY DEF Firmly
    <2> QED BY <2>1, NoConnFields DEF OptionsInv, Stands, Firm, Alike
  <1>2. AtName'
    <2>1. \A x \in Sid : hub'.conn[x].on =>
             /\ hub.conn[x].on /\ hub'.conn[x].pane = hub.conn[x].pane
             /\ hub'.conn[x].session = hub.conn[x].session
      BY NoConnFields DEF Firmly, Firm, Alike
    <2> QED BY <2>1 DEF OptionsInv, AtName
  <1>4. StampPart'
    <2>1. CASE asking' = asking
      <3>1. StampedFirst'
        BY <2>1 DEF OptionsInv, StampPart, StampedFirst, Stamping
      <3>2. Stamped'
        <4>. SUFFICES ASSUME ~crossed, renames <= 1, NEW q \in Pane, Has(q)'
             PROVE  stamp[name[q]] = claude'[q] \/ \E r \in Pane : Stamping(r, name[q])'
          BY DEF Stamped
        <4>1. Has(q) /\ claude'[q] = claude[q]
          BY FirmlySpeaks
        <4> QED BY <2>1, <4>1 DEF OptionsInv, StampPart, Stamped, Stamping
      <3> QED BY <3>1, <3>2 DEF StampPart
    <2>2. CASE \A q \in Pane : asking'[q] = NoHello /\ ~Has(q)'
      BY <2>2 DEF StampPart, Stamped, StampedFirst, Stamping
    <2> QED BY <2>1, <2>2
  <1> QED BY <1>1, <1>2, <1>4 DEF OptionsInv

LEMMA SoftStep ==
  ASSUME IInv, IInv', OptionsInv, Softly, Apart',
         UNCHANGED <<name, stamp, renames, crossed>>,
         \A q \in Pane : linked'[q] => linked[q] /\ claude'[q] = claude[q],
         \/ asking' = asking
         \/ \A q \in Pane : asking'[q] = NoHello /\ ~Has(q)',
         \A q \in Pane :
            renames = 0 /\ Speaks(q) /\ Speaks(q)' => shown'[name[q]] = shown[name[q]]
  PROVE  OptionsInv'
  <1>1. Firmly
    BY SoftFirm
  <1>2. Shows'
    <2>. SUFFICES ASSUME renames = 0, NEW q \in Pane, Speaks(q)',
                         hub'.conn[claude'[q]].turn # "unknown"
         PROVE  shown'[name[q]] = hub'.conn[claude'[q]].written
      BY DEF Shows
    <2>1. Speaks(q) /\ claude'[q] = claude[q] /\ claude[q] \in Sid
      BY <1>1, FirmlySpeaks
    <2>2. hub'.conn[claude[q]] # NoConn
      BY <2>1, NoConnFields DEF Speaks
    <2>3. Milder(hub.conn[claude[q]], hub'.conn[claude[q]])
      BY <2>1, <2>2 DEF Softly, Softer
    <2>4. /\ hub'.conn[claude[q]].written = hub.conn[claude[q]].written
          /\ hub.conn[claude[q]].turn # "unknown"
      BY <2>1, <2>3 DEF Milder
    <2>5. shown[name[q]] = hub.conn[claude[q]].written
      BY <2>1, <2>4 DEF OptionsInv, Shows
    <2> QED BY <2>1, <2>4, <2>5
  <1> QED BY <1>1, <1>2, FirmStep

-----------------------------------------------------------------------------
(* What the steps do to one connection.                                    *)

LEMMA TokenSoft ==
  ASSUME NEW c \in Conn, NEW b \in BOOLEAN, b => c.token,
         NEW d, d = [c EXCEPT !.token = b]
  PROVE  d \in Conn /\ Milder(c, d)
  <1>1. d \in Conn /\ Alike(c, d) /\ d.token = b
    BY TokenSet
  <1>2. d.turn = c.turn /\ d.written = c.written
    BY DEF Conn
  <1> QED BY <1>1, <1>2 DEF Milder

LEMMA HeardSoft ==
  ASSUME NEW c \in Conn, NEW b \in BOOLEAN, b => c.token,
         NEW d, d = [c EXCEPT !.quiet = 0, !.token = b]
  PROVE  d \in Conn /\ Milder(c, d)
  <1>1. d \in Conn /\ Alike(c, d) /\ d.token = b
    BY HeardSet
  <1>2. d.turn = c.turn /\ d.written = c.written
    BY DEF Conn
  <1> QED BY <1>1, <1>2 DEF Milder

LEMMA QuietSoft ==
  ASSUME NEW c \in Conn, NEW k \in 0..2,
         NEW d, d = [c EXCEPT !.quiet = k]
  PROVE  d \in Conn /\ Milder(c, d)
  <1>1. d \in Conn /\ Alike(c, d) /\ d.token = c.token
    BY QuietSet
  <1>2. d.turn = c.turn /\ d.written = c.written
    BY DEF Conn
  <1> QED BY <1>1, <1>2 DEF Milder

LEMMA HeldSoft ==
  ASSUME NEW c \in Conn, NEW t \in Seq(Prompt),
         NEW d, d = [c EXCEPT !.held = t]
  PROVE  d \in Conn /\ Milder(c, d) /\ d.turn = c.turn
  <1>1. d \in Conn /\ Alike(c, d) /\ d.token = c.token
    BY HeldSet
  <1>2. d.turn = c.turn /\ d.written = c.written
    BY DEF Conn
  <1> QED BY <1>1, <1>2 DEF Milder

\* A conversation given what is held is known to have been idle.
LEMMA ReleaseSoft ==
  ASSUME NEW h \in HubSet, NEW s \in Sid
  PROVE  LET r == Release(h, s)
         IN  /\ r \in HubSet /\ r.owner = h.owner
             /\ Milder(h.conn[s], r.conn[s])
             /\ \A x \in Sid \ {s} : r.conn[x] = h.conn[x]
  <1> DEFINE r == Release(h, s)
             c == h.conn[s]
             d == [c EXCEPT !.held = <<>>, !.turn = "on"]
  <1>1. c \in Conn
    BY DEF HubSet
  <1>2. /\ r \in HubSet /\ r.owner = h.owner
        /\ Alike(h.conn[s], r.conn[s]) /\ r.conn[s].token = h.conn[s].token
        /\ \A x \in Sid \ {s} : r.conn[x] = h.conn[x]
    BY ReleaseHub
  <1>3. ASSUME r = h
        PROVE  Milder(c, r.conn[s])
    BY <1>3 DEF Milder, Alike
  <1>4. ASSUME c.turn = "idle", c.held # <<>>
        PROVE  Milder(c, r.conn[s])
    <2>1. r = [h EXCEPT !.conn[s].held = <<>>, !.conn[s].turn = "on", !.files[s] = <<>>]
      BY <1>4 DEF Release
    <2>2. r.conn = [[h.conn EXCEPT ![s].held = <<>>] EXCEPT ![s].turn = "on"]
      BY <2>1 DEF HubSet
    <2>3. r.conn[s] = d
      BY <1>1, <2>2 DEF HubSet
    <2>4. d.written = c.written
      BY <1>1 DEF Conn
    <2>5. c.turn # "unknown"
      BY <1>4
    <2>. HIDE DEF d, r
    <2>6. r.conn[s].written = c.written
      BY <2>3, <2>4
    <2>. HIDE DEF c
    <2>7. r.conn[s].token => c.token
      BY <1>2 DEF c
    <2> QED BY <1>2, <2>5, <2>6, <2>7 DEF Milder, c
  <1>5. r = h \/ (c.turn = "idle" /\ c.held # <<>>)
    BY DEF Release
  <1>6. Milder(c, r.conn[s])
    BY <1>3, <1>4, <1>5
  <1>. HIDE DEF r
  <1> QED BY <1>2, <1>6 DEF r

LEMMA SoftTwice ==
  ASSUME NEW b, NEW c, NEW d, Milder(b, c), Milder(c, d)
  PROVE  Milder(b, d)
  BY Zenon DEF Milder, Alike

\* One connection is touched and no session given.
LEMMA OneSoft ==
  ASSUME IInv, NEW s \in Sid, NEW d \in Conn, Milder(hub.conn[s], d),
         hub'.conn = [hub.conn EXCEPT ![s] = d], hub'.owner = hub.owner
  PROVE  Softly
  <1>1. hub'.conn[s] = d /\ \A x \in Sid \ {s} : hub'.conn[x] = hub.conn[x]
    BY TypeFacts
  <1>2. \A x \in Sid : Softer(hub.conn[x], hub'.conn[x])
    BY <1>1 DEF Softer, Milder, Alike
  <1> QED BY <1>2 DEF Softly, Frees

LEMMA NoneSoft ==
  ASSUME hub'.conn = hub.conn, hub'.owner = hub.owner
  PROVE  Softly
  BY DEF Softly, Softer, Milder, Alike, Frees

LEMMA DropSoft ==
  ASSUME IInv, NEW s \in Sid, hub' = Drop(hub, s)
  PROVE  Softly
  <1>1. /\ hub'.conn = [hub.conn EXCEPT ![s] = NoConn]
        /\ hub'.owner = [hub.owner EXCEPT ![hub.conn[s].session] = IF @ = s THEN None ELSE @]
    BY TypeFacts, DropHub
  <1>2. \A x \in Sid : hub'.conn[x] = IF x = s THEN NoConn ELSE hub.conn[x]
    BY <1>1, TypeFacts
  <1>3. Frees
    BY <1>1, TypeFacts DEF Frees
  <1>4. \A x \in Sid : Softer(hub.conn[x], hub'.conn[x])
    BY <1>2 DEF Softer, Milder, Alike
  <1> QED BY <1>3, <1>4 DEF Softly

-----------------------------------------------------------------------------
(* The actions that write no option.                                       *)

LEMMA FollowSoft ==
  ASSUME IInv, NEW s \in Sid, Follow(s)
  PROVE  Softly
  <1> DEFINE c == hub.conn[s]
             d == [c EXCEPT !.token = FALSE]
  <1>1. hub' = [hub EXCEPT !.conn[s].token = FALSE]
    BY DEF Follow
  <1>2. hub'.conn = [hub.conn EXCEPT ![s] = d] /\ hub'.owner = hub.owner
    BY <1>1, TypeFacts DEF HubSet
  <1>3. d \in Conn /\ Milder(c, d)
    BY TypeFacts, TokenSoft
  <1>. HIDE DEF d
  <1> QED BY <1>2, <1>3, OneSoft

LEMMA ClaimIfFreeSoft ==
  ASSUME IInv, NEW p \in Pane, ClaimIfFree(p)
  PROVE  Softly
  <1> DEFINE s == claude[p]
             c == hub.conn[s]
             o == hub.owner[c.session]
             keeps == o # None /\ (o = s \/ hub.conn[o].quiet = 0)
             d == [c EXCEPT !.quiet = 0, !.token = keeps]
  <1>1. /\ linked[p] /\ c.token
        /\ hub' = [hub EXCEPT !.conn[s].quiet = 0, !.conn[s].token = keeps]
    BY DEF ClaimIfFree
  <1>2. s \in Sid /\ c \in Conn /\ keeps \in BOOLEAN
    BY <1>1, TypeFacts
  <1>. HIDE DEF keeps
  <1>3. d \in Conn /\ Milder(c, d)
    <2>. HIDE DEF c
    <2> QED BY <1>1, <1>2, HeardSoft
  <1>4. /\ hub'.conn = [[hub.conn EXCEPT ![s].quiet = 0] EXCEPT ![s].token = keeps]
        /\ hub'.owner = hub.owner
    BY <1>1, TypeFacts DEF HubSet
  <1>5. hub'.conn = [hub.conn EXCEPT ![s] = d]
    BY <1>2, <1>4, TypeFacts
  <1>. HIDE DEF d
  <1> QED BY <1>2, <1>3, <1>4, <1>5, OneSoft

LEMMA QuietStepSoft ==
  ASSUME IInv, NEW s \in Sid, Quiet(s)
  PROVE  Softly
  <1> DEFINE c == hub.conn[s]
             d == [c EXCEPT !.quiet = c.quiet + 1]
  <1>1. c.quiet < 2 /\ hub' = [hub EXCEPT !.conn[s].quiet = @ + 1]
    BY DEF Quiet
  <1>2. hub'.conn = [hub.conn EXCEPT ![s] = d] /\ hub'.owner = hub.owner
    BY <1>1, TypeFacts DEF HubSet
  <1>3. c \in Conn
    BY TypeFacts
  <1>4. c.quiet \in 0..2
    BY <1>3 DEF Conn
  <1>5. c.quiet + 1 \in 0..2
    BY <1>1, <1>4
  <1>6. d \in Conn /\ Milder(c, d)
    BY <1>3, <1>5, QuietSoft
  <1>. HIDE DEF d
  <1> QED BY <1>2, <1>6, OneSoft

LEMMA HoldSoft ==
  ASSUME IInv, NEW s \in Sid, NEW x \in Prompt, Hold(s, x)
  PROVE  Softly
  <1> DEFINE c == hub.conn[s]
             t == Append(c.held, x)
             d == [c EXCEPT !.held = t]
  <1>1. hub' = [hub EXCEPT !.conn[s].held = t, !.files[s] = t]
    BY DEF Hold
  <1>2. c \in Conn /\ t \in Seq(Prompt)
    BY TypeFacts, HeldType
  <1>. HIDE DEF t
  <1>3. hub'.conn = [hub.conn EXCEPT ![s] = d] /\ hub'.owner = hub.owner
    BY <1>1, TypeFacts DEF HubSet
  <1>4. d \in Conn /\ Milder(c, d)
    BY <1>2, HeldSoft
  <1>. HIDE DEF d
  <1> QED BY <1>3, <1>4, OneSoft

LEMMA TakeHeldSoft ==
  ASSUME IInv, NEW n \in Session, TakeHeld(n)
  PROVE  Softly
  <1> DEFINE s == hub.owner[n]
             c == hub.conn[s]
             st == [sid |-> s, texts |-> c.held, late |-> FALSE]
             d == [c EXCEPT !.held = <<>>]
  <1>1. s # None /\ hub' = [hub EXCEPT !.conn[s].held = <<>>, !.files[s] = <<>>, !.stop = st]
    BY DEF TakeHeld
  <1>2. s \in Sid /\ <<>> \in Seq(Prompt)
    BY <1>1, TypeFacts
  <1>. HIDE DEF st
  <1>3. hub'.conn = [hub.conn EXCEPT ![s] = d] /\ hub'.owner = hub.owner
    BY <1>1, TypeFacts DEF HubSet
  <1>4. d \in Conn /\ Milder(c, d)
    BY <1>2, TypeFacts, HeldSoft
  <1>. HIDE DEF d
  <1> QED BY <1>2, <1>3, <1>4, OneSoft

LEMMA StoppedSoft ==
  ASSUME IInv, Stopped
  PROVE  Softly
  <1>1. hub' = [hub EXCEPT !.stop = NoStop]
    BY DEF Stopped
  <1>2. hub'.conn = hub.conn /\ hub'.owner = hub.owner
    BY <1>1, TypeFacts DEF HubSet
  <1> QED BY <1>2, NoneSoft

LEMMA PutBackSoft ==
  ASSUME IInv, PutBack
  PROVE  Softly
  <1> DEFINE st == hub.stop
             s == st.sid
             h == [hub EXCEPT !.stop = NoStop]
             t == st.texts \o h.conn[s].held
             back == [h EXCEPT !.conn[s].held = t, !.files[s] = t]
  <1>1. h \in HubSet /\ h.conn = hub.conn /\ h.owner = hub.owner
    BY TypeFacts, NoStopType DEF HubSet
  <1>2. st.texts \in Seq(Prompt) /\ s \in Sid
    <2>1. s \in Sid \cup {None} /\ st.texts \in Seq(Prompt)
      BY TypeFacts DEF HubSet
    <2> QED BY <2>1 DEF PutBack
  <1>3. CASE st.late
    <2>1. hub' = [h EXCEPT !.files[s] = st.texts]
      BY <1>3 DEF PutBack
    <2>. HIDE DEF h
    <2>2. hub'.conn = h.conn /\ hub'.owner = h.owner
      BY <1>1, <2>1 DEF HubSet
    <2> QED BY <1>1, <2>2, NoneSoft
  <1>4. CASE ~st.late
    <2>1. hub' = Release(back, s)
      BY <1>4 DEF PutBack
    <2>. HIDE DEF h
    <2> DEFINE c == h.conn[s]
               d == [c EXCEPT !.held = t]
    <2>2. c \in Conn /\ t \in Seq(Prompt)
      BY <1>1, <1>2, HeldType
    <2>. HIDE DEF t
    <2>3. d \in Conn /\ Milder(c, d)
      BY <2>2, HeldSoft
    <2>4. back.conn = [h.conn EXCEPT ![s] = d] /\ back.owner = h.owner
      BY <1>1 DEF HubSet
    <2>5. /\ [h.conn EXCEPT ![s] = d] \in [Sid -> Conn]
          /\ [h.files EXCEPT ![s] = t] \in [Sid -> Seq(Prompt)]
      BY <1>1, <2>2, <2>3 DEF HubSet
    <2>6. back \in HubSet
      BY <1>1, <2>4, <2>5 DEF HubSet
    <2>. HIDE DEF d
    <2>7. back.conn[s] = d /\ \A x \in Sid \ {s} : back.conn[x] = h.conn[x]
      BY <1>1, <1>2, <2>4, TypeFacts
    <2>. HIDE DEF back
    <2>8. /\ hub' \in HubSet /\ hub'.owner = back.owner
          /\ Milder(d, hub'.conn[s])
          /\ \A x \in Sid \ {s} : hub'.conn[x] = back.conn[x]
      BY <1>2, <2>1, <2>6, <2>7, ReleaseSoft
    <2>9. Milder(hub.conn[s], hub'.conn[s])
      BY <1>1, <2>3, <2>8, SoftTwice
    <2>10. \A x \in Sid : Softer(hub.conn[x], hub'.conn[x])
      BY <1>1, <2>7, <2>8, <2>9 DEF Softer, Milder, Alike
    <2> QED BY <1>1, <2>4, <2>8, <2>10 DEF Softly, Frees
  <1> QED BY <1>3, <1>4

LEMMA RestartSoft ==
  ASSUME IInv, Restart
  PROVE  Softly
  <1>1. hub'.conn = [x \in Sid |-> NoConn] /\ hub'.owner = [n \in Session |-> None]
    BY TypeFacts DEF Restart, HubSet
  <1> QED BY <1>1 DEF Softly, Softer, Frees

-----------------------------------------------------------------------------
(* Whose a session is.                                                     *)

\* Until a rename, a Claude that has its session writes to it, and is the only one.
LEMMA SpeaksAt ==
  ASSUME IInv, OptionsInv, renames = 0, NEW p \in Pane, Speaks(p)
  PROVE  LET c == hub.conn[claude[p]]
         IN  /\ claude[p] \in Sid /\ c.session = name[p] /\ c.pane = p
             /\ hub.owner[name[p]] = claude[p]
             /\ ~Lost(c) /\ Target(c) = name[p]
  <1> DEFINE c == hub.conn[claude[p]]
  <1>1. claude[p] \in Sid /\ linked[p] /\ c.token /\ c.stamps
    BY TypeFacts DEF Speaks
  <1>2. c.on /\ c.pane = p
    BY <1>1 DEF IInv, Talks, OptionsInv, Stands
  <1>3. c.session = name[p]
    BY <1>1, <1>2 DEF OptionsInv, AtName
  <1>4. hub.owner[name[p]] = claude[p]
    BY <1>1, <1>2, <1>3 DEF IInv, One
  <1>5. ~Lost(c)
    BY <1>3 DEF Lost
  <1> QED BY <1>1, <1>2, <1>3, <1>4, <1>5 DEF Target

LEMMA SpeaksAlone ==
  ASSUME IInv, OptionsInv, renames = 0, NEW p \in Pane, NEW q \in Pane,
         Speaks(p), Speaks(q), name[p] = name[q]
  PROVE  p = q
  <1>1. /\ claude[p] \in Sid /\ hub.conn[claude[p]].pane = p
        /\ hub.owner[name[p]] = claude[p]
    BY SpeaksAt
  <1>2. /\ claude[q] \in Sid /\ hub.conn[claude[q]].pane = q
        /\ hub.owner[name[q]] = claude[q]
    BY SpeaksAt
  <1> QED BY <1>1, <1>2

-----------------------------------------------------------------------------
(* The actions.                                                            *)

\* A step of the service that touches the hub only.
LEMMA HubStep ==
  ASSUME IInv, IInv', OptionsInv, Softly,
         UNCHANGED <<worldVars, tmuxVars, renames, crossed>>
  PROVE  OptionsInv'
  <1>1. Apart'
    BY DEF OptionsInv, Apart, worldVars
  <1> QED BY <1>1, SoftStep DEF worldVars, tmuxVars

LEMMA RestartOptions ==
  ASSUME IInv, IInv', OptionsInv, Restart
  PROVE  OptionsInv'
  <1>1. Apart'
    BY DEF OptionsInv, Apart, Restart
  <1>2. \A q \in Pane : asking'[q] = NoHello /\ ~Has(q)'
    <2>1. hub'.owner = [n \in Session |-> None] /\ claude' = claude /\ linked' = linked
      <3>1. hub' = [hub EXCEPT !.conn = [x \in Sid |-> NoConn], !.owner = [n \in Session |-> None],
                               !.carry = [q \in Pane |-> NoCarry], !.stop = NoStop]
        BY DEF Restart
      <3> QED BY <3>1, TypeFacts DEF Restart, HubSet
    <2>2. \A q \in Pane : name'[q] = name[q] /\ name[q] \in Session /\ (linked[q] => claude[q] \in Sid)
      BY TypeFacts DEF Restart
    <2> QED BY <2>1, <2>2, NoneAssumption DEF Has, Restart
  <1> QED BY <1>1, <1>2, RestartSoft, SoftStep DEF Restart, tmuxVars

LEMMA RefusedOptions ==
  ASSUME IInv, IInv', OptionsInv, NEW p \in Pane, Refused(p)
  PROVE  OptionsInv'
  <1>1. /\ UNCHANGED <<claude, name, asking, hub, stamp, shown, renames, crossed>>
        /\ linked' = [linked EXCEPT ![p] = FALSE]
    BY DEF Refused, tmuxVars, ghostVars, boundVars
  <1>2. Apart'
    BY <1>1 DEF OptionsInv, Apart
  <1>3. \A q \in Pane : linked'[q] => linked[q] /\ claude'[q] = claude[q]
    BY <1>1 DEF IInv, WorldType
  <1> QED BY <1>1, <1>2, <1>3, NoneSoft, SoftStep

LEMMA StartOptions ==
  ASSUME IInv, IInv', OptionsInv, NEW p \in Pane, NEW s \in Sid, Start(p, s)
  PROVE  OptionsInv'
  <1>1. /\ UNCHANGED <<name, asking, hub, stamp, shown, renames, crossed>>
        /\ claude' = [claude EXCEPT ![p] = s] /\ linked' = [linked EXCEPT ![p] = FALSE]
        /\ s \notin Running
    BY DEF Start, tmuxVars, ghostVars, boundVars
  <1>2. Apart'
    BY <1>1, NoneAssumption DEF OptionsInv, Apart, Running, IInv, WorldType
  <1>3. \A q \in Pane : linked'[q] => linked[q] /\ claude'[q] = claude[q]
    BY <1>1 DEF IInv, WorldType
  <1> QED BY <1>1, <1>2, <1>3, NoneSoft, SoftStep

LEMMA EndOptions ==
  ASSUME IInv, IInv', TypeOK, OptionsInv, NEW p \in Pane,
         NEW next \in Sid \cup {None}, End(p, next)
  PROVE  OptionsInv'
  <1> DEFINE s == claude[p]
             c == hub.conn[s]
  <1>1. /\ UNCHANGED <<name, asking, stamp, renames, crossed>>
        /\ s # None /\ next \in {None} \cup (Sid \ Running)
        /\ claude' = [claude EXCEPT ![p] = next] /\ linked' = [linked EXCEPT ![p] = FALSE]
        /\ \/ linked[p] /\ c.token /\ Bye(s)
           \/ UNCHANGED <<hub, shown>>
    BY DEF End, ghostVars
  <1>2. Apart'
    BY <1>1 DEF OptionsInv, Apart, Running, IInv, WorldType
  <1>3. \A q \in Pane : linked'[q] => linked[q] /\ claude'[q] = claude[q] /\ q # p
    BY <1>1 DEF IInv, WorldType
  <1>4. CASE UNCHANGED <<hub, shown>>
    BY <1>1, <1>2, <1>3, <1>4, NoneSoft, SoftStep
  <1>5. CASE linked[p] /\ c.token /\ c.stamps /\ Bye(s)
    <2>1. hub' = Drop(hub, s) /\ shown' = [shown EXCEPT ![Target(c)] = ""]
      BY <1>5 DEF Bye
    <2>2. s \in Sid
      BY <1>1, TypeFacts
    <2>3. Softly
      BY <2>1, <2>2, DropSoft
    <2>4. ASSUME NEW q \in Pane, renames = 0, Speaks(q), Speaks(q)'
          PROVE  shown'[name[q]] = shown[name[q]]
      <3>1. Speaks(p)
        BY <1>5 DEF Speaks
      <3>2. Target(c) = name[p]
        BY <2>4, <3>1, SpeaksAt
      <3>3. q # p
        BY <1>3, <2>4 DEF Speaks
      <3>4. name[q] # name[p]
        BY <2>4, <3>1, <3>3, SpeaksAlone
      <3>5. shown' = [shown EXCEPT ![name[p]] = ""]
        BY <2>1, <3>2
      <3> QED BY <3>4, <3>5, TypeFacts DEF TypeOK, TmuxType
    <2> QED BY <1>1, <1>2, <1>3, <2>3, <2>4, SoftStep
  <1> QED BY <1>1, <1>4, <1>5 DEF Bye

\* What a level leaves of its connection.
LEMMA LevelConn ==
  ASSUME IInv, NEW p \in Pane, NEW turn \in {"idle", "on"}, Level(p, turn)
  PROVE  /\ hub'.owner = hub.owner
         /\ Alike(hub.conn[claude[p]], hub'.conn[claude[p]])
         /\ hub'.conn[claude[p]].written = turn
         /\ \A x \in Sid \ {claude[p]} : hub'.conn[x] = hub.conn[x]
  <1> DEFINE s == claude[p]
             c == hub.conn[s]
             fold == [hub EXCEPT !.conn[s].quiet = 0, !.conn[s].turn = turn,
                                 !.conn[s].written = turn]
             write == c.turn = "unknown" \/ c.written # turn
             d == [c EXCEPT !.quiet = 0, !.turn = turn, !.written = turn]
             rel == Release(fold, s)
             gone == ~(write /\ Lost(c))
             e == [rel.conn[s] EXCEPT !.token = gone]
  <1>1. linked[p] /\ hub' = [rel EXCEPT !.conn[s].token = gone]
    BY DEF Level
  <1>2. s \in Sid /\ c \in Conn /\ gone \in BOOLEAN
    BY <1>1, TypeFacts
  <1>3. d \in Conn /\ Alike(c, d) /\ d.written = turn
    <2>1. d \in Conn /\ Alike(c, d)
      BY <1>2, LevelSet
    <2>2. d.written = turn
      BY <1>2 DEF Conn
    <2> QED BY <2>1, <2>2
  <1>4. fold.conn = [hub.conn EXCEPT ![s] = d] /\ fold.owner = hub.owner /\ fold \in HubSet
    <2>1. /\ fold.conn = [[[hub.conn EXCEPT ![s].quiet = 0] EXCEPT ![s].turn = turn]
                             EXCEPT ![s].written = turn]
          /\ fold.owner = hub.owner
      BY TypeFacts DEF HubSet
    <2>2. fold.conn = [hub.conn EXCEPT ![s] = d]
      BY <1>2, <2>1, TypeFacts
    <2>3. [hub.conn EXCEPT ![s] = d] \in [Sid -> Conn]
      BY <1>2, <1>3, TypeFacts
    <2>4. fold \in HubSet
      BY <2>1, <2>2, <2>3, TypeFacts DEF HubSet
    <2> QED BY <2>1, <2>2, <2>4
  <1>. HIDE DEF d, fold, gone, write
  <1>5. fold.conn[s] = d /\ \A x \in Sid \ {s} : fold.conn[x] = hub.conn[x]
    BY <1>2, <1>3, <1>4, TypeFacts, OneConn
  <1>6. /\ rel \in HubSet /\ rel.owner = fold.owner
        /\ Milder(d, rel.conn[s])
        /\ \A x \in Sid \ {s} : rel.conn[x] = fold.conn[x]
    BY <1>2, <1>3, <1>4, <1>5, ReleaseSoft
  <1>. HIDE DEF rel
  <1>7. e \in Conn /\ Alike(rel.conn[s], e) /\ e.written = rel.conn[s].written
    <2>1. rel.conn[s] \in Conn
      BY <1>2, <1>6 DEF HubSet
    <2>2. e \in Conn /\ Alike(rel.conn[s], e)
      BY <1>2, <2>1, TokenSet
    <2>3. e.written = rel.conn[s].written
      BY <2>1 DEF Conn
    <2> QED BY <2>2, <2>3
  <1>8. hub'.conn = [rel.conn EXCEPT ![s] = e] /\ hub'.owner = rel.owner
    BY <1>1, <1>6 DEF HubSet
  <1>. HIDE DEF e
  <1>9. hub'.conn[s] = e /\ \A x \in Sid \ {s} : hub'.conn[x] = rel.conn[x]
    <2>1. rel.conn \in [Sid -> Conn]
      BY <1>6 DEF HubSet
    <2> QED BY <1>2, <1>8, <2>1
  <1>10. Alike(hub.conn[s], hub'.conn[s])
    BY <1>3, <1>6, <1>7, <1>9 DEF Milder, Alike
  <1>11. hub'.conn[s].written = turn
    BY <1>3, <1>6, <1>7, <1>9 DEF Milder
  <1> QED BY <1>4, <1>5, <1>6, <1>8, <1>9, <1>10, <1>11

LEMMA LevelOptions ==
  ASSUME IInv, IInv', TypeOK, OptionsInv,
         NEW p \in Pane, NEW turn \in {"idle", "on"}, Level(p, turn)
  PROVE  OptionsInv'
  <1> DEFINE s == claude[p]
             c == hub.conn[s]
             write == c.turn = "unknown" \/ c.written # turn
  <1>1. /\ UNCHANGED <<claude, name, linked, asking, stamp, renames, crossed>>
        /\ linked[p] /\ c.token /\ c.stamps
        /\ shown' = IF write THEN [shown EXCEPT ![Target(c)] = turn] ELSE shown
    BY DEF Level, worldVars, boundVars
  <1>2. s \in Sid /\ Speaks(p)
    BY <1>1, TypeFacts DEF Speaks
  <1>3. /\ hub'.owner = hub.owner /\ Alike(c, hub'.conn[s]) /\ hub'.conn[s].written = turn
        /\ \A x \in Sid \ {s} : hub'.conn[x] = hub.conn[x]
    BY LevelConn
  <1>. HIDE DEF c
  <1>4. Firmly
    <2>1. \A x \in Sid : Firm(hub.conn[x], hub'.conn[x])
      BY <1>1, <1>3 DEF Firm, Alike, c
    <2> QED BY <1>3, <2>1 DEF Firmly, Frees
  <1>5. Shows'
    <2>. SUFFICES ASSUME renames = 0, NEW q \in Pane, Speaks(q)',
                         hub'.conn[claude'[q]].turn # "unknown"
         PROVE  shown'[name[q]] = hub'.conn[claude[q]].written
      BY <1>1 DEF Shows
    <2>1. Speaks(q) /\ claude[q] \in Sid
      BY <1>1, <1>4, FirmlySpeaks
    <2>2. Target(c) = name[p]
      BY <1>2, SpeaksAt DEF c
    <2>3. shown \in [Session -> {"", "idle", "on"}] /\ name[p] \in Session
      BY TypeFacts DEF TypeOK, TmuxType
    <2>4. CASE q = p
      <3>1. CASE write
        <4>1. shown' = [shown EXCEPT ![name[p]] = turn]
          BY <1>1, <2>2, <3>1
        <4>2. shown'[name[p]] = turn
          BY <2>3, <4>1
        <4> QED BY <1>1, <1>3, <2>4, <4>2
      <3>2. CASE ~write
        <4>1. shown[name[p]] = c.written
          BY <1>2, <3>2 DEF OptionsInv, Shows, c
        <4> QED BY <1>1, <1>3, <2>4, <3>2, <4>1
      <3> QED BY <3>1, <3>2
    <2>5. CASE q # p
      <3>1. name[q] # name[p]
        BY <1>2, <2>1, <2>5, SpeaksAlone
      <3>2. shown'[name[q]] = shown[name[q]]
        <4>1. shown' = shown \/ shown' = [shown EXCEPT ![name[p]] = turn]
          BY <1>1, <2>2
        <4> QED BY <2>3, <3>1, <4>1, TypeFacts
      <3>3. claude[q] # s
        BY <1>2, <2>1, <2>5, NoneAssumption DEF OptionsInv, Apart
      <3>4. hub'.conn[claude[q]] = hub.conn[claude[q]]
        BY <1>3, <2>1, <3>3
      <3> QED BY <1>1, <2>1, <3>2, <3>4 DEF OptionsInv, Shows
    <2> QED BY <2>4, <2>5
  <1>6. Apart'
    BY <1>1 DEF OptionsInv, Apart
  <1> QED BY <1>1, <1>4, <1>5, <1>6, FirmStep

\* Stamping(q, m), once the step is made.
WillStamp(q, m) == asking'[q] # NoHello /\ asking'[q].session = m /\ ~asking'[q].yields

LEMMA HelloStampsOptions ==
  ASSUME IInv, IInv', TypeOK, OptionsInv, NEW p \in Pane, HelloStamps(p)
  PROVE  OptionsInv'
  <1> DEFINE s == claude[p]
             n == name[p]
             yields == Yields(hub, s, p, n)
  <1>1. /\ UNCHANGED <<claude, name, linked, hub, shown, renames>>
        /\ s # None /\ ~linked[p] /\ asking[p] = NoHello
        /\ asking' = [asking EXCEPT ![p] = [sid |-> s, session |-> n, yields |-> yields]]
        /\ stamp' = IF yields THEN stamp ELSE [stamp EXCEPT ![n] = s]
        /\ crossed' = (crossed \/ (~yields /\ \E q \in Pane \ {p} : Stamping(q, n)))
    BY DEF HelloStamps, boundVars
  <1> HIDE DEF yields
  <1>2. /\ asking'[p] = [sid |-> s, session |-> n, yields |-> yields]
        /\ \A q \in Pane \ {p} : asking'[q] = asking[q]
    BY <1>1 DEF IInv, WorldType
  <1>3. Apart' /\ Stands' /\ Shows'
    BY <1>1 DEF OptionsInv, Apart, Stands, Shows, Speaks
  <1>4. AtName'
    BY <1>1, <1>2 DEF OptionsInv, AtName
  <1>5. stamp \in [Session -> Sid \cup {None}] /\ \A q \in Pane : name[q] \in Session
    BY TypeFacts DEF TypeOK, TmuxType
  <1>6. /\ asking'[p] # NoHello
        /\ \A m : WillStamp(p, m) <=> m = n /\ ~yields
    <2>1. asking'[p].sid = s /\ NoHello.sid = None
      BY <1>2 DEF NoHello
    <2>2. asking'[p].session = n /\ asking'[p].yields = yields
      BY <1>2
    <2>3. asking'[p] # NoHello
      BY <1>1, <2>1
    <2> QED BY <2>2, <2>3 DEF WillStamp
  <1>7. \A q \in Pane \ {p} : \A m : WillStamp(q, m) <=> Stamping(q, m)
    BY <1>2 DEF Stamping, WillStamp
  <1>8. \A m : ~Stamping(p, m)
    BY <1>1 DEF Stamping
  <1>9. crossed \in BOOLEAN /\ crossed' \in BOOLEAN
    BY <1>1 DEF TypeOK, GhostType
  <1>10. StampedFirst'
    <2>. SUFFICES ASSUME ~crossed', renames <= 1, NEW q \in Pane, NEW r \in Pane,
                         WillStamp(q, name[r])
         PROVE  stamp'[name[r]] = asking'[q].sid
      BY <1>1 DEF StampedFirst, Stamping, WillStamp
    <2>1. ~crossed /\ (~yields => \A x \in Pane \ {p} : ~Stamping(x, n))
      BY <1>1, <1>9
    <2>2. CASE q = p
      BY <1>1, <1>2, <1>5, <1>6, <2>2
    <2>3. CASE q # p
      <3>1. Stamping(q, name[r]) /\ asking'[q] = asking[q]
        BY <1>2, <1>7, <2>3
      <3>2. stamp[name[r]] = asking[q].sid
        BY <2>1, <3>1 DEF OptionsInv, StampPart, StampedFirst
      <3>3. yields \/ name[r] # n
        BY <2>1, <2>3, <3>1
      <3> QED BY <1>1, <1>5, <3>1, <3>2, <3>3
    <2> QED BY <2>2, <2>3
  <1>11. Stamped'
    <2>. SUFFICES ASSUME ~crossed', renames <= 1, NEW q \in Pane, Has(q)
         PROVE  stamp'[name[q]] = claude[q] \/ \E r \in Pane : WillStamp(r, name[q])
      BY <1>1 DEF Stamped, Has, Stamping, WillStamp
    <2>1. stamp[name[q]] = claude[q] \/ \E r \in Pane : Stamping(r, name[q])
      BY <1>1, <1>9 DEF OptionsInv, StampPart, Stamped
    <2>2. CASE yields \/ name[q] # n
      <3>1. stamp'[name[q]] = stamp[name[q]]
        BY <1>1, <1>5, <2>2
      <3> QED BY <1>7, <1>8, <2>1, <3>1
    <2>3. CASE ~yields /\ name[q] = n
      BY <1>6, <2>3
    <2> QED BY <2>2, <2>3
  <1> QED BY <1>3, <1>4, <1>10, <1>11 DEF OptionsInv, StampPart

\* A session is renamed to a name nobody has, with the options it has.
LEMMA RenameOptions ==
  ASSUME IInv, IInv', TypeOK, OptionsInv,
         NEW m \in Session, NEW n \in Session, Rename(m, n)
  PROVE  OptionsInv'
  <1>1. /\ UNCHANGED <<claude, linked, asking, hub, crossed>> /\ renames' = renames + 1
        /\ \A q \in Pane : name[q] # n
        /\ name' = [q \in Pane |-> IF name[q] = m THEN n ELSE name[q]]
        /\ stamp' = [stamp EXCEPT ![n] = stamp[m], ![m] = None]
    BY DEF Rename, ghostVars
  <1>2. renames' # 0 /\ (renames' <= 1 => renames = 0)
    <2>1. renames \in Nat
      BY DEF TypeOK
    <2> QED BY <1>1, <2>1
  <1>3. Apart' /\ Stands' /\ AtName' /\ Shows'
    BY <1>1, <1>2 DEF OptionsInv, Apart, Stands, AtName, Shows
  <1>4. /\ stamp \in [Session -> Sid \cup {None}]
        /\ \A q \in Pane : name[q] \in Session /\ name'[q] \in Session
    BY <1>1, TypeFacts DEF TypeOK, TmuxType
  <1>5. ASSUME NEW q \in Pane, NEW r \in Pane, Stamping(q, name'[r]), renames = 0
        PROVE  name'[r] = name[q] /\ name[q] \notin {m, n}
    <2>1. name[q] = name'[r]
      BY <1>5 DEF OptionsInv, AtName, Stamping
    <2> QED BY <1>1, <2>1
  <1>6. StampedFirst'
    <2>. SUFFICES ASSUME ~crossed, renames = 0, NEW q \in Pane, NEW r \in Pane,
                         Stamping(q, name'[r])
         PROVE  stamp'[name'[r]] = asking[q].sid
      BY <1>1, <1>2 DEF StampedFirst, Stamping
    <2>1. name'[r] = name[q] /\ name[q] \notin {m, n}
      BY <1>5
    <2>2. stamp[name[q]] = asking[q].sid
      BY <2>1 DEF OptionsInv, StampPart, StampedFirst
    <2> QED BY <1>1, <1>4, <2>1, <2>2
  <1>7. Stamped'
    <2>. SUFFICES ASSUME ~crossed, renames = 0, NEW q \in Pane, Has(q)'
         PROVE  stamp'[name'[q]] = claude[q] \/ \E r \in Pane : Stamping(r, name'[q])
      BY <1>1, <1>2 DEF Stamped, Stamping
    <2>1. /\ linked[q] /\ hub.conn[claude[q]].token
          /\ hub.owner[name'[q]] = claude[q]
      BY <1>1 DEF Has
    <2>2. claude[q] \in Sid /\ hub.conn[claude[q]].pane = q
      BY <2>1 DEF IInv, Talks
    <2>3. hub.conn[claude[q]].on /\ hub.conn[claude[q]].session = name'[q]
      BY <1>4, <2>1, <2>2, NoneAssumption DEF IInv, One
    <2>4. name'[q] = name[q]
      BY <2>2, <2>3 DEF OptionsInv, AtName
    <2>5. name[q] # m /\ name[q] # n
      BY <1>1, <2>4
    <2>6. Has(q)
      BY <2>1, <2>4 DEF Has
    <2>7. stamp'[name[q]] = stamp[name[q]]
      BY <1>1, <1>4, <2>5
    <2> QED BY <2>4, <2>6, <2>7 DEF OptionsInv, StampPart, Stamped
  <1> QED BY <1>3, <1>6, <1>7 DEF OptionsInv, StampPart

\* The state goes only where no Claude runs.
LEMMA SweepWritesOptions ==
  ASSUME IInv, IInv', TypeOK, OptionsInv, NEW n \in Session, SweepWrites(n)
  PROVE  OptionsInv'
  <1>1. /\ UNCHANGED <<claude, name, linked, asking, hub, stamp, renames, crossed>>
        /\ shown' = IF \E q \in Pane : name[q] = n /\ claude[q] # None THEN shown
                    ELSE [shown EXCEPT ![n] = ""]
    BY DEF SweepWrites, worldVars, ghostVars, boundVars
  <1>2. \A q \in Pane : Speaks(q) => shown'[name[q]] = shown[name[q]]
    <2>. SUFFICES ASSUME NEW q \in Pane, Speaks(q)
         PROVE  shown'[name[q]] = shown[name[q]]
      OBVIOUS
    <2>1. claude[q] # None /\ name[q] \in Session
      BY TypeFacts, NoneAssumption DEF Speaks
    <2> QED BY <1>1, <2>1, TypeFacts DEF TypeOK, TmuxType
  <1>3. Shows'
    BY <1>1, <1>2 DEF OptionsInv, Shows, Speaks
  <1>4. Apart' /\ Stands' /\ AtName'
    BY <1>1 DEF OptionsInv, Apart, Stands, AtName
  <1>5. StampPart'
    BY <1>1 DEF OptionsInv, StampPart, Stamped, StampedFirst, Stamping, Has
  <1> QED BY <1>3, <1>4, <1>5 DEF OptionsInv

\* What One says of a hub.
LEMMA OneSays ==
  ASSUME NEW g, One(g)
  PROVE  /\ \A x \in Sid : g.conn[x].on => (g.conn[x].stamps <=> g.owner[g.conn[x].session] = x)
         /\ \A m \in Session : g.owner[m] # None => g.conn[g.owner[m]].session = m
  BY DEF One

\* A hello that registers in a hub h, which is the service's but for a connection put
\* out and for what the new one adopts.
LEMMA HelloOptions ==
  ASSUME IInv, IInv', TypeOK, OptionsInv, NEW p \in Pane, HelloRegisters(p),
         NEW h \in HubSet, One(h),
         hub' = Register(h, asking[p].sid, p, asking[p].session),
         \A x \in Sid \ {asking[p].sid} : h.conn[x] \in {hub.conn[x], NoConn},
         \A n \in Session : h.owner[n] \in {hub.owner[n], None}
  PROVE  OptionsInv'
  <1> DEFINE s == asking[p].sid
             n == asking[p].session
  <1>1. /\ asking[p] # NoHello /\ UNCHANGED <<claude, name, stamp, shown, renames>>
        /\ asking' = [asking EXCEPT ![p] = NoHello]
        /\ linked' = [q \in Pane |-> IF claude[q] = s THEN q = p ELSE linked[q]]
    BY DEF HelloRegisters, tmuxVars, boundVars
  <1>2. s \in Sid /\ n \in Session /\ n \in Session \cup {None}
    BY <1>1, TypeFacts
  <1>3. /\ hub'.conn[s].pane = p /\ hub'.conn[s].on
        /\ hub'.conn[s].session = n /\ hub'.conn[s].turn = "unknown"
        /\ \A x \in Sid \ {s} : hub'.conn[x] \in {h.conn[x], NoConn}
        /\ \A m \in Session : hub'.owner[m] \in {h.owner[m], None} \/ (m = n /\ hub'.owner[m] = s)
        /\ Yields(h, s, p, n) => hub'.owner[n] = h.owner[n]
    BY <1>2, RegisterHub
  <1>4. \A x \in Sid \ {s} : hub'.conn[x] \in {hub.conn[x], NoConn}
    BY <1>3
  <1>5. \A q \in Pane : asking'[q] = IF q = p THEN NoHello ELSE asking[q]
    BY <1>1 DEF IInv, WorldType
  <1>6. Apart'
    BY <1>1 DEF OptionsInv, Apart
  <1>7. Stands'
    <2>1. \A x \in Sid \ {s} : hub'.conn[x].stamps => hub'.conn[x].on
      BY <1>4, NoConnFields DEF OptionsInv, Stands
    <2> QED BY <1>3, <2>1 DEF Stands
  <1>8. AtName'
    <2>. SUFFICES ASSUME renames = 0 PROVE AtName'
      BY <1>1 DEF AtName
    <2>1. \A q \in Pane : asking'[q] # NoHello => asking'[q].session = name[q]
      BY <1>5 DEF OptionsInv, AtName
    <2>2. n = name[p]
      BY <1>1 DEF OptionsInv, AtName
    <2>3. \A x \in Sid \ {s} : hub'.conn[x].on =>
             hub'.conn[x].pane \in Pane /\ hub'.conn[x].session = name[hub'.conn[x].pane]
      BY <1>4, NoConnFields DEF OptionsInv, AtName
    <2>4. hub'.conn[s].pane \in Pane /\ hub'.conn[s].session = name[hub'.conn[s].pane]
      BY <1>3, <2>2
    <2>5. \A x \in Sid : hub'.conn[x].on =>
             hub'.conn[x].pane \in Pane /\ hub'.conn[x].session = name[hub'.conn[x].pane]
      BY <2>3, <2>4
    <2> QED BY <1>1, <2>1, <2>5 DEF AtName
  <1>9. Shows'
    <2>. SUFFICES ASSUME renames = 0, NEW q \in Pane, Speaks(q)',
                         hub'.conn[claude[q]].turn # "unknown"
         PROVE  shown[name[q]] = hub'.conn[claude[q]].written
      BY <1>1 DEF Shows
    <2>1. claude[q] # s
      BY <1>3
    <2>2. /\ linked[q] /\ claude[q] \in Sid \ {s}
          /\ hub'.conn[claude[q]].token /\ hub'.conn[claude[q]].stamps
      BY <1>1, <2>1, TypeFacts DEF Speaks
    <2>3. hub'.conn[claude[q]] = hub.conn[claude[q]]
      BY <1>4, <2>2, NoConnFields
    <2>4. Speaks(q)
      BY <2>2, <2>3 DEF Speaks
    <2> QED BY <2>3, <2>4 DEF OptionsInv, Shows
  <1>10. /\ crossed \in BOOLEAN /\ crossed' \in BOOLEAN
         /\ crossed' = (crossed \/ asking[p].yields = hub'.conn[s].stamps)
    BY DEF HelloRegisters, TypeOK, GhostType
  <1>15. One(hub')
    BY DEF IInv
  <1>11. hub'.owner[n] = s <=> hub'.conn[s].stamps
    BY <1>2, <1>3, <1>15, OneSays
  <1>12. ASSUME ~crossed' PROVE ~crossed /\ (Stamping(p, n) <=> hub'.owner[n] = s)
    <2>1. asking[p].yields \in BOOLEAN /\ hub'.conn[s].stamps \in BOOLEAN
      <3>1. hub'.conn[s] \in Conn
        BY <1>2 DEF IInv, HubSet
      <3> QED BY <1>1, <3>1, NoneAssumption DEF IInv, WorldType, Conn
    <2> QED BY <1>1, <1>10, <1>11, <1>12, <2>1 DEF Stamping
  <1>13. StampedFirst'
    <2>. SUFFICES ASSUME ~crossed', renames <= 1, NEW q \in Pane, NEW r \in Pane,
                         WillStamp(q, name[r])
         PROVE  stamp[name[r]] = asking'[q].sid
      BY <1>1 DEF StampedFirst, Stamping, WillStamp
    <2>1. q # p /\ asking'[q] = asking[q] /\ Stamping(q, name[r])
      BY <1>5 DEF Stamping, WillStamp
    <2> QED BY <1>12, <2>1 DEF OptionsInv, StampPart, StampedFirst
  <1>14. Stamped'
    <2>. SUFFICES ASSUME ~crossed', renames <= 1, NEW q \in Pane, Has(q)'
         PROVE  stamp[name[q]] = claude[q] \/ \E r \in Pane : WillStamp(r, name[q])
      BY <1>1 DEF Stamped, Stamping, WillStamp
    <2>1. /\ linked'[q] /\ hub'.conn[claude[q]].token
          /\ hub'.owner[name[q]] = claude[q]
      BY <1>1 DEF Has
    <2>2. claude[q] \in Sid /\ name[q] \in Session
      <3>1. claude[q] \in Sid
        BY <1>1, <2>1 DEF IInv, Talks
      <3> QED BY <3>1, TypeFacts
    <2>3. CASE claude[q] = s
      <3>1. q = p
        BY <1>1, <2>1, <2>3
      <3>2. name[q] = n
        <4>1. hub'.conn[s].session = name[q]
          BY <1>2, <1>15, <2>1, <2>2, <2>3, NoneAssumption, OneSays
        <4> QED BY <1>3, <4>1
      <3>3. Stamping(p, name[p])
        BY <1>12, <2>1, <2>3, <3>1, <3>2
      <3>4. stamp[name[p]] = s
        BY <1>12, <3>3 DEF OptionsInv, StampPart, StampedFirst
      <3> QED BY <2>3, <3>1, <3>4
    <2>4. CASE claude[q] # s
      <3>1. linked[q] /\ hub'.conn[claude[q]] \in {hub.conn[claude[q]], NoConn}
        BY <1>1, <1>4, <2>1, <2>2, <2>4
      <3>2. hub.conn[claude[q]].token
        BY <2>1, <3>1, NoConnFields
      <3>3. hub.owner[name[q]] = claude[q]
        BY <1>3, <2>1, <2>2, <2>4, NoneAssumption
      <3>4. Has(q)
        BY <3>1, <3>2, <3>3 DEF Has
      <3>5. stamp[name[q]] = claude[q] \/ \E r \in Pane : Stamping(r, name[q])
        BY <1>12, <3>4 DEF OptionsInv, StampPart, Stamped
      <3>6. ~Stamping(p, name[q])
        <4>1. ASSUME Stamping(p, name[q]) PROVE FALSE
          <5>1. name[q] = n
            BY <4>1 DEF Stamping
          <5>2. hub'.owner[n] = s
            BY <1>12, <4>1, <5>1
          <5> QED BY <2>1, <2>4, <5>1, <5>2
        <4> QED BY <4>1
      <3>7. \A r \in Pane \ {p} : Stamping(r, name[q]) => WillStamp(r, name[q])
        BY <1>1, <1>5 DEF Stamping, WillStamp
      <3> QED BY <3>5, <3>6, <3>7
    <2> QED BY <2>3, <2>4
  <1> QED BY <1>6, <1>7, <1>8, <1>9, <1>13, <1>14 DEF OptionsInv, StampPart

LEMMA HelloRegistersOptions ==
  ASSUME IInv, IInv', TypeOK, OptionsInv, NEW p \in Pane, HelloRegisters(p)
  PROVE  OptionsInv'
  <1> DEFINE s == asking[p].sid
             n == asking[p].session
  <1>1. s \in Sid /\ n \in Session
    BY TypeFacts DEF HelloRegisters
  <1>2. CASE hub.conn[s].on
    <2>1. hub' = Register(hub, s, p, n)
      BY <1>2 DEF HelloRegisters
    <2> QED BY <2>1, HelloOptions DEF IInv
  <1>3. CASE ~hub.conn[s].on
    <2>1. PICK v \in Victims :
             hub' = Register(Adopt(IF v = None THEN hub ELSE Drop(hub, v), s, p), s, p, n)
      BY <1>3 DEF HelloRegisters
    <2> DEFINE g == IF v = None THEN hub ELSE Drop(hub, v)
               h == Adopt(g, s, p)
    <2>2. /\ g \in HubSet /\ One(g) /\ ~g.conn[s].on
          /\ \A x \in Sid : g.conn[x] = hub.conn[x] \/ (x = v /\ g.conn[x] = NoConn)
          /\ \A m \in Session : g.owner[m] = hub.owner[m] \/ (g.owner[m] = None /\ hub.owner[m] = v)
      <3>1. CASE v = None
        BY <1>3, <3>1 DEF IInv
      <3>2. CASE v # None
        <4>1. v \in Sid
          BY <3>2 DEF Victims, Registered
        <4>2. /\ g \in HubSet /\ One(g) /\ g.conn = [hub.conn EXCEPT ![v] = NoConn]
              /\ g.owner = [hub.owner EXCEPT ![hub.conn[v].session] = IF @ = v THEN None ELSE @]
          BY <3>2, <4>1, DropHub, DropOne DEF IInv
        <4>. HIDE DEF g
        <4>3. \A x \in Sid : g.conn[x] = IF x = v THEN NoConn ELSE hub.conn[x]
          BY <4>2, TypeFacts
        <4>4. \A m \in Session : g.owner[m] = hub.owner[m]
                                 \/ (g.owner[m] = None /\ hub.owner[m] = v)
          BY <4>2, TypeFacts
        <4> QED BY <1>1, <1>3, <4>1, <4>2, <4>3, <4>4, NoConnType
      <3> QED BY <3>1, <3>2
    <2>. HIDE DEF g
    <2>3. /\ h \in HubSet /\ One(h) /\ h.owner = g.owner
          /\ \A x \in Sid \ {s} : h.conn[x] = g.conn[x]
      BY <1>1, <2>2, AdoptHub, AdoptOne
    <2>4. hub' = Register(h, s, p, n)
      BY <2>1 DEF g
    <2>. HIDE DEF h
    <2>5. \A x \in Sid \ {s} : h.conn[x] \in {hub.conn[x], NoConn}
      BY <2>2, <2>3
    <2>6. \A m \in Session : h.owner[m] \in {hub.owner[m], None}
      BY <2>2, <2>3
    <2> QED BY <2>3, <2>4, <2>5, <2>6, HelloOptions
  <1> QED BY <1>2, <1>3

LEMMA StepOptions ==
  ASSUME IInv, IInv', TypeOK, OptionsInv, [Next]_vars
  PROVE  OptionsInv'
  <1>1. CASE \E p \in Pane : HelloRegisters(p)
    BY <1>1, HelloRegistersOptions
  <1>2. CASE \E n \in Session : SweepWrites(n)
    BY <1>2, SweepWritesOptions
  <1>3. CASE UNCHANGED vars
    <2>1. UNCHANGED <<claude, name, linked, asking, hub, stamp, shown, renames, crossed>>
      BY <1>3 DEF vars, worldVars, tmuxVars, ghostVars, boundVars
    <2>2. Apart' /\ Stands' /\ AtName' /\ Shows'
      BY <2>1 DEF OptionsInv, Apart, Stands, AtName, Shows, Speaks
    <2>3. StampPart'
      BY <2>1 DEF OptionsInv, StampPart, Stamped, StampedFirst, Stamping, Has
    <2> QED BY <2>2, <2>3 DEF OptionsInv
  <1>4. ASSUME World
        PROVE  OptionsInv'
    BY <1>4, StartOptions, EndOptions, RenameOptions DEF World
  <1>5. ASSUME NEW p \in Pane, Mod(p)
        PROVE  OptionsInv'
    <2>1. CASE ClaimIfFree(p)
      <3>1. UNCHANGED <<worldVars, tmuxVars, renames, crossed>>
        BY <2>1 DEF ClaimIfFree, ghostVars, boundVars
      <3> QED BY <1>5, <2>1, <3>1, ClaimIfFreeSoft, HubStep
    <2> QED BY <1>5, <2>1, RefusedOptions, HelloStampsOptions, LevelOptions DEF Mod
  <1>6. ASSUME Service
        PROVE  OptionsInv'
    <2>1. UNCHANGED <<worldVars, tmuxVars, renames, crossed>>
      BY <1>6 DEF Service, Follow, Quiet, Sweep, Hold, TakeHeld, Stopped, PutBack,
                  ghostVars, boundVars
    <2>2. Softly
      <3>1. CASE Sweep
        <4>1. \E s \in Sid : hub' = Drop(hub, s)
          BY <3>1 DEF Sweep, Registered
        <4> QED BY <4>1, DropSoft
      <3> QED BY <1>6, <3>1, FollowSoft, QuietStepSoft, HoldSoft, TakeHeldSoft,
                 StoppedSoft, PutBackSoft DEF Service
    <2> QED BY <1>6, <2>1, <2>2, HubStep
  <1>7. ASSUME Restart
        PROVE  OptionsInv'
    BY <1>7, RestartOptions
  <1> QED BY <1>1, <1>2, <1>3, <1>4, <1>5, <1>6, <1>7 DEF Next

LEMMA InitOptions == Init => OptionsInv
  <1>. SUFFICES ASSUME Init PROVE OptionsInv
    OBVIOUS
  <1>1. /\ \A q \in Pane : claude[q] = None /\ ~linked[q] /\ asking[q] = NoHello
        /\ \A s \in Sid : hub.conn[s] = NoConn
    BY DEF Init
  <1>2. Apart /\ Stands /\ AtName /\ Shows
    BY <1>1, NoConnFields DEF Apart, Stands, AtName, Shows, Speaks
  <1>3. StampPart
    BY <1>1 DEF StampPart, Stamped, StampedFirst, Stamping, Has
  <1> QED BY <1>2, <1>3 DEF OptionsInv

LEMMA OptionsHold == Spec => []OptionsInv
  <1>1. IInv /\ IInv' /\ TypeOK /\ OptionsInv /\ [Next]_vars => OptionsInv'
    BY StepOptions
  <1> QED BY <1>1, InitOptions, Inductive, TypesHold, PTL DEF Spec

-----------------------------------------------------------------------------
(* The theorems.                                                           *)

\* The state tmux shows of a session never renamed is the one its Claude last said,
\* with any interleaving of hellos, takeovers, byes, the reaper's late writes, evictions
\* and restarts (apply, fullOnState, sweep in mod.go).
THEOREM StateKept == Spec => []StateFollows
  <1>1. ASSUME IInv, OptionsInv
        PROVE  StateFollows
    <2>. SUFFICES ASSUME renames = 0, NEW p \in Pane, NEW n \in Session, Serves(p, n),
                         hub.conn[claude[p]].turn # "unknown"
         PROVE  shown[n] = hub.conn[claude[p]].written
      BY <1>1 DEF StateFollows
    <2> DEFINE s == claude[p]
    <2>1. PICK q \in Pane : claude[q] = s /\ linked[q] /\ hub.conn[s].token
      BY DEF Serves, Polling
    <2>2. s \in Sid /\ hub.owner[n] = s /\ s # None /\ name[p] = n
      BY <1>1, <2>1, TypeFacts, NoneAssumption DEF Serves
    <2>3. q = p
      BY <1>1, <2>1, <2>2 DEF OptionsInv, Apart
    <2>4. hub.conn[s].on /\ hub.conn[s].session = n
      BY <1>1, <2>2 DEF IInv, One
    <2>5. hub.conn[s].stamps
      BY <1>1, <2>2, <2>4 DEF IInv, One
    <2> QED BY <1>1, <2>1, <2>2, <2>3, <2>5 DEF OptionsInv, Shows, Speaks
  <1> QED BY <1>1, Inductive, OptionsHold, PTL

\* The transcript stamped on a session is that of the Claude talking for it, or a hello
\* that stamped it is under way, whatever comes between the half of a hello that stamps
\* and the one that registers, until two hellos cross or sessions are renamed twice
\* (yieldsLocked and hello in mod.go).
THEOREM StampKept == Spec => []StampFollows
  <1>1. ASSUME IInv, OptionsInv
        PROVE  StampFollows
    <2>. SUFFICES ASSUME ~crossed, renames <= 1, NEW p \in Pane, NEW n \in Session, Serves(p, n)
         PROVE  stamp[n] = claude[p] \/ \E q \in Pane : Stamping(q, n)
      BY <1>1 DEF StampFollows
    <2>1. PICK q \in Pane : claude[q] = claude[p] /\ linked[q] /\ hub.conn[claude[p]].token
      BY DEF Serves, Polling
    <2>2. hub.owner[n] = claude[p] /\ claude[p] # None /\ name[p] = n
      BY DEF Serves
    <2>3. q = p
      BY <1>1, <2>1, <2>2 DEF OptionsInv, Apart
    <2>4. Has(p)
      BY <2>1, <2>2, <2>3 DEF Has
    <2> QED BY <1>1, <2>2, <2>4 DEF OptionsInv, StampPart, Stamped
  <1> QED BY <1>1, Inductive, OptionsHold, PTL
=============================================================================
