--------------------------- MODULE HeldPromptsPlaces ---------------------------
(* Where each prompt of HeldPrompts is, for every set of prompts and every *)
(* bound: one place at a time on its way to Claude, whatever the routes,   *)
(* the lists, the commands and the Stops do meanwhile.  From it: a prompt  *)
(* never offered to the mod is read at most once, is not lost while the    *)
(* person is told it is held, and is not read once handed back.            *)
EXTENDS HeldPromptsProofs

USE DEF connVars, listVars, lockVars, cmdVars, fileVars, modVars, claudeVars,
        ghostVars, boundVars

-----------------------------------------------------------------------------
(* Sequences without repetition.                                           *)

\* A concatenation holds what its parts hold.
LEMMA SetConcat ==
    ASSUME NEW S, NEW s \in Seq(S), NEW t \in Seq(S)
    PROVE  ToSet(s \o t) = ToSet(s) \cup ToSet(t)
  <1>1. ASSUME NEW x \in ToSet(s \o t) PROVE x \in ToSet(s) \cup ToSet(t)
    <2>1. PICK i \in 1..(Len(s) + Len(t)) : x = (s \o t)[i]
      BY <1>1 DEF ToSet
    <2>2. CASE i <= Len(s)
      BY <2>1, <2>2 DEF ToSet
    <2>3. CASE i > Len(s)
      <3>1. i - Len(s) \in DOMAIN t /\ x = t[i - Len(s)]
        BY <2>1, <2>3
      <3> QED
        BY <3>1 DEF ToSet
    <2> QED
      BY <2>2, <2>3
  <1>2. ASSUME NEW x \in ToSet(s) PROVE x \in ToSet(s \o t)
    <2>1. PICK i \in DOMAIN s : x = s[i]
      BY <1>2 DEF ToSet
    <2>2. i \in DOMAIN (s \o t) /\ (s \o t)[i] = x
      BY <2>1
    <2> QED
      BY <2>2 DEF ToSet
  <1>3. ASSUME NEW x \in ToSet(t) PROVE x \in ToSet(s \o t)
    <2>1. PICK i \in DOMAIN t : x = t[i]
      BY <1>3 DEF ToSet
    <2>2. i + Len(s) \in DOMAIN (s \o t) /\ (s \o t)[i + Len(s)] = x
      BY <2>1
    <2> QED
      BY <2>2 DEF ToSet
  <1> QED
    BY <1>1, <1>2, <1>3

\* It repeats nothing when its parts repeat nothing and share nothing.
LEMMA OnceConcat ==
    ASSUME NEW S, NEW s \in Seq(S), NEW t \in Seq(S),
           IsInjective(s), IsInjective(t), ToSet(s) \cap ToSet(t) = {}
    PROVE  IsInjective(s \o t)
  <1> DEFINE u == s \o t
  <1> SUFFICES ASSUME NEW i \in DOMAIN u, NEW j \in DOMAIN u, u[i] = u[j]
               PROVE  i = j
    BY DEF IsInjective
  <1>1. ASSUME NEW k \in DOMAIN u
        PROVE  \/ k \in DOMAIN s /\ u[k] = s[k] /\ u[k] \in ToSet(s)
               \/ /\ k \notin DOMAIN s /\ k - Len(s) \in DOMAIN t
                  /\ u[k] = t[k - Len(s)] /\ u[k] \in ToSet(t)
    BY DEF ToSet
  <1>2. /\ i \in Nat /\ j \in Nat /\ Len(s) \in Nat
        /\ DOMAIN s = 1..Len(s) /\ DOMAIN t = 1..Len(t)
    OBVIOUS
  <1> HIDE DEF u
  <1>3. CASE i \in DOMAIN s
    BY <1>1, <1>2, <1>3 DEF IsInjective
  <1>4. CASE i \notin DOMAIN s
    BY <1>1, <1>2, <1>4 DEF IsInjective
  <1> QED
    BY <1>3, <1>4

\* Appending adds one element.
LEMMA SetAppend ==
    ASSUME NEW S, NEW s \in Seq(S), NEW x \in S
    PROVE  /\ ToSet(Append(s, x)) = ToSet(s) \cup {x}
           /\ IsInjective(s) /\ x \notin ToSet(s) => IsInjective(Append(s, x))
  <1> DEFINE u == Append(s, x)
  <1>1. /\ DOMAIN u = 1..(Len(s) + 1) /\ u[Len(s) + 1] = x
        /\ \A i \in DOMAIN s : u[i] = s[i]
        /\ DOMAIN s = 1..Len(s) /\ Len(s) \in Nat
    OBVIOUS
  <1> HIDE DEF u
  <1>2. ToSet(u) = ToSet(s) \cup {x}
    BY <1>1 DEF ToSet
  <1>3. ASSUME IsInjective(s), x \notin ToSet(s) PROVE IsInjective(u)
    BY <1>1, <1>3 DEF IsInjective, ToSet
  <1> QED
    BY <1>2, <1>3 DEF u

LEMMA SetOfFew ==
    /\ ToSet(<<>>) = {} /\ IsInjective(<<>>)
    /\ \A x : ToSet(<<x>>) = {x} /\ IsInjective(<<x>>)
  BY DEF ToSet, IsInjective

\* Cut in two, a sequence that repeats nothing has its parts apart.
LEMMA SetSplit ==
    ASSUME NEW S, NEW s \in Seq(S), NEW k \in 0..Len(s)
    PROVE  /\ ToSet(s) = ToSet(SubSeq(s, 1, k)) \cup ToSet(SubSeq(s, k + 1, Len(s)))
           /\ IsInjective(s) =>
                /\ ToSet(SubSeq(s, 1, k)) \cap ToSet(SubSeq(s, k + 1, Len(s))) = {}
                /\ IsInjective(SubSeq(s, 1, k))
                /\ IsInjective(SubSeq(s, k + 1, Len(s)))
  <1> DEFINE a == SubSeq(s, 1, k)
             b == SubSeq(s, k + 1, Len(s))
  <1>1. /\ DOMAIN a = 1..k /\ \A i \in 1..k : a[i] = s[i]
        /\ DOMAIN b = 1..(Len(s) - k) /\ \A i \in 1..(Len(s) - k) : b[i] = s[k + i]
        /\ DOMAIN s = 1..Len(s) /\ Len(s) \in Nat /\ k \in Nat /\ k <= Len(s)
    OBVIOUS
  <1> HIDE DEF a, b
  <1>2. ASSUME NEW x \in ToSet(s) PROVE x \in ToSet(a) \cup ToSet(b)
    <2>1. PICK i \in 1..Len(s) : x = s[i]
      BY <1>1, <1>2 DEF ToSet
    <2>2. CASE i <= k
      BY <1>1, <2>1, <2>2 DEF ToSet
    <2>3. CASE i > k
      <3>1. i - k \in DOMAIN b /\ b[i - k] = x
        BY <1>1, <2>1, <2>3
      <3> QED
        BY <3>1 DEF ToSet
    <2> QED
      BY <1>1, <2>2, <2>3
  <1>3. ToSet(a) \subseteq ToSet(s)
    BY <1>1 DEF ToSet
  <1>4. ASSUME NEW x \in ToSet(b) PROVE x \in ToSet(s)
    <2>1. PICK i \in 1..(Len(s) - k) : x = s[k + i]
      BY <1>1, <1>4 DEF ToSet
    <2>2. k + i \in DOMAIN s
      BY <1>1
    <2> QED
      BY <2>1, <2>2 DEF ToSet
  <1>5. ASSUME IsInjective(s) PROVE ToSet(a) \cap ToSet(b) = {}
    <2>1. ASSUME NEW i \in 1..k, NEW j \in 1..(Len(s) - k) PROVE a[i] # b[j]
      <3>1. i \in DOMAIN s /\ k + j \in DOMAIN s /\ i # k + j
        BY <1>1
      <3>2. a[i] = s[i] /\ b[j] = s[k + j]
        BY <1>1
      <3> QED
        BY <1>5, <3>1, <3>2 DEF IsInjective
    <2>2. DOMAIN a = 1..k /\ DOMAIN b = 1..(Len(s) - k)
      BY <1>1
    <2> QED
      BY <2>1, <2>2 DEF ToSet
  <1>6. ASSUME IsInjective(s) PROVE IsInjective(a)
    BY <1>1, <1>6 DEF IsInjective
  <1>7. ASSUME IsInjective(s) PROVE IsInjective(b)
    <2>1. ASSUME NEW i \in 1..(Len(s) - k), NEW j \in 1..(Len(s) - k), b[i] = b[j]
          PROVE  i = j
      <3>1. k + i \in DOMAIN s /\ k + j \in DOMAIN s
        BY <1>1
      <3>2. s[k + i] = s[k + j]
        BY <1>1, <2>1
      <3>3. k + i = k + j
        BY <1>7, <3>1, <3>2 DEF IsInjective
      <3> QED
        BY <1>1, <3>3
    <2>2. DOMAIN b = 1..(Len(s) - k)
      BY <1>1
    <2> QED
      BY <2>1, <2>2 DEF IsInjective
  <1> QED
    BY <1>2, <1>3, <1>4, <1>5, <1>6, <1>7 DEF a, b

\* Without its i-th element it holds the others, each once.
LEMMA SetRemove ==
    ASSUME NEW S, NEW s \in Seq(S), IsInjective(s), NEW i \in DOMAIN s
    PROVE  /\ ToSet(RemoveAt(s, i)) = ToSet(s) \ {s[i]}
           /\ IsInjective(RemoveAt(s, i))
  <1> DEFINE a == SubSeq(s, 1, i - 1)
             b == SubSeq(s, i + 1, Len(s))
             c == SubSeq(s, i, Len(s))
  <1>1. i - 1 \in 0..Len(s) /\ i \in 0..Len(s) /\ (i - 1) + 1 = i /\ i \in Nat
    OBVIOUS
  <1>2. /\ ToSet(s) = ToSet(a) \cup ToSet(c) /\ ToSet(a) \cap ToSet(c) = {}
        /\ IsInjective(a)
    BY <1>1, SetSplit
  <1>3. a \in Seq(S) /\ b \in Seq(S) /\ c \in Seq(S)
    OBVIOUS
  <1>4. ToSet(c) = {s[i]} \cup ToSet(b) /\ s[i] \notin ToSet(b) /\ IsInjective(b)
    <2>1. /\ DOMAIN c = 1..(Len(s) - i + 1)
          /\ \A k \in 1..(Len(s) - i + 1) : c[k] = s[i + k - 1]
          /\ DOMAIN b = 1..(Len(s) - i)
          /\ \A k \in 1..(Len(s) - i) : b[k] = s[i + k]
      OBVIOUS
    <2>2. IsInjective(b)
      BY <1>1, SetSplit
    <2>3. s[i] \notin ToSet(b)
      <3> SUFFICES ASSUME NEW k \in 1..(Len(s) - i), s[i] = s[i + k] PROVE FALSE
        BY <2>1 DEF ToSet
      <3>1. i + k \in DOMAIN s /\ i + k # i
        OBVIOUS
      <3> QED
        BY <3>1 DEF IsInjective
    <2>4. s[i] \in ToSet(c)
      <3>1. 1 \in DOMAIN c /\ c[1] = s[i]
        BY <2>1
      <3> HIDE DEF c
      <3> QED
        BY <3>1 DEF ToSet
    <2>5. ASSUME NEW x \in ToSet(b) PROVE x \in ToSet(c)
      <3>1. PICK k \in 1..(Len(s) - i) : x = s[i + k]
        BY <2>1, <2>5 DEF ToSet
      <3>2. k + 1 \in DOMAIN c /\ c[k + 1] = x
        BY <2>1, <3>1
      <3> HIDE DEF c
      <3> QED
        BY <3>2 DEF ToSet
    <2>6. ASSUME NEW x \in ToSet(c), x # s[i] PROVE x \in ToSet(b)
      <3>1. PICK k \in 1..(Len(s) - i + 1) : x = s[i + k - 1]
        BY <2>1, <2>6 DEF ToSet
      <3>2. k # 1
        BY <2>6, <3>1
      <3>3. k - 1 \in DOMAIN b /\ b[k - 1] = x
        BY <2>1, <3>1, <3>2
      <3> HIDE DEF b
      <3> QED
        BY <3>3 DEF ToSet
    <2> QED
      BY <2>2, <2>3, <2>4, <2>5, <2>6
  <1> HIDE DEF a, b, c
  <1>5. ToSet(a) \cap ToSet(b) = {}
    BY <1>2, <1>4
  <1>6. IsInjective(a \o b) /\ ToSet(a \o b) = ToSet(a) \cup ToSet(b)
    BY <1>2, <1>3, <1>4, <1>5, OnceConcat, SetConcat
  <1>7. ToSet(a \o b) = ToSet(s) \ {s[i]}
    BY <1>2, <1>4, <1>6
  <1> QED
    BY <1>6, <1>7 DEF RemoveAt, a, b

-----------------------------------------------------------------------------
(* The places.  A prompt is in one of them at a time; what the mod was     *)
(* handed at a tool boundary is a copy, which rides on a tool result while *)
(* the prompt stays in steering.                                           *)

Place == {"new", "steering", "held", "waiting", "took", "out", "launched",
          "cmd", "queue", "dropped", "read", "gone"}

\* Handed to the mod as a command, or further.
Past == {"cmd", "queue", "dropped", "read"}

\* What the holder of applyMu has taken off the lists.
Taken == IF cont \in {"submit", "returned"} THEN ToSet(out) ELSE {}

\* p is in a list when the list's name is its place.
ListAt(p, a) ==
    /\ p \in ToSet(steering) <=> a = "steering"
    /\ p \in ToSet(held) <=> a = "held"
    /\ p \in ToSet(waiting) <=> a = "waiting"
    /\ p \in ToSet(stop.took) <=> a = "took"
    /\ p \in Taken <=> a = "out"
    /\ (\E b \in launched : p \in ToSet(b)) <=> a = "launched"
    /\ p \in ToSet(claudeQ) <=> a = "queue"

\* No list has a prompt twice.
OnceEach ==
    /\ IsInjective(steering) /\ IsInjective(held) /\ IsInjective(waiting)
    /\ IsInjective(stop.took)
    /\ cont \in {"submit", "returned"} => IsInjective(out)
    /\ \A b \in launched : IsInjective(b)
    /\ \A b, d \in launched : b # d => ToSet(b) \cap ToSet(d) = {}
    /\ IsInjective(claudeQ)

\* A command not yet run holds its prompt's place, and is the only one that does.
CmdPlaces(at) ==
    /\ \A c \in cmds \cup inHand : c.op = "prompt" => at[c.text] = "cmd"
    /\ \A c, d \in cmds \cup inHand :
          c.op = "prompt" /\ d.op = "prompt" /\ c.text = d.text => c = d
    /\ \A c \in cmds \cap inHand : c.op # "prompt"
    /\ \A b \in submits : \A i \in DOMAIN b : b[i].op = "prompt" /\ at[b[i].text] \in Past

\* A prompt acked as handed over was queued in Claude.
Confirming ==
    {c \in Command :
        /\ c.op = "prompt"
        /\ <<c, TRUE>> \in acked \/ \E i \in DOMAIN events : events[i] = Ack(c, TRUE)}
AckPlaces(at) == \A c \in Confirming : at[c.text] \in {"queue", "dropped", "read"}

\* What the person is still told is held though it was dropped after its ack, the
\* mod has said so.
Dropped ==
    {p \in Prompt : \E i \in DOMAIN events :
        events[i].type = "command_failed" /\ events[i].text = p}
DropPlaces(at) ==
    \A p \in Prompt : told[p] = "held" /\ at[p] = "dropped" => p \in Dropped

\* What the person was told of a prompt agrees with where it is.
ToldAt(p, a) ==
    /\ told[p] \in {"unsent", "going"} <=> a = "new"
    /\ told[p] = "sending" => a \in Past
    /\ told[p] = "returned" => a = "gone"
    /\ told[p] = "holding" <=> cont = "held" /\ p \in ToSet(out)
    /\ told[p] = "holding" => a \in {"held", "waiting", "steering"}
    /\ told[p] = "held" /\ a = "cmd" =>
          \E b \in submits : \E i \in DOMAIN b : b[i].text = p
    /\ told[p] = "held" /\ a = "gone" => p \in confirmed
    /\ p \in confirmed => p \in offered /\ a = "gone"

\* A prompt never offered to the mod was read once when its place says so.
ReadAt(p, a) ==
    /\ p \notin offered => reads[p] = IF a = "read" THEN 1 ELSE 0
    /\ a = "read" => reads[p] > 0

Placed(at) ==
    /\ \A p \in Prompt : ListAt(p, at[p]) /\ ToldAt(p, at[p]) /\ ReadAt(p, at[p])
    /\ CmdPlaces(at) /\ AckPlaces(at) /\ DropPlaces(at)

\* Outside a write the holder of applyMu keeps nothing back, and only a Stop under
\* way has taken prompts.
LockInv ==
    /\ pc \notin {"texts", "wait"} => cont = "free"
    /\ stop.at = "idle" => stop.took = <<>>

\* The mod and Claude were given nothing to steer that was not offered.
OfferedInv == ToSet(steering) \cup ToSet(answer) \cup ToSet(context) \subseteq offered

PlaceInv ==
    /\ LockInv /\ OfferedInv /\ OnceEach
    /\ \E at \in [Prompt -> Place] : Placed(at)

-----------------------------------------------------------------------------
(* What keeps each part.                                                   *)

LEMMA CmdKeeps ==
    ASSUME NEW at \in [Prompt -> Place], NEW to \in [Prompt -> Place],
           CmdType, ModType, CmdPlaces(at), UNCHANGED submits,
           \A c \in (cmds \cup inHand)' : c.op = "prompt" => c \in cmds \cup inHand,
           \A c \in (cmds \cap inHand)' : c.op = "prompt" => c \in cmds \cap inHand,
           \A q \in Prompt : at[q] \in Past => to[q] = at[q]
    PROVE  CmdPlaces(to)'
  <1>1. ASSUME NEW c \in Command, c.op = "prompt" PROVE c.text \in Prompt
    BY <1>1 DEF Command
  <1>2. ASSUME NEW b \in submits, NEW i \in DOMAIN b PROVE b[i] \in Command
    BY DEF CmdType
  <1>3. cmds \cup inHand \subseteq Command
    BY DEF CmdType, ModType
  <1>4. \A c \in (cmds \cup inHand)' : c.op = "prompt" => to[c.text] = "cmd"
    BY <1>1, <1>3 DEF CmdPlaces, Past
  <1>5. \A b \in submits' : \A i \in DOMAIN b : b[i].op = "prompt" /\ to[b[i].text] \in Past
    BY <1>1, <1>2 DEF CmdPlaces
  <1>6. \A c, d \in (cmds \cup inHand)' :
           c.op = "prompt" /\ d.op = "prompt" /\ c.text = d.text => c = d
    BY DEF CmdPlaces
  <1>7. \A c \in (cmds \cap inHand)' : c.op # "prompt"
    BY DEF CmdPlaces
  <1> QED
    BY <1>4, <1>5, <1>6, <1>7 DEF CmdPlaces

LEMMA AckKeeps ==
    ASSUME NEW at \in [Prompt -> Place], NEW to \in [Prompt -> Place],
           AckPlaces(at), Confirming' \subseteq Confirming,
           \A q \in Prompt : at[q] \in {"queue", "dropped", "read"} =>
                                to[q] \in {"queue", "dropped", "read"}
    PROVE  AckPlaces(to)'
  <1>1. ASSUME NEW c \in Confirming PROVE c.text \in Prompt
    BY DEF Confirming, Command
  <1> QED
    BY <1>1 DEF AckPlaces

\* An event that is no ack of a prompt's success confirms nothing, nor does one
\* the fold takes.
Mute(e) == e.type # "ack" \/ ~e.ok \/ e.cmd.op # "prompt"

LEMMA EventAppended ==
    ASSUME ModType, NEW e \in Event, Mute(e), events' = Append(events, e),
           UNCHANGED acked
    PROVE  Confirming' \subseteq Confirming /\ Dropped \subseteq Dropped'
  <1>1. ASSUME NEW i \in DOMAIN events'
        PROVE  events'[i] = e \/ (i \in DOMAIN events /\ events'[i] = events[i])
    BY DEF ModType
  <1>2. \A c \in Command : c.op = "prompt" => e # Ack(c, TRUE)
    BY DEF Ack, Mute
  <1>3. \A i \in DOMAIN events : i \in DOMAIN events' /\ events'[i] = events[i]
    BY DEF ModType
  <1> QED
    BY <1>1, <1>2, <1>3 DEF Confirming, Dropped

LEMMA EventTaken ==
    ASSUME ModType, NEW t, TakeEvent(t), UNCHANGED acked
    PROVE  /\ Confirming' \subseteq Confirming
           /\ \A p \in Dropped : p \in Dropped' \/
                 (t = "command_failed" /\ Head(events).text = p)
  <1>1. ASSUME NEW i \in DOMAIN events' PROVE i + 1 \in DOMAIN events /\ events'[i] = events[i + 1]
    BY DEF ModType, TakeEvent
  <1>2. ASSUME NEW i \in DOMAIN events, i # 1
        PROVE  i - 1 \in DOMAIN events' /\ events'[i - 1] = events[i]
    BY <1>2 DEF ModType, TakeEvent
  <1>3. events[1] = Head(events) /\ Head(events).type = t
    BY DEF TakeEvent
  <1> QED
    BY <1>1, <1>2, <1>3 DEF Confirming, Dropped

\* The word of a drop keeps, where nothing more is told held.
LEMMA DropKeeps ==
    ASSUME NEW at \in [Prompt -> Place], NEW to \in [Prompt -> Place], DropPlaces(at),
           events' = events \/ Dropped \subseteq Dropped',
           \A q \in Prompt : to[q] = "dropped" => at[q] = "dropped",
           \A q \in Prompt : told'[q] = "held" => told[q] = "held" \/ at[q] \notin Past
    PROVE  DropPlaces(to)'
  <1>1. Dropped \subseteq Dropped'
    BY DEF Dropped
  <1> QED
    BY <1>1 DEF DropPlaces, Past

\* The lists as they were have what they had.
LEMMA ListsKeep ==
    ASSUME OnceEach, UNCHANGED <<steering, held, waiting, cont, out, launched, claudeQ>>,
           stop'.took = stop.took
    PROVE  OnceEach' /\ \A p, a : ListAt(p, a) => ListAt(p, a)'
  BY DEF OnceEach, ListAt, Taken

\* So does what the person was told.
LEMMA ToldKeeps ==
    ASSUME UNCHANGED <<told, cont, out, submits, confirmed>>, offered \subseteq offered'
    PROVE  \A p, a : ToldAt(p, a) => ToldAt(p, a)'
  BY DEF ToldAt

LEMMA ReadKeeps ==
    ASSUME UNCHANGED reads, offered \subseteq offered'
    PROVE  \A p, a : ReadAt(p, a) => ReadAt(p, a)'
  BY DEF ReadAt

\* A step that moves no prompt and tells no one anything.
LEMMA NoneMoved ==
    ASSUME TypeOK, PlaceInv, LockInv', OfferedInv',
           UNCHANGED <<steering, held, waiting, cont, out, launched, claudeQ,
                       told, submits, confirmed, reads, offered>>,
           stop'.took = stop.took,
           \A c \in (cmds \cup inHand)' : c.op = "prompt" => c \in cmds \cup inHand,
           \A c \in (cmds \cap inHand)' : c.op = "prompt" => c \in cmds \cap inHand,
           Confirming' \subseteq Confirming,
           events' = events \/ Dropped \subseteq Dropped'
    PROVE  PlaceInv'
  <1> OnceEach /\ CmdType /\ ModType
    BY DEF PlaceInv, TypeOK
  <1>1. PICK at \in [Prompt -> Place] : Placed(at)
    BY DEF PlaceInv
  <1>2. OnceEach' /\ \A p, a : ListAt(p, a) => ListAt(p, a)'
    BY ListsKeep
  <1>3. \A p, a : (ToldAt(p, a) => ToldAt(p, a)') /\ (ReadAt(p, a) => ReadAt(p, a)')
    BY ToldKeeps, ReadKeeps
  <1>4. CmdPlaces(at)'
    BY <1>1, CmdKeeps DEF Placed
  <1>5. AckPlaces(at)'
    BY <1>1, AckKeeps DEF Placed
  <1>6. DropPlaces(at)'
    BY <1>1, DropKeeps DEF Placed
  <1>7. Placed(at)'
    BY <1>1, <1>2, <1>3, <1>4, <1>5, <1>6 DEF Placed
  <1> QED
    BY <1>2, <1>7 DEF PlaceInv

-----------------------------------------------------------------------------
(* Each step.                                                              *)

LEMMA PlaceInit == ASSUME Init PROVE PlaceInv
  <1> DEFINE at == [p \in Prompt |-> "new"]
  <1>1. ToSet(<<>>) = {} /\ IsInjective(<<>>)
    BY SetOfFew
  <1>2. LockInv /\ OfferedInv /\ OnceEach
    BY <1>1 DEF Init, NoStop, LockInv, OfferedInv, OnceEach
  <1>3. \A p \in Prompt : ListAt(p, "new") /\ ToldAt(p, "new") /\ ReadAt(p, "new")
    BY <1>1 DEF Init, NoStop, Taken, ListAt, ToldAt, ReadAt
  <1>4. CmdPlaces(at)
    BY DEF Init, CmdPlaces
  <1>5. Confirming = {}
    <2>1. \A i \in DOMAIN events : events[i].type # "ack"
      BY DEF Init
    <2> QED
      BY <2>1 DEF Init, Confirming, Ack
  <1>6. at \in [Prompt -> Place] /\ \A p \in Prompt : at[p] = "new"
    BY DEF Place
  <1> HIDE DEF at
  <1>7. AckPlaces(at)
    BY <1>5 DEF AckPlaces
  <1>8. DropPlaces(at)
    BY <1>6 DEF DropPlaces
  <1>9. Placed(at)
    BY <1>3, <1>4, <1>6, <1>7, <1>8 DEF Placed
  <1> QED
    BY <1>2, <1>6, <1>9 DEF PlaceInv

\* The steps that leave every prompt where it is.
LEMMA PlaceLock ==
    ASSUME TypeOK, PlaceInv,
           WriteTexts \/ ApplyEnds \/ ApplyTurn \/ \E n \in timers : TimerFires(n)
    PROVE  PlaceInv'
  <1> ModType
    BY DEF TypeOK
  <1>1. CASE WriteTexts \/ ApplyEnds \/ \E n \in timers : TimerFires(n)
    <2>1. UNCHANGED <<listVars, cont, out, cmdVars, stop, claudeVars, ghostVars, modVars>>
      BY <1>1 DEF WriteTexts, ApplyEnds, TimerFires
    <2>2. LockInv'
      BY <1>1 DEF WriteTexts, ApplyEnds, TimerFires, PlaceInv, LockInv
    <2>3. OfferedInv'
      BY <2>1 DEF PlaceInv, OfferedInv
    <2>4. Confirming' = Confirming
      BY <2>1 DEF Confirming
    <2> QED
      BY <2>1, <2>2, <2>3, <2>4, NoneMoved
  <1>2. CASE ApplyTurn
    <2>1. PICK t \in {"turn_start", "turn_end", "level"} : TakeEvent(t)
      BY <1>2 DEF ApplyTurn
    <2>2. UNCHANGED <<listVars, cont, out, cmdVars, stop, inHand, answer, claudeVars, ghostVars>>
      BY <1>2 DEF ApplyTurn
    <2>3. LockInv'
      BY <1>2, <2>1 DEF ApplyTurn, TakeEvent, PlaceInv, LockInv
    <2>4. OfferedInv'
      BY <2>2 DEF PlaceInv, OfferedInv
    <2>5. Confirming' \subseteq Confirming /\ Dropped \subseteq Dropped'
      BY <2>1, <2>2, EventTaken
    <2> QED
      BY <2>2, <2>3, <2>4, <2>5, NoneMoved
  <1> QED
    BY <1>1, <1>2

LEMMA PlaceStop ==
    ASSUME TypeOK, PlaceInv, StopPlain \/ StopSends PROVE PlaceInv'
  <1>1. UNCHANGED <<listVars, lockVars, launched, submits, acked, modVars, claudeVars, ghostVars>>
    BY DEF StopPlain, StopSends
  <1>2. LockInv' /\ stop'.took = stop.took
    BY DEF StopPlain, StopSends, PlaceInv, LockInv, TypeOK, StopType
  <1>3. OfferedInv'
    BY <1>1 DEF PlaceInv, OfferedInv
  <1>4. Confirming' = Confirming
    BY <1>1 DEF Confirming
  <1>5. \A c \in cmds' : c.op = "prompt" => c \in cmds
    BY DEF StopPlain, StopSends, AbortCmd
  <1> QED
    BY <1>1, <1>2, <1>3, <1>4, <1>5, NoneMoved

LEMMA PlaceMod ==
    ASSUME TypeOK, PlaceInv,
           \/ Poll \/ AttachContext \/ TakeMisses \/ StartPaneTurn \/ EndTurn
           \/ \E cmd \in inHand : RefusePrompt(cmd) \/ RunAbort(cmd)
    PROVE  PlaceInv'
  <1> ModType /\ FlagType /\ OfferedInv /\ LockInv
    BY DEF TypeOK, PlaceInv
  <1>1. UNCHANGED <<listVars, lockVars, launched, submits, acked, stop, claudeQ, ghostVars>>
    BY DEF Poll, AttachContext, TakeMisses, StartPaneTurn, EndTurn, RefusePrompt, RunAbort
  <1>2. LockInv'
    BY <1>1 DEF LockInv
  <1>3. OfferedInv'
    <2>1. ToSet(<<>>) = {}
      BY SetOfFew
    <2>2. /\ answer' \in {answer, <<>>} /\ context' \in {answer, context, <<>>}
      BY DEF Poll, AttachContext, TakeMisses, StartPaneTurn, EndTurn, RefusePrompt, RunAbort
    <2> QED
      BY <1>1, <2>1, <2>2 DEF OfferedInv
  <1>4. /\ (cmds \cup inHand)' \subseteq cmds \cup inHand
        /\ (cmds \cap inHand)' \subseteq cmds \cap inHand
    BY DEF Poll, AttachContext, TakeMisses, StartPaneTurn, EndTurn, RefusePrompt, RunAbort, RunOne
  <1>5. Confirming' \subseteq Confirming /\ Dropped \subseteq Dropped'
    <2>1. CASE Poll \/ AttachContext \/ TakeMisses
      BY <2>1 DEF Poll, AttachContext, TakeMisses, Confirming, Dropped
    <2>2. CASE StartPaneTurn \/ EndTurn
      <3>1. PICK e \in Event : Mute(e) /\ events' = Append(events, e)
        BY <2>2 DEF StartPaneTurn, EndTurn, Event, Mute
      <3> QED
        BY <1>1, <3>1, EventAppended
    <2>3. ASSUME NEW cmd \in inHand, RefusePrompt(cmd) 
        PROVE Confirming' \subseteq Confirming /\ Dropped \subseteq Dropped'
      <3>1. PICK e \in Event : Mute(e) /\ events' = Append(events, e)
        BY <2>3 DEF RefusePrompt, Ack, Event, Mute, ModType
      <3> QED
        BY <1>1, <3>1, EventAppended
    <2>4. ASSUME NEW cmd \in inHand, RunAbort(cmd), running 
        PROVE Confirming' \subseteq Confirming /\ Dropped \subseteq Dropped'
      <3>1. /\ events' = events \o <<[type |-> "turn_end"], Ack(cmd, TRUE)>>
            /\ cmd.op = "abort" /\ acked' = acked
        BY <1>1, <2>4 DEF RunAbort
      <3>2. ASSUME NEW i \in DOMAIN events'
            PROVE  \/ i \in DOMAIN events /\ events'[i] = events[i]
                   \/ events'[i] \in {[type |-> "turn_end"], Ack(cmd, TRUE)}
        <4>1. [type |-> "turn_end"] \in Event /\ Ack(cmd, TRUE) \in Event
          BY DEF ModType, Ack, Event
        <4> HIDE DEF Ack
        <4>2. PICK e \in Event : e = [type |-> "turn_end"]
          BY <4>1
        <4>3. PICK f \in Event : f = Ack(cmd, TRUE)
          BY <4>1
        <4>4. events' = events \o <<e, f>>
          BY <3>1, <4>2, <4>3
        <4>5. \/ i \in DOMAIN events /\ events'[i] = events[i]
              \/ events'[i] = e \/ events'[i] = f
          BY <4>4 DEF ModType
        <4> QED
          BY <4>2, <4>3, <4>5
      <3>3. ASSUME NEW c \in Command, c.op = "prompt"
            PROVE  Ack(c, TRUE) \notin {[type |-> "turn_end"], Ack(cmd, TRUE)}
        BY <3>1, <3>3 DEF Ack
      <3>4. \A i \in DOMAIN events : i \in DOMAIN events' /\ events'[i] = events[i]
        BY <3>1 DEF ModType
      <3> QED
        BY <3>1, <3>2, <3>3, <3>4 DEF Confirming, Dropped
    <2>5. ASSUME NEW cmd \in inHand, RunAbort(cmd), ~running 
        PROVE Confirming' \subseteq Confirming /\ Dropped \subseteq Dropped'
      <3>1. PICK e \in Event : Mute(e) /\ events' = Append(events, e)
        BY <2>5 DEF RunAbort, Ack, Event, Mute, ModType
      <3> QED
        BY <1>1, <3>1, EventAppended
    <2> QED
      BY <2>1, <2>2, <2>3, <2>4, <2>5
  <1> QED
    BY <1>1, <1>2, <1>3, <1>4, <1>5, NoneMoved

LEMMA PlaceHold ==
    ASSUME TypeOK, PlaceInv, NEW p \in Prompt, NEW w \in BOOLEAN, Hold(p, w)
    PROVE  PlaceInv'
  <1> ListType /\ CmdType /\ ModType /\ GhostType /\ OnceEach /\ LockInv /\ OfferedInv
    BY DEF TypeOK, PlaceInv
  <1>1. PICK at \in [Prompt -> Place] : Placed(at)
    BY DEF PlaceInv
  <1>2. at[p] = "new"
    BY <1>1 DEF Hold, Placed, ToldAt
  <1>3. PICK to \in [Prompt -> Place] :
           to = [at EXCEPT ![p] = IF w THEN "waiting" ELSE "held"]
    BY DEF Place
  <1>4. /\ pc = "free" /\ cont = "free" /\ cont' = "held" /\ out' = <<p>> /\ pc' = "texts"
        /\ ToSet(out') = {p}
    BY SetOfFew DEF Hold, Keep, LockInv
  <1>5. /\ w => ToSet(waiting') = ToSet(waiting) \cup {p} /\ held' = held
        /\ ~w => ToSet(held') = ToSet(held) \cup {p} /\ waiting' = waiting
        /\ IsInjective(waiting') /\ IsInjective(held')
    <2>1. p \notin ToSet(waiting) /\ p \notin ToSet(held)
      BY <1>1, <1>2 DEF Placed, ListAt
    <2>2. CASE w
      <3>1. waiting' = Append(waiting, p) /\ held' = held
        BY <2>2 DEF Hold
      <3>2. waiting \in Seq(Prompt) /\ IsInjective(waiting) /\ IsInjective(held)
        BY DEF ListType, OnceEach
      <3> QED
        BY <2>1, <2>2, <3>1, <3>2, SetAppend
    <2>3. CASE ~w
      <3>1. held' = Append(held, p) /\ waiting' = waiting
        BY <2>3 DEF Hold
      <3>2. held \in Seq(Prompt) /\ IsInjective(waiting) /\ IsInjective(held)
        BY DEF ListType, OnceEach
      <3> QED
        BY <2>1, <2>3, <3>1, <3>2, SetAppend
    <2> QED
      BY <2>2, <2>3
  <1>6. LockInv' /\ OfferedInv' /\ OnceEach'
    BY <1>4, <1>5 DEF Hold, LockInv, OfferedInv, OnceEach
  <1>7. ASSUME NEW q \in Prompt
        PROVE  ListAt(q, to[q])' /\ ToldAt(q, to[q])' /\ ReadAt(q, to[q])'
    <2>1. ListAt(q, at[q]) /\ ToldAt(q, at[q]) /\ ReadAt(q, at[q])
      BY <1>1 DEF Placed
    <2>2. ListAt(q, to[q])'
      BY <1>2, <1>3, <1>4, <1>5, <2>1 DEF Hold, ListAt, Taken
    <2>3. ToldAt(q, to[q])'
      BY <1>2, <1>3, <1>4, <2>1 DEF Hold, ToldAt, Tell
    <2>4. ReadAt(q, to[q])'
      BY <1>2, <1>3, <2>1 DEF Hold, ReadAt
    <2> QED
      BY <2>2, <2>3, <2>4
  <1>8. CmdPlaces(to)'
    BY <1>1, <1>2, <1>3, CmdKeeps DEF Hold, Placed, Past
  <1>9. AckPlaces(to)'
    <2>1. Confirming' = Confirming
      BY DEF Hold, Confirming
    <2> QED
      BY <1>1, <1>2, <1>3, <2>1, AckKeeps DEF Placed
  <1>10. DropPlaces(to)'
    BY <1>1, <1>3, DropKeeps DEF Hold, Placed, Tell
  <1> QED
    BY <1>6, <1>7, <1>8, <1>9, <1>10 DEF PlaceInv, Placed

\* The routes of a prompt that is not held.
LEMMA PlaceHoldDeclines ==
    ASSUME TypeOK, PlaceInv, NEW p \in Prompt, HoldDeclines(p) PROVE PlaceInv'
  <1> CmdType /\ ModType /\ GhostType /\ OnceEach /\ LockInv /\ OfferedInv
    BY DEF TypeOK, PlaceInv
  <1>1. PICK at \in [Prompt -> Place] : Placed(at)
    BY DEF PlaceInv
  <1>2. LockInv' /\ OfferedInv'
    BY DEF HoldDeclines, LockInv, OfferedInv
  <1>3. OnceEach' /\ \A q, a : ListAt(q, a) => ListAt(q, a)'
    BY ListsKeep DEF HoldDeclines
  <1>4. ASSUME NEW q \in Prompt PROVE ToldAt(q, at[q])' /\ ReadAt(q, at[q])'
    BY <1>1 DEF Placed, HoldDeclines, ToldAt, ReadAt, Tell, GhostType
  <1>5. CmdPlaces(at)'
    BY <1>1, CmdKeeps DEF HoldDeclines, Placed
  <1>6. AckPlaces(at)'
    <2>1. Confirming' = Confirming
      BY DEF HoldDeclines, Confirming
    <2> QED
      BY <1>1, <2>1, AckKeeps DEF Placed
  <1>7. DropPlaces(at)'
    BY <1>1, DropKeeps DEF HoldDeclines, Placed, Tell
  <1> QED
    BY <1>1, <1>2, <1>3, <1>4, <1>5, <1>6, <1>7 DEF PlaceInv, Placed

LEMMA PlaceSendPrompt ==
    ASSUME TypeOK, PlaceInv, NEW p \in Prompt, SendPrompt(p) PROVE PlaceInv'
  <1> CmdType /\ ModType /\ GhostType /\ OnceEach /\ LockInv /\ OfferedInv
    BY DEF TypeOK, PlaceInv
  <1>1. PICK at \in [Prompt -> Place] : Placed(at)
    BY DEF PlaceInv
  <1>2. at[p] = "new"
    BY <1>1 DEF SendPrompt, Placed, ToldAt
  <1>3. PICK to \in [Prompt -> Place] : to = [at EXCEPT ![p] = "cmd"]
    BY DEF Place
  <1>4. LockInv' /\ OfferedInv'
    BY DEF SendPrompt, LockInv, OfferedInv
  <1>5. OnceEach' /\ \A q, a : ListAt(q, a) => ListAt(q, a)'
    BY ListsKeep DEF SendPrompt
  <1>6. ASSUME NEW q \in Prompt
        PROVE  ListAt(q, to[q])' /\ ToldAt(q, to[q])' /\ ReadAt(q, to[q])'
    <2>1. ListAt(q, at[q]) /\ ToldAt(q, at[q]) /\ ReadAt(q, at[q])
      BY <1>1 DEF Placed
    <2>2. ListAt(q, to[q])
      BY <1>2, <1>3, <2>1 DEF ListAt
    <2>3. ToldAt(q, to[q])'
      BY <1>2, <1>3, <2>1 DEF SendPrompt, ToldAt, Tell, Past, GhostType
    <2>4. ReadAt(q, to[q])'
      BY <1>2, <1>3, <2>1 DEF SendPrompt, ReadAt
    <2> QED
      BY <1>5, <2>2, <2>3, <2>4
  <1>7. CmdPlaces(to)'
    <2> DEFINE c0 == PromptCmd(nextID + 1, p)
    <2>1. cmds' = cmds \cup {c0} /\ UNCHANGED <<inHand, submits>>
      BY DEF SendPrompt
    <2>2. c0.op = "prompt" /\ c0.text = p
      BY DEF PromptCmd
    <2> HIDE DEF c0
    <2>3. \A c \in cmds \cup inHand : c.op = "prompt" => c.text \in Prompt /\ c.text # p
      BY <1>1, <1>2 DEF CmdType, ModType, Command, Placed, CmdPlaces
    <2>4. \A b \in submits : \A i \in DOMAIN b :
              b[i].op = "prompt" => b[i].text \in Prompt
      BY DEF CmdType, Command
    <2>5. \A c \in (cmds \cup inHand)' : c.op = "prompt" => to[c.text] = "cmd"
      BY <1>1, <1>3, <2>1, <2>2, <2>3 DEF Placed, CmdPlaces
    <2>6. \A b \in submits' : \A i \in DOMAIN b : b[i].op = "prompt" /\ to[b[i].text] \in Past
      BY <1>1, <1>3, <2>1, <2>4 DEF Placed, CmdPlaces, Past
    <2>7. \A c, d \in (cmds \cup inHand)' :
              c.op = "prompt" /\ d.op = "prompt" /\ c.text = d.text => c = d
      BY <1>1, <2>1, <2>2, <2>3 DEF Placed, CmdPlaces
    <2>8. \A c \in (cmds \cap inHand)' : c.op # "prompt"
      BY <1>1, <2>1, <2>2, <2>3 DEF Placed, CmdPlaces
    <2> QED
      BY <2>5, <2>6, <2>7, <2>8 DEF CmdPlaces
  <1>8. AckPlaces(to)'
    <2>1. Confirming' = Confirming
      BY DEF SendPrompt, Confirming
    <2> QED
      BY <1>1, <1>2, <1>3, <2>1, AckKeeps DEF Placed
  <1>9. DropPlaces(to)'
    BY <1>1, <1>3, DropKeeps DEF SendPrompt, Placed, Tell
  <1> QED
    BY <1>4, <1>5, <1>6, <1>7, <1>8, <1>9 DEF PlaceInv, Placed

LEMMA PlaceAnswered ==
    ASSUME TypeOK, PlaceInv, NEW p \in Prompt, PromptAccepted(p) \/ PromptNotConfirmed(p)
    PROVE  PlaceInv'
  <1> CmdType /\ ModType /\ GhostType /\ OnceEach /\ LockInv /\ OfferedInv
    BY DEF TypeOK, PlaceInv
  <1>1. PICK at \in [Prompt -> Place] : Placed(at)
    BY DEF PlaceInv
  <1>2. /\ UNCHANGED <<listVars, lockVars, launched, submits, stop, modVars, claudeVars>>
        /\ UNCHANGED <<reads, offered, confirmed>>
        /\ told[p] = "sending"
        /\ \E what \in {"sent", "failed"} : Tell({p}, what)
        /\ cmds' \subseteq cmds /\ acked' \subseteq acked
    BY DEF PromptAccepted, PromptNotConfirmed, Forget
  <1>3. LockInv' /\ OfferedInv'
    BY <1>2 DEF LockInv, OfferedInv
  <1>4. OnceEach' /\ \A q, a : ListAt(q, a) => ListAt(q, a)'
    BY <1>2, ListsKeep
  <1>5. ASSUME NEW q \in Prompt PROVE ToldAt(q, at[q])' /\ ReadAt(q, at[q])'
    <2>1. ToldAt(q, at[q]) /\ ReadAt(q, at[q])
      BY <1>1 DEF Placed
    <2> QED
      BY <1>2, <2>1 DEF ToldAt, ReadAt, Tell, GhostType, Past
  <1>6. CmdPlaces(at)'
    BY <1>1, <1>2, CmdKeeps DEF Placed
  <1>7. AckPlaces(at)'
    <2>1. Confirming' \subseteq Confirming
      BY <1>2 DEF Confirming
    <2> QED
      BY <1>1, <2>1, AckKeeps DEF Placed
  <1>8. DropPlaces(at)'
    BY <1>1, <1>2, DropKeeps DEF Placed, Tell
  <1> QED
    BY <1>1, <1>3, <1>4, <1>5, <1>6, <1>7, <1>8 DEF PlaceInv, Placed

\* A step that moves prompts among the lists.
LEMMA Moved ==
    ASSUME TypeOK, NEW at \in [Prompt -> Place], NEW to \in [Prompt -> Place],
           Placed(at), LockInv', OfferedInv', OnceEach',
           UNCHANGED <<submits, inHand>>, cmds' \subseteq cmds,
           Confirming' \subseteq Confirming,
           events' = events \/ Dropped \subseteq Dropped',
           \A q \in Prompt : told'[q] = "held" => told[q] = "held" \/ at[q] \notin Past,
           \A q \in Prompt : at[q] \in Past \/ to[q] = "dropped" => to[q] = at[q],
           \A q \in Prompt : ListAt(q, to[q])' /\ ToldAt(q, to[q])' /\ ReadAt(q, to[q])'
    PROVE  PlaceInv'
  <1> CmdType /\ ModType
    BY DEF TypeOK
  <1>1. CmdPlaces(to)'
    BY CmdKeeps DEF Placed
  <1>2. AckPlaces(to)'
    BY AckKeeps DEF Placed, Past
  <1>3. DropPlaces(to)'
    BY DropKeeps DEF Placed
  <1> QED
    BY <1>1, <1>2, <1>3 DEF PlaceInv, Placed

\* held and waiting together, and all three lists.
LEMMA ListsTogether ==
    ASSUME ListType, OnceEach, NEW at, \A q \in Prompt : ListAt(q, at[q])
    PROVE  /\ ToSet(held \o waiting) = ToSet(held) \cup ToSet(waiting)
           /\ IsInjective(held \o waiting)
           /\ ToSet(Pending) = ToSet(steering) \cup ToSet(held) \cup ToSet(waiting)
           /\ IsInjective(Pending)
  <1>1. /\ ToSet(held) \subseteq Prompt /\ ToSet(waiting) \subseteq Prompt
        /\ ToSet(steering) \subseteq Prompt
    BY DEF ListType, ToSet
  <1>2. /\ ToSet(held) \cap ToSet(waiting) = {} /\ ToSet(steering) \cap ToSet(held) = {}
        /\ ToSet(steering) \cap ToSet(waiting) = {}
    BY <1>1 DEF ListAt
  <1>3. ToSet(held \o waiting) = ToSet(held) \cup ToSet(waiting) /\ IsInjective(held \o waiting)
    BY <1>2, SetConcat, OnceConcat DEF ListType, OnceEach
  <1>4. held \o waiting \in Seq(Prompt) /\ steering \in Seq(Prompt)
    BY DEF ListType
  <1>5. Pending = steering \o (held \o waiting)
    BY DEF ListType, Pending
  <1>6. ToSet(steering) \cap ToSet(held \o waiting) = {} /\ IsInjective(steering)
    BY <1>2, <1>3 DEF OnceEach
  <1>7. /\ ToSet(Pending) = ToSet(steering) \cup ToSet(held \o waiting)
        /\ IsInjective(Pending)
    <2> DEFINE t == held \o waiting
    <2>1. t \in Seq(Prompt) /\ IsInjective(t) /\ ToSet(steering) \cap ToSet(t) = {}
      BY <1>3, <1>4, <1>6
    <2> HIDE DEF t
    <2>2. ToSet(steering \o t) = ToSet(steering) \cup ToSet(t) /\ IsInjective(steering \o t)
      BY <1>4, <1>6, <2>1, SetConcat, OnceConcat
    <2> QED
      BY <1>5, <2>2 DEF t
  <1> QED
    BY <1>3, <1>7

\* Up and cancelling one: off the list, into the holder's hands.
LEMMA PlaceTakeHeld ==
    ASSUME TypeOK, PlaceInv, TakeHeld PROVE PlaceInv'
  <1> ListType /\ OnceEach /\ LockInv /\ OfferedInv
    BY DEF TypeOK, PlaceInv
  <1>1. PICK at \in [Prompt -> Place] : Placed(at)
    BY DEF PlaceInv
  <1>2. PICK to \in [Prompt -> Place] :
           to = [q \in Prompt |-> IF at[q] \in {"held", "waiting"} THEN "out" ELSE at[q]]
    BY DEF Place
  <1>3. /\ ToSet(held \o waiting) = ToSet(held) \cup ToSet(waiting)
        /\ IsInjective(held \o waiting)
    BY <1>1, ListsTogether DEF Placed
  <1>4. /\ held' = <<>> /\ waiting' = <<>> /\ out' = held \o waiting
        /\ cont' = "returned" /\ cont = "free" /\ pc' = "texts"
        /\ ToSet(held') = {} /\ ToSet(waiting') = {}
        /\ IsInjective(held') /\ IsInjective(waiting')
    BY SetOfFew DEF TakeHeld, Keep, LockInv
  <1>5. LockInv' /\ OfferedInv' /\ OnceEach'
    BY <1>3, <1>4 DEF TakeHeld, LockInv, OfferedInv, OnceEach
  <1>6. ASSUME NEW q \in Prompt
        PROVE  ListAt(q, to[q])' /\ ToldAt(q, to[q])' /\ ReadAt(q, to[q])'
    <2>1. ListAt(q, at[q]) /\ ToldAt(q, at[q]) /\ ReadAt(q, at[q])
      BY <1>1 DEF Placed
    <2>2. ListAt(q, to[q])'
      BY <1>2, <1>3, <1>4, <2>1 DEF TakeHeld, ListAt, Taken
    <2>3. ToldAt(q, to[q])'
      BY <1>2, <1>4, <2>1 DEF TakeHeld, ToldAt, Past
    <2>4. ReadAt(q, to[q])'
      BY <1>2, <2>1 DEF TakeHeld, ReadAt
    <2> QED
      BY <2>2, <2>3, <2>4
  <1>7. Confirming' = Confirming /\ UNCHANGED <<submits, inHand, cmds, events, told>>
    BY DEF TakeHeld, Confirming
  <1>8. \A q \in Prompt : at[q] \in Past \/ to[q] = "dropped" => to[q] = at[q]
    BY <1>2 DEF Past
  <1> QED
    BY <1>1, <1>5, <1>6, <1>7, <1>8, Moved

LEMMA PlaceCancelHeld ==
    ASSUME TypeOK, PlaceInv, NEW p \in Prompt, CancelHeld(p) PROVE PlaceInv'
  <1> ListType /\ OnceEach /\ LockInv /\ OfferedInv
    BY DEF TypeOK, PlaceInv
  <1>1. PICK at \in [Prompt -> Place] : Placed(at)
    BY DEF PlaceInv
  <1>2. PICK to \in [Prompt -> Place] : to = [at EXCEPT ![p] = "out"]
    BY DEF Place
  <1>3. /\ out' = <<p>> /\ cont' = "returned" /\ cont = "free" /\ pc' = "texts"
        /\ ToSet(out') = {p} /\ IsInjective(out')
    BY SetOfFew DEF CancelHeld, Keep, LockInv
  <1> DEFINE Off == /\ IsInjective(held') /\ IsInjective(waiting')
                    /\ at[p] \in {"held", "waiting"}
                    /\ at[p] = "held" =>
                          ToSet(held') = ToSet(held) \ {p} /\ waiting' = waiting
                    /\ at[p] = "waiting" =>
                          ToSet(waiting') = ToSet(waiting) \ {p} /\ held' = held
  <1>4. Off
    <2>1. ListAt(p, at[p])
      BY <1>1 DEF Placed
    <2>2. IsInjective(held) /\ IsInjective(waiting)
      BY DEF OnceEach
    <2>3. ASSUME NEW i \in DOMAIN held, held[i] = p, held' = RemoveAt(held, i),
                 waiting' = waiting
          PROVE  Off
      <3>1. p \in ToSet(held)
        BY <2>3 DEF ToSet
      <3>2. ToSet(held') = ToSet(held) \ {p} /\ IsInjective(held')
        BY <2>2, <2>3, SetRemove DEF ListType
      <3> QED
        BY <2>1, <2>2, <2>3, <3>1, <3>2 DEF ListAt
    <2>4. ASSUME NEW i \in DOMAIN waiting, waiting[i] = p, waiting' = RemoveAt(waiting, i),
                 held' = held
          PROVE  Off
      <3>1. p \in ToSet(waiting)
        BY <2>4 DEF ToSet
      <3>2. ToSet(waiting') = ToSet(waiting) \ {p} /\ IsInjective(waiting')
        BY <2>2, <2>4, SetRemove DEF ListType
      <3> QED
        BY <2>1, <2>2, <2>4, <3>1, <3>2 DEF ListAt
    <2> QED
      BY <2>3, <2>4 DEF CancelHeld
  <1>5. LockInv' /\ OfferedInv' /\ OnceEach'
    BY <1>3, <1>4 DEF CancelHeld, LockInv, OfferedInv, OnceEach
  <1>6. ASSUME NEW q \in Prompt
        PROVE  ListAt(q, to[q])' /\ ToldAt(q, to[q])' /\ ReadAt(q, to[q])'
    <2>1. ListAt(q, at[q]) /\ ToldAt(q, at[q]) /\ ReadAt(q, at[q])
      BY <1>1 DEF Placed
    <2>2. ListAt(q, to[q])'
      BY <1>2, <1>3, <1>4, <2>1 DEF CancelHeld, ListAt, Taken
    <2>3. ToldAt(q, to[q])'
      BY <1>2, <1>3, <1>4, <2>1 DEF CancelHeld, ToldAt, Past
    <2>4. ReadAt(q, to[q])'
      BY <1>2, <1>4, <2>1 DEF CancelHeld, ReadAt
    <2> QED
      BY <2>2, <2>3, <2>4
  <1>7. Confirming' = Confirming /\ UNCHANGED <<submits, inHand, cmds, events, told>>
    BY DEF CancelHeld, Confirming
  <1>8. \A q \in Prompt : at[q] \in Past \/ to[q] = "dropped" => to[q] = at[q]
    BY <1>2, <1>4 DEF Past
  <1> QED
    BY <1>1, <1>5, <1>6, <1>7, <1>8, Moved

\* A Stop takes all three lists; what it took is handed back or put back.
LEMMA PlaceStopTakes ==
    ASSUME TypeOK, PlaceInv, StopTakes PROVE PlaceInv'
  <1> ListType /\ OnceEach /\ LockInv /\ OfferedInv
    BY DEF TypeOK, PlaceInv
  <1>1. PICK at \in [Prompt -> Place] : Placed(at)
    BY DEF PlaceInv
  <1>2. Confirming' = Confirming /\ UNCHANGED <<submits, inHand, cmds, events, told>>
    BY DEF StopTakes, Confirming
  <1>3. CASE Pending = <<>>
    <2>1. /\ UNCHANGED <<listVars, lockVars>> /\ stop'.took = stop.took
          /\ stop'.at = "send" /\ stop'.took = <<>>
      BY <1>3 DEF StopTakes, LockInv
    <2>2. LockInv' /\ OfferedInv'
      BY <2>1 DEF StopTakes, LockInv, OfferedInv
    <2>3. UNCHANGED <<cmdVars, modVars, claudeVars, ghostVars>>
      BY DEF StopTakes
    <2> QED
      BY <1>2, <2>1, <2>2, <2>3, NoneMoved
  <1>4. CASE Pending # <<>>
    <2>1. PICK to \in [Prompt -> Place] :
             to = [q \in Prompt |->
                     IF at[q] \in {"steering", "held", "waiting"} THEN "took" ELSE at[q]]
      BY DEF Place
    <2>2. /\ ToSet(Pending) = ToSet(steering) \cup ToSet(held) \cup ToSet(waiting)
          /\ IsInjective(Pending)
      BY <1>1, ListsTogether DEF Placed
    <2>3. /\ steering' = <<>> /\ held' = <<>> /\ waiting' = <<>> /\ stop'.took = Pending
          /\ stop'.at = "taking" /\ cont' = "stop" /\ cont = "free" /\ pc' = "texts"
          /\ stop.took = <<>>
      BY <1>4 DEF StopTakes, Keep, LockInv
    <2>4. ToSet(<<>>) = {} /\ IsInjective(<<>>)
      BY SetOfFew
    <2>5. LockInv' /\ OfferedInv' /\ OnceEach'
      BY <2>2, <2>3, <2>4 DEF StopTakes, LockInv, OfferedInv, OnceEach
    <2>6. ASSUME NEW q \in Prompt
          PROVE  ListAt(q, to[q])' /\ ToldAt(q, to[q])' /\ ReadAt(q, to[q])'
      <3>1. ListAt(q, at[q]) /\ ToldAt(q, at[q]) /\ ReadAt(q, at[q])
        BY <1>1 DEF Placed
      <3>2. ListAt(q, to[q])'
        BY <2>1, <2>2, <2>3, <2>4, <3>1 DEF StopTakes, ListAt, Taken
      <3>3. ToldAt(q, to[q])'
        BY <2>1, <2>3, <3>1 DEF StopTakes, ToldAt, Past
      <3>4. ReadAt(q, to[q])'
        BY <2>1, <3>1 DEF StopTakes, ReadAt
      <3> QED
        BY <3>2, <3>3, <3>4
    <2>7. \A q \in Prompt : at[q] \in Past \/ to[q] = "dropped" => to[q] = at[q]
      BY <2>1 DEF Past
    <2> QED
      BY <1>1, <1>2, <2>5, <2>6, <2>7, Moved
  <1> QED
    BY <1>3, <1>4

LEMMA PlaceStopSucceeds ==
    ASSUME TypeOK, PlaceInv, StopSucceeds PROVE PlaceInv'
  <1> ListType /\ OnceEach /\ LockInv /\ OfferedInv /\ GhostType
    BY DEF TypeOK, PlaceInv
  <1>1. PICK at \in [Prompt -> Place] : Placed(at)
    BY DEF PlaceInv
  <1>2. PICK to \in [Prompt -> Place] :
           to = [q \in Prompt |-> IF at[q] = "took" THEN "gone" ELSE at[q]]
    BY DEF Place
  <1>3. ToSet(<<>>) = {} /\ IsInjective(<<>>)
    BY SetOfFew
  <1>4. /\ stop' = NoStop /\ Tell(ToSet(stop.took), "returned") /\ acked' \subseteq acked
        /\ UNCHANGED <<listVars, lockVars, launched, submits, cmds, modVars, claudeVars,
                       reads, offered, confirmed>>
    BY DEF StopSucceeds
  <1>5. LockInv' /\ OfferedInv' /\ OnceEach'
    BY <1>3, <1>4 DEF NoStop, LockInv, OfferedInv, OnceEach
  <1>6. ASSUME NEW q \in Prompt
        PROVE  ListAt(q, to[q])' /\ ToldAt(q, to[q])' /\ ReadAt(q, to[q])'
    <2>1. ListAt(q, at[q]) /\ ToldAt(q, at[q]) /\ ReadAt(q, at[q])
      BY <1>1 DEF Placed
    <2>2. ListAt(q, to[q])'
      BY <1>2, <1>3, <1>4, <2>1 DEF NoStop, ListAt, Taken
    <2>3. ToldAt(q, to[q])'
      <3>1. at[q] = "took" => told'[q] = "returned"
        BY <1>4, <2>1 DEF Tell, ListAt
      <3>2. at[q] # "took" => told'[q] = told[q]
        BY <1>4, <2>1 DEF Tell, ListAt
      <3> QED
        BY <1>2, <1>4, <2>1, <3>1, <3>2 DEF ToldAt, Past
    <2>4. ReadAt(q, to[q])'
      BY <1>2, <1>4, <2>1 DEF ReadAt
    <2> QED
      BY <2>2, <2>3, <2>4
  <1>7. Confirming' \subseteq Confirming
    BY <1>4 DEF Confirming
  <1>8. \A q \in Prompt : at[q] \in Past \/ to[q] = "dropped" => to[q] = at[q]
    BY <1>2 DEF Past
  <1>9. \A q \in Prompt : told'[q] = "held" => told[q] = "held" \/ at[q] \notin Past
    BY <1>4 DEF Tell
  <1> QED
    BY <1>1, <1>4, <1>5, <1>6, <1>7, <1>8, <1>9, Moved

LEMMA PlaceStopFails ==
    ASSUME TypeOK, PlaceInv, StopFails PROVE PlaceInv'
  <1> ListType /\ StopType /\ OnceEach /\ LockInv /\ OfferedInv
    BY DEF TypeOK, PlaceInv
  <1>1. PICK at \in [Prompt -> Place] : Placed(at)
    BY DEF PlaceInv
  <1>2. /\ stop' = NoStop /\ acked' \subseteq acked /\ cmds' \subseteq cmds
        /\ UNCHANGED <<launched, submits, modVars, claudeVars, told, reads, offered, confirmed>>
    BY DEF StopFails, Forget
  <1>3. Confirming' \subseteq Confirming
    BY <1>2 DEF Confirming
  <1>4. CASE stop.took = <<>>
    <2>1. UNCHANGED <<listVars, lockVars>> /\ stop'.took = stop.took
      BY <1>2, <1>4 DEF StopFails, NoStop
    <2>2. LockInv' /\ OfferedInv'
      BY <1>2, <2>1 DEF LockInv, OfferedInv, NoStop
    <2> QED
      BY <1>2, <1>3, <2>1, <2>2, NoneMoved
  <1>5. CASE stop.took # <<>>
    <2>1. PICK to \in [Prompt -> Place] :
             to = [q \in Prompt |-> IF at[q] = "took" THEN "held" ELSE at[q]]
      BY DEF Place
    <2>2. /\ held' = stop.took \o held /\ UNCHANGED <<steering, waiting>>
          /\ cont' = "release" /\ cont = "free" /\ pc' = "texts"
      BY <1>5 DEF StopFails, Keep, LockInv
    <2>3. ToSet(<<>>) = {} /\ IsInjective(<<>>)
      BY SetOfFew
    <2>4. ToSet(held') = ToSet(stop.took) \cup ToSet(held) /\ IsInjective(held')
      <3>1. ToSet(stop.took) \cap ToSet(held) = {}
        <4>1. ToSet(held) \subseteq Prompt
          BY DEF ListType, ToSet
        <4> QED
          BY <1>1, <4>1 DEF Placed, ListAt
      <3> QED
        BY <2>2, <3>1, SetConcat, OnceConcat DEF ListType, StopType, OnceEach
    <2>5. LockInv' /\ OfferedInv' /\ OnceEach'
      BY <1>2, <2>2, <2>3, <2>4 DEF NoStop, LockInv, OfferedInv, OnceEach
    <2>6. ASSUME NEW q \in Prompt
          PROVE  ListAt(q, to[q])' /\ ToldAt(q, to[q])' /\ ReadAt(q, to[q])'
      <3>1. ListAt(q, at[q]) /\ ToldAt(q, at[q]) /\ ReadAt(q, at[q])
        BY <1>1 DEF Placed
      <3>2. ListAt(q, to[q])'
        BY <1>2, <2>1, <2>2, <2>3, <2>4, <3>1 DEF NoStop, ListAt, Taken
      <3>3. ToldAt(q, to[q])'
        BY <1>2, <2>1, <2>2, <3>1 DEF ToldAt, Past
      <3>4. ReadAt(q, to[q])'
        BY <1>2, <2>1, <3>1 DEF ReadAt
      <3> QED
        BY <3>2, <3>3, <3>4
    <2>7. \A q \in Prompt : at[q] \in Past \/ to[q] = "dropped" => to[q] = at[q]
      BY <2>1 DEF Past
    <2> QED
      BY <1>1, <1>2, <1>3, <2>5, <2>6, <2>7, Moved
  <1> QED
    BY <1>4, <1>5

\* What the holder of applyMu does once its write is over.
LEMMA PlaceWriteWait ==
    ASSUME TypeOK, PlaceInv, WriteWait PROVE PlaceInv'
  <1> ListType /\ LockType /\ StopType /\ GhostType /\ OnceEach /\ LockInv /\ OfferedInv
    BY DEF TypeOK, PlaceInv
  <1>1. PICK at \in [Prompt -> Place] : Placed(at)
    BY DEF PlaceInv
  <1>2. PICK to \in [Prompt -> Place] :
           to = [q \in Prompt |->
                   IF at[q] = "out" THEN IF cont = "submit" THEN "launched" ELSE "gone"
                   ELSE at[q]]
    BY DEF Place
  <1>3. /\ cont' = "free" /\ out' = <<>> /\ stop'.took = stop.took
        /\ stop'.at = "idle" => stop'.took = <<>>
        /\ launched' = IF cont = "submit" THEN launched \cup {out} ELSE launched
        /\ Tell(IF cont \in {"held", "returned"} THEN ToSet(out) ELSE {}, cont)
        /\ UNCHANGED <<listVars, submits, cmds, acked, modVars, claudeVars, reads,
                       offered, confirmed>>
    BY DEF WriteWait, StopType, LockInv
  <1>4. ToSet(out) \subseteq Prompt /\ \A b \in launched : ToSet(b) \cap Taken = {}
    <2>1. ToSet(out) \subseteq Prompt
      BY DEF LockType, ToSet
    <2>2. Taken \subseteq Prompt
      BY <2>1 DEF Taken
    <2> QED
      BY <1>1, <2>1, <2>2 DEF Placed, ListAt
  <1>5. LockInv' /\ OfferedInv'
    BY <1>3 DEF LockInv, OfferedInv
  <1>6. OnceEach'
    <2>1. \A b \in launched' : IsInjective(b)
      BY <1>3 DEF OnceEach
    <2>2. \A b, d \in launched' : b # d => ToSet(b) \cap ToSet(d) = {}
      <3>1. cont = "submit" => Taken = ToSet(out)
        BY DEF Taken
      <3> QED
        BY <1>3, <1>4, <3>1 DEF OnceEach
    <2> QED
      BY <1>3, <2>1, <2>2 DEF OnceEach
  <1>7. ASSUME NEW q \in Prompt
        PROVE  ListAt(q, to[q])' /\ ToldAt(q, to[q])' /\ ReadAt(q, to[q])'
    <2>1. ListAt(q, at[q]) /\ ToldAt(q, at[q]) /\ ReadAt(q, at[q])
      BY <1>1 DEF Placed
    <2>2. ListAt(q, to[q])'
      <3>1. Taken' = {} /\ (at[q] = "out" <=> q \in Taken)
        BY <1>3, <2>1 DEF Taken, ListAt
      <3>2. (\E b \in launched' : q \in ToSet(b)) <=>
               at[q] = "launched" \/ (cont = "submit" /\ at[q] = "out")
        <4>1. CASE cont = "submit"
          <5>1. launched' = launched \cup {out} /\ Taken = ToSet(out)
            BY <1>3, <4>1 DEF Taken
          <5> QED
            BY <2>1, <4>1, <5>1 DEF ListAt
        <4>2. CASE cont # "submit"
          BY <1>3, <2>1, <4>2 DEF ListAt
        <4> QED
          BY <4>1, <4>2
      <3> QED
        BY <1>2, <1>3, <2>1, <3>1, <3>2 DEF ListAt
    <2>3. ToldAt(q, to[q])'
      <3>1. CASE cont = "submit"
        <4>1. told'[q] = told[q]
          BY <1>3, <3>1 DEF Tell
        <4> QED
          BY <1>2, <1>3, <2>1, <3>1, <4>1 DEF ToldAt, Past
      <3>2. CASE cont = "returned"
        <4>1. told'[q] = IF at[q] = "out" THEN "returned" ELSE told[q]
          BY <1>3, <2>1, <3>2 DEF Tell, ListAt, Taken
        <4> QED
          BY <1>2, <1>3, <2>1, <3>2, <4>1, SetOfFew DEF ToldAt, Past
      <3>3. CASE cont = "held"
        <4>1. told'[q] = IF told[q] = "holding" THEN "held" ELSE told[q]
          BY <1>3, <2>1, <3>3 DEF Tell, ToldAt
        <4>2. to[q] = at[q] /\ q \notin ToSet(<<>>)
          BY <1>2, <2>1, <3>3, SetOfFew DEF ListAt, Taken
        <4> QED
          BY <1>3, <2>1, <3>3, <4>1, <4>2 DEF ToldAt, Past
      <3>4. CASE cont \notin {"submit", "returned", "held"}
        <4>1. told'[q] = told[q]
          BY <1>3, <3>4 DEF Tell
        <4>2. to[q] = at[q]
          BY <1>2, <2>1, <3>4 DEF ListAt, Taken
        <4> QED
          BY <1>3, <2>1, <3>4, <4>1, <4>2 DEF ToldAt
      <3> QED
        BY <3>1, <3>2, <3>3, <3>4
    <2>4. ReadAt(q, to[q])'
      BY <1>2, <1>3, <2>1 DEF ReadAt
    <2> QED
      BY <2>2, <2>3, <2>4
  <1>8. Confirming' = Confirming
    BY <1>3 DEF Confirming
  <1>9. \A q \in Prompt : at[q] \in Past \/ to[q] = "dropped" => to[q] = at[q]
    BY <1>2 DEF Past
  <1>10. \A q \in Prompt : told'[q] = "held" => told[q] = "held" \/ at[q] \notin Past
    BY <1>1, <1>3 DEF Tell, Placed, ToldAt, LockType, Past
  <1> QED
    BY <1>1, <1>3, <1>5, <1>6, <1>7, <1>8, <1>9, <1>10, Moved

LEMMA PlaceReleaseHeld ==
    ASSUME TypeOK, PlaceInv, ReleaseHeld PROVE PlaceInv'
  <1> ListType /\ OnceEach /\ LockInv /\ OfferedInv
    BY DEF TypeOK, PlaceInv
  <1>1. PICK at \in [Prompt -> Place] : Placed(at)
    BY DEF PlaceInv
  <1>2. UNCHANGED <<cmdVars, stop, modVars, claudeVars, ghostVars>>
    BY DEF ReleaseHeld
  <1>3. Confirming' = Confirming
    BY <1>2 DEF Confirming
  <1>4. CASE Pending = <<>> \/ ~known \/ TurnAhead
    <2>1. UNCHANGED <<listVars, cont, keep, out>> /\ pc' = "free" /\ pc = "release"
      BY <1>4 DEF ReleaseHeld
    <2>2. LockInv' /\ OfferedInv'
      BY <1>2, <2>1 DEF LockInv, OfferedInv
    <2> QED
      BY <1>2, <1>3, <2>1, <2>2, NoneMoved
  <1>5. CASE ~(Pending = <<>> \/ ~known \/ TurnAhead)
    <2>1. PICK to \in [Prompt -> Place] :
             to = [q \in Prompt |->
                     IF at[q] \in {"steering", "held", "waiting"} THEN "out" ELSE at[q]]
      BY DEF Place
    <2>2. /\ ToSet(Pending) = ToSet(steering) \cup ToSet(held) \cup ToSet(waiting)
          /\ IsInjective(Pending)
      BY <1>1, ListsTogether DEF Placed
    <2>3. /\ steering' = <<>> /\ held' = <<>> /\ waiting' = <<>> /\ out' = Pending
          /\ cont' = "submit" /\ cont = "free" /\ pc' = "texts"
      BY <1>5 DEF ReleaseHeld, Keep, LockInv
    <2>4. ToSet(<<>>) = {} /\ IsInjective(<<>>)
      BY SetOfFew
    <2>5. LockInv' /\ OfferedInv' /\ OnceEach'
      BY <1>2, <2>2, <2>3, <2>4 DEF LockInv, OfferedInv, OnceEach
    <2>6. ASSUME NEW q \in Prompt
          PROVE  ListAt(q, to[q])' /\ ToldAt(q, to[q])' /\ ReadAt(q, to[q])'
      <3>1. ListAt(q, at[q]) /\ ToldAt(q, at[q]) /\ ReadAt(q, at[q])
        BY <1>1 DEF Placed
      <3>2. ListAt(q, to[q])'
        BY <1>2, <2>1, <2>2, <2>3, <2>4, <3>1 DEF ListAt, Taken
      <3>3. ToldAt(q, to[q])'
        BY <1>2, <2>1, <2>3, <3>1 DEF ToldAt, Past
      <3>4. ReadAt(q, to[q])'
        BY <1>2, <2>1, <3>1 DEF ReadAt
      <3> QED
        BY <3>2, <3>3, <3>4
    <2>7. \A q \in Prompt : at[q] \in Past \/ to[q] = "dropped" => to[q] = at[q]
      BY <2>1 DEF Past
    <2> QED
      BY <1>1, <1>2, <1>3, <2>5, <2>6, <2>7, Moved
  <1> QED
    BY <1>4, <1>5

\* The fold: an ack is told to the route, a row confirms what was steered.
LEMMA PlaceApplyAck ==
    ASSUME TypeOK, PlaceInv, ApplyAck PROVE PlaceInv'
  <1> LockInv /\ OfferedInv /\ ModType
    BY DEF TypeOK, PlaceInv
  <1>1. UNCHANGED <<listVars, cont, out, launched, submits, cmds, stop, inHand, answer,
                    claudeVars, ghostVars>>
    BY DEF ApplyAck
  <1>2. LockInv' /\ OfferedInv'
    BY <1>1 DEF ApplyAck, TakeEvent, LockInv, OfferedInv
  <1>3. Confirming' \subseteq Confirming
    <2>1. ASSUME NEW i \in DOMAIN events'
          PROVE  i + 1 \in DOMAIN events /\ events'[i] = events[i + 1]
      BY DEF ApplyAck, TakeEvent, ModType
    <2> DEFINE e == Head(events)
    <2>2. e \in Event /\ e.type = "ack" /\ 1 \in DOMAIN events /\ events[1] = e
      BY DEF ApplyAck, TakeEvent, ModType
    <2>3. acked' \subseteq acked \cup {<<e.cmd, e.ok>>}
      BY DEF ApplyAck
    <2> HIDE DEF e
    <2>4. ASSUME NEW c \in Command, <<c, TRUE>> = <<e.cmd, e.ok>> PROVE events[1] = Ack(c, TRUE)
      BY <2>2, <2>4 DEF Event, Ack
    <2>5. ASSUME NEW c \in Confirming' PROVE c \in Confirming
      <3>1. CASE <<c, TRUE>> \in acked'
        BY <2>2, <2>3, <2>4, <3>1 DEF Confirming
      <3>2. CASE \E i \in DOMAIN events' : events'[i] = Ack(c, TRUE)
        BY <2>1, <3>2 DEF Confirming
      <3> QED
        BY <3>1, <3>2 DEF Confirming
    <2> QED
      BY <2>5
  <1>4. Dropped \subseteq Dropped'
    <2>1. \A i \in DOMAIN events : i # 1 => i - 1 \in DOMAIN events' /\ events'[i - 1] = events[i]
      BY DEF ApplyAck, TakeEvent, ModType
    <2>2. events[1].type = "ack"
      BY DEF ApplyAck, TakeEvent, ModType
    <2> QED
      BY <2>1, <2>2 DEF Dropped
  <1> QED
    BY <1>1, <1>2, <1>3, <1>4, NoneMoved

LEMMA PlaceApplyRow ==
    ASSUME TypeOK, PlaceInv, ApplyRow PROVE PlaceInv'
  <1> ListType /\ ModType /\ OnceEach /\ LockInv /\ OfferedInv
    BY DEF TypeOK, PlaceInv
  <1>1. PICK at \in [Prompt -> Place] : Placed(at)
    BY DEF PlaceInv
  <1>2. /\ events # <<>> /\ Head(events).type = "row" /\ TakeEvent("row")
        /\ UNCHANGED <<held, waiting, launched, submits, cmds, acked, stop, inHand, answer,
                       claudeVars, told, reads, offered>>
        /\ pc \in {"free", "batch"}
    BY DEF ApplyRow, TakeEvent
  <1> DEFINE n == Len(Head(events).texts)
             m == IF n < Len(steering) THEN n ELSE Len(steering)
  <1>3. m \in 0..Len(steering)
    BY <1>2, HeadEvent DEF ListType
  <1>4. /\ steering' = SubSeq(steering, m + 1, Len(steering))
        /\ confirmed' = confirmed \cup ToSet(SubSeq(steering, 1, m))
        /\ IF m = 0
           THEN pc' = "batch" /\ UNCHANGED <<cont, keep, out>>
           ELSE Keep(steering' \o held \o waiting, waiting, "batch", <<>>)
    BY DEF ApplyRow
  <1> HIDE DEF m
  <1>5. PICK done : done = SubSeq(steering, 1, m)
    OBVIOUS
  <1>6. /\ ToSet(steering) = ToSet(done) \cup ToSet(steering')
        /\ ToSet(done) \cap ToSet(steering') = {} /\ IsInjective(steering')
        /\ confirmed' = confirmed \cup ToSet(done)
    BY <1>3, <1>4, <1>5, SetSplit DEF ListType, OnceEach
  <1>7. /\ cont = "free" /\ cont' \in {"free", "batch"}
        /\ pc' \notin {"texts", "wait"} => cont' = "free"
    BY <1>2, <1>4 DEF Keep, LockInv
  <1>8. PICK to \in [Prompt -> Place] :
           to = [q \in Prompt |-> IF q \in ToSet(done) THEN "gone" ELSE at[q]]
    BY DEF Place
  <1>9. LockInv' /\ OfferedInv' /\ OnceEach'
    BY <1>2, <1>6, <1>7 DEF LockInv, OfferedInv, OnceEach
  <1>10. ASSUME NEW q \in Prompt
         PROVE  ListAt(q, to[q])' /\ ToldAt(q, to[q])' /\ ReadAt(q, to[q])'
    <2>1. ListAt(q, at[q]) /\ ToldAt(q, at[q]) /\ ReadAt(q, at[q])
      BY <1>1 DEF Placed
    <2>2. ListAt(q, to[q])'
      BY <1>2, <1>6, <1>7, <1>8, <2>1 DEF ListAt, Taken
    <2>3. q \in ToSet(done) => at[q] = "steering" /\ q \in offered
      BY <1>6, <2>1 DEF ListAt, OfferedInv
    <2>4. ToldAt(q, to[q])'
      BY <1>2, <1>6, <1>7, <1>8, <2>1, <2>3 DEF ToldAt, Past
    <2>5. ReadAt(q, to[q])'
      BY <1>2, <1>8, <2>1, <2>3 DEF ReadAt
    <2> QED
      BY <2>2, <2>4, <2>5
  <1>11. Confirming' \subseteq Confirming /\ Dropped \subseteq Dropped'
    BY <1>2, EventTaken
  <1>12. \A q \in Prompt : at[q] \in Past \/ to[q] = "dropped" => to[q] = at[q]
    <2>1. \A q \in Prompt : q \in ToSet(done) => at[q] = "steering"
      BY <1>1, <1>6 DEF Placed, ListAt
    <2> QED
      BY <1>8, <2>1 DEF Past
  <1> QED
    BY <1>1, <1>2, <1>9, <1>10, <1>11, <1>12, Moved

\* A tool boundary takes what is held.
LEMMA PlaceTakeForSteer ==
    ASSUME TypeOK, PlaceInv, TakeForSteer PROVE PlaceInv'
  <1> ListType /\ OnceEach /\ LockInv /\ OfferedInv
    BY DEF TypeOK, PlaceInv
  <1>1. PICK at \in [Prompt -> Place] : Placed(at)
    BY DEF PlaceInv
  <1>2. PICK to \in [Prompt -> Place] :
           to = [q \in Prompt |-> IF at[q] = "held" THEN "steering" ELSE at[q]]
    BY DEF Place
  <1>3. /\ answer' = held /\ steering' = steering \o held /\ held' = <<>>
        /\ offered' = offered \cup ToSet(held)
        /\ UNCHANGED <<waiting, lockVars, cmdVars, stop, inHand, events, claudeVars, told,
                       reads, confirmed>>
    BY DEF TakeForSteer
  <1>4. ToSet(<<>>) = {} /\ IsInjective(<<>>)
    BY SetOfFew
  <1>5. ToSet(steering') = ToSet(steering) \cup ToSet(held) /\ IsInjective(steering')
    <2>1. ToSet(steering) \cap ToSet(held) = {}
      <3>1. ToSet(held) \subseteq Prompt
        BY DEF ListType, ToSet
      <3> QED
        BY <1>1, <3>1 DEF Placed, ListAt
    <2> QED
      BY <1>3, <2>1, SetConcat, OnceConcat DEF ListType, OnceEach
  <1>6. LockInv' /\ OfferedInv' /\ OnceEach'
    BY <1>3, <1>4, <1>5 DEF LockInv, OfferedInv, OnceEach
  <1>7. ASSUME NEW q \in Prompt
        PROVE  ListAt(q, to[q])' /\ ToldAt(q, to[q])' /\ ReadAt(q, to[q])'
    <2>1. ListAt(q, at[q]) /\ ToldAt(q, at[q]) /\ ReadAt(q, at[q])
      BY <1>1 DEF Placed
    <2>2. ListAt(q, to[q])'
      BY <1>2, <1>3, <1>4, <1>5, <2>1 DEF ListAt, Taken
    <2>3. ToldAt(q, to[q])'
      BY <1>2, <1>3, <2>1 DEF ToldAt, Past
    <2>4. ReadAt(q, to[q])'
      BY <1>2, <1>3, <2>1 DEF ReadAt
    <2> QED
      BY <2>2, <2>3, <2>4
  <1>8. Confirming' = Confirming
    BY <1>3 DEF Confirming
  <1>9. \A q \in Prompt : at[q] \in Past \/ to[q] = "dropped" => to[q] = at[q]
    BY <1>2 DEF Past
  <1> QED
    BY <1>1, <1>3, <1>6, <1>7, <1>8, <1>9, Moved

\* submitHeld's goroutine.
LEMMA PlaceSubmitBatch ==
    ASSUME TypeOK, PlaceInv, NEW b \in launched, SubmitBatch(b) PROVE PlaceInv'
  <1> CmdType /\ ModType /\ OnceEach /\ LockInv /\ OfferedInv
    BY DEF TypeOK, PlaceInv
  <1>1. PICK at \in [Prompt -> Place] : Placed(at)
    BY DEF PlaceInv
  <1>2. PICK to \in [Prompt -> Place] :
           to = [q \in Prompt |-> IF q \in ToSet(b) THEN "cmd" ELSE at[q]]
    BY DEF Place
  <1>3. PICK batch : batch = [i \in 1..Len(b) |-> PromptCmd(nextID + i, b[i])]
    OBVIOUS
  <1>4. /\ submits' = submits \cup {batch} /\ cmds' = cmds \cup ToSet(batch)
        /\ launched' = launched \ {b}
        /\ UNCHANGED <<listVars, lockVars, acked, stop, modVars, claudeVars, ghostVars>>
    BY <1>3 DEF SubmitBatch
  <1>5. b \in Seq(Prompt) /\ IsInjective(b) /\ DOMAIN b = 1..Len(b) /\ Len(b) \in Nat
    BY DEF CmdType, OnceEach
  <1>6. DOMAIN batch = DOMAIN b /\ \A i \in DOMAIN b : batch[i] = PromptCmd(nextID + i, b[i])
    BY <1>3, <1>5
  <1>7. \A q \in ToSet(b) : q \in Prompt /\ at[q] = "launched"
    BY <1>1, <1>5 DEF Placed, ListAt, ToSet
  <1>8. LockInv' /\ OfferedInv' /\ OnceEach'
    BY <1>4 DEF LockInv, OfferedInv, OnceEach
  <1>9. ASSUME NEW q \in Prompt
        PROVE  ListAt(q, to[q])' /\ ToldAt(q, to[q])' /\ ReadAt(q, to[q])'
    <2>1. ListAt(q, at[q]) /\ ToldAt(q, at[q]) /\ ReadAt(q, at[q])
      BY <1>1 DEF Placed
    <2>2. (\E d \in launched' : q \in ToSet(d)) <=> to[q] = "launched"
      BY <1>2, <1>4, <2>1 DEF ListAt, OnceEach
    <2>3. ListAt(q, to[q])'
      BY <1>2, <1>4, <1>7, <2>1, <2>2 DEF ListAt, Taken
    <2>4. q \in ToSet(b) => \E i \in DOMAIN batch : batch[i].text = q
      BY <1>6 DEF ToSet, PromptCmd
    <2>5. ToldAt(q, to[q])'
      <3>1. \A d \in submits : d \in submits'
        BY <1>4
      <3>2. batch \in submits'
        BY <1>4
      <3> QED
        BY <1>2, <1>4, <1>7, <2>1, <2>4, <3>1, <3>2 DEF ToldAt, Past
    <2>6. ReadAt(q, to[q])'
      BY <1>2, <1>4, <1>7, <2>1 DEF ReadAt
    <2> QED
      BY <2>3, <2>5, <2>6
  <1>10. CmdPlaces(to)'
    <2>1. \A c \in ToSet(batch) : c.op = "prompt" /\ c.text \in ToSet(b)
      BY <1>6 DEF ToSet, PromptCmd
    <2>2. \A c, d \in ToSet(batch) : c.text = d.text => c = d
      BY <1>5, <1>6 DEF ToSet, PromptCmd, IsInjective
    <2>3. \A c \in cmds \cup inHand : c.op = "prompt" => c.text \in Prompt /\ c.text \notin ToSet(b)
      BY <1>1, <1>7 DEF CmdType, ModType, Command, Placed, CmdPlaces
    <2>4. \A d \in submits : \A i \in DOMAIN d : d[i].op = "prompt" => d[i].text \in Prompt
      BY DEF CmdType, Command
    <2>5. \A c \in (cmds \cup inHand)' : c.op = "prompt" => to[c.text] = "cmd"
      BY <1>1, <1>2, <1>4, <1>7, <2>1, <2>3 DEF Placed, CmdPlaces
    <2>6. \A d \in submits' : \A i \in DOMAIN d : d[i].op = "prompt" /\ to[d[i].text] \in Past
      <3>1. \A i \in DOMAIN batch : batch[i] \in ToSet(batch)
        BY DEF ToSet
      <3> QED
        BY <1>1, <1>2, <1>4, <1>7, <2>1, <2>4, <3>1 DEF Placed, CmdPlaces, Past
    <2>7. \A c, d \in (cmds \cup inHand)' :
              c.op = "prompt" /\ d.op = "prompt" /\ c.text = d.text => c = d
      BY <1>1, <1>4, <2>1, <2>2, <2>3 DEF Placed, CmdPlaces
    <2>8. \A c \in (cmds \cap inHand)' : c.op # "prompt"
      BY <1>1, <1>4, <2>1, <2>3 DEF Placed, CmdPlaces
    <2> QED
      BY <2>5, <2>6, <2>7, <2>8 DEF CmdPlaces
  <1>11. AckPlaces(to)'
    <2>1. Confirming' = Confirming
      BY <1>4 DEF Confirming
    <2>2. \A q \in Prompt : at[q] \in {"queue", "dropped", "read"} =>
                               to[q] \in {"queue", "dropped", "read"}
      BY <1>2, <1>7
    <2> QED
      BY <1>1, <2>1, <2>2, AckKeeps DEF Placed
  <1>12. DropPlaces(to)'
    BY <1>1, <1>2, <1>4, DropKeeps DEF Placed
  <1> QED
    BY <1>8, <1>9, <1>10, <1>11, <1>12 DEF PlaceInv, Placed

\* No batch is empty: releaseHeld starts none for nothing.
FullInv ==
    /\ cont = "submit" => out # <<>>
    /\ \A b \in launched \cup submits : b # <<>>

LEMMA FullInit == ASSUME Init PROVE FullInv
  BY DEF Init, FullInv

LEMMA FullNext ==
    ASSUME TypeOK, FullInv, [Next]_vars PROVE FullInv'
  <1> CmdType
    BY DEF TypeOK
  <1>1. ASSUME NEW b \in launched, SubmitBatch(b) PROVE FullInv'
    <2> DEFINE batch == [i \in 1..Len(b) |-> PromptCmd(nextID + i, b[i])]
    <2>1. b \in Seq(Prompt) /\ b # <<>>
      BY DEF CmdType, FullInv
    <2>2. DOMAIN batch = 1..Len(b) /\ 1 \in 1..Len(b)
      BY <2>1
    <2>3. submits' = submits \cup {batch} /\ launched' \subseteq launched
      BY <1>1 DEF SubmitBatch
    <2> HIDE DEF batch
    <2>4. batch # <<>>
      BY <2>2
    <2> QED
      BY <1>1, <2>3, <2>4 DEF SubmitBatch, FullInv
  <1>2. ASSUME NEW b \in submits, SubmitReads(b) \/ SubmitGivesUp(b) PROVE FullInv'
    <2>1. b \in Seq(Command)
      BY DEF CmdType
    <2>2. Len(b) > 1 => Tail(b) # <<>>
      BY <2>1
    <2> QED
      BY <1>2, <2>2 DEF SubmitReads, SubmitGivesUp, FullInv
  <1>3. CASE WriteTexts \/ WriteWait
    BY <1>3 DEF WriteTexts, WriteWait, FullInv
  <1>4. CASE ReleaseHeld
    BY <1>4 DEF ReleaseHeld, Keep, FullInv
  <1>5. CASE StopTakes \/ StopPlain \/ StopSends \/ StopSucceeds \/ StopFails
    BY <1>5 DEF StopTakes, StopPlain, StopSends, StopSucceeds, StopFails, Keep, FullInv
  <1>6. ASSUME NEW p \in Prompt,
               \/ Hold(p, TRUE) \/ Hold(p, FALSE) \/ HoldDeclines(p) \/ CancelHeld(p)
               \/ SendPrompt(p) \/ PromptAccepted(p) \/ PromptNotConfirmed(p)
        PROVE  FullInv'
    BY <1>6 DEF Hold, HoldDeclines, CancelHeld, SendPrompt, PromptAccepted,
                PromptNotConfirmed, Keep, FullInv
  <1>7. CASE TakeHeld \/ StartPaneTurn
    BY <1>7 DEF TakeHeld, StartPaneTurn, Keep, FullInv
  <1>8. CASE \/ ApplyTurn \/ ApplyAck \/ ApplyFailed \/ ApplyRow \/ ApplyEnds
             \/ \E n \in timers : TimerFires(n)
    BY <1>8 DEF ApplyTurn, ApplyAck, ApplyFailed, ApplyRow, ApplyEnds, TimerFires, Keep, FullInv
  <1>9. CASE Mod
    BY <1>9 DEF Mod, Poll, TakeForSteer, AttachContext, TakeMisses, RunPrompt, RefusePrompt,
                RunAbort, FullInv
  <1>10. CASE Claude
    BY <1>10 DEF Claude, StoreRow, StartTurn, DropPrompt, EndTurn, FullInv
  <1>11. CASE UNCHANGED vars
    BY <1>11 DEF vars, FullInv
  <1> QED
    BY <1>1, <1>2, <1>3, <1>4, <1>5, <1>6, <1>7, <1>8, <1>9, <1>10, <1>11
       DEF Next, Person, Routes, Apply

\* The acks of a batch are read in order, or given up on.
LEMMA PlaceSubmitReads ==
    ASSUME TypeOK, FullInv, PlaceInv, NEW b \in submits, SubmitReads(b) \/ SubmitGivesUp(b)
    PROVE  PlaceInv'
  <1> CmdType /\ ModType /\ GhostType /\ OnceEach /\ LockInv /\ OfferedInv
    BY DEF TypeOK, PlaceInv
  <1>1. PICK at \in [Prompt -> Place] : Placed(at)
    BY DEF PlaceInv
  <1>2. /\ UNCHANGED <<listVars, lockVars, launched, stop, modVars, claudeVars>>
        /\ UNCHANGED <<reads, offered, confirmed>>
        /\ cmds' \subseteq cmds /\ acked' \subseteq acked
    BY DEF SubmitReads, SubmitGivesUp, Forget
  <1>3. /\ b \in Seq(Command) /\ b # <<>> /\ DOMAIN b = 1..Len(b) /\ Len(b) \in Nat
        /\ 1 \in DOMAIN b /\ Head(b) = b[1]
        /\ Len(b) > 1 => /\ DOMAIN Tail(b) = 1..(Len(b) - 1)
                         /\ \A i \in 1..(Len(b) - 1) : Tail(b)[i] = b[i + 1]
    BY DEF CmdType, FullInv
  <1>4. \A i \in DOMAIN b : /\ b[i].op = "prompt" /\ b[i].text \in Prompt
                            /\ at[b[i].text] \in Past
    BY <1>1, <1>3 DEF Placed, CmdPlaces, Command
  <1>5. LockInv' /\ OfferedInv'
    BY <1>2 DEF LockInv, OfferedInv
  <1>6. OnceEach' /\ \A q, a : ListAt(q, a) => ListAt(q, a)'
    BY <1>2, ListsKeep
  <1>7. Confirming' \subseteq Confirming
    BY <1>2 DEF Confirming
  <1>8. AckPlaces(at)'
    BY <1>1, <1>7, AckKeeps DEF Placed
  <1> DEFINE Left(q) == \E d \in submits' : \E i \in DOMAIN d : d[i].text = q
  <1>9. /\ \A d \in submits' : d \in submits \/ (d = Tail(b) /\ Len(b) > 1)
        /\ \A d \in submits : d # b => d \in submits'
    BY DEF SubmitReads, SubmitGivesUp
  <1>10. CmdPlaces(at)'
    <2>1. \A d \in submits' : \A i \in DOMAIN d : d[i].op = "prompt" /\ at[d[i].text] \in Past
      <3> SUFFICES ASSUME NEW d \in submits', NEW i \in DOMAIN d
                   PROVE  d[i].op = "prompt" /\ at[d[i].text] \in Past
        OBVIOUS
      <3>1. CASE d \in submits
        BY <1>1, <3>1 DEF Placed, CmdPlaces
      <3>2. CASE d = Tail(b) /\ Len(b) > 1
        <4>1. i + 1 \in DOMAIN b /\ d[i] = b[i + 1]
          BY <1>3, <3>2
        <4> QED
          BY <1>4, <4>1
      <3> QED
        BY <1>9, <3>1, <3>2
    <2> QED
      BY <1>1, <1>2, <2>1 DEF Placed, CmdPlaces
  <1>11. ASSUME NEW q \in Prompt, told'[q] = "held", at[q] = "cmd" PROVE told[q] = "held" /\ Left(q)
    <2>1. told[q] = "held" /\ \E d \in submits : \E i \in DOMAIN d : d[i].text = q
      <3>1. told[q] = "held"
        BY <1>11 DEF SubmitReads, SubmitGivesUp, Tell
      <3> QED
        BY <1>1, <1>11, <3>1 DEF Placed, ToldAt
    <2>2. CASE \E d \in submits : d # b /\ \E i \in DOMAIN d : d[i].text = q
      BY <1>9, <2>1, <2>2
    <2>3. ASSUME NEW i \in DOMAIN b, b[i].text = q PROVE Left(q)
      <3>1. SubmitReads(b)
        <4>1. SubmitGivesUp(b) => told'[q] = "failed"
          BY <2>3 DEF SubmitGivesUp, Tell, ToSet
        <4> QED
          BY <1>11, <4>1
      <3>2. PICK ok \in BOOLEAN : /\ <<Head(b), ok>> \in acked
                                  /\ Tell(IF ok THEN {} ELSE {Head(b).text}, "failed")
        BY <3>1 DEF SubmitReads
      <3>3. i # 1
        <4>1. CASE ok
          <5>1. <<Head(b), TRUE>> \in acked
            <6>1. ok = TRUE
              BY <4>1
            <6> QED
              BY <3>2, <6>1
          <5>2. Head(b) \in Command /\ Head(b).op = "prompt"
            BY <1>3, <1>4
          <5>3. Head(b) \in Confirming
            BY <5>1, <5>2 DEF Confirming
          <5>4. at[Head(b).text] \in {"queue", "dropped", "read"}
            BY <1>1, <5>3 DEF Placed, AckPlaces
          <5> QED
            BY <1>3, <1>11, <2>3, <5>4
        <4>2. CASE ~ok
          <5>1. told'[Head(b).text] = "failed"
            BY <1>3, <1>4, <3>2, <4>2 DEF Tell
          <5> QED
            BY <1>3, <1>11, <2>3, <5>1
        <4> QED
          BY <4>1, <4>2
      <3>4. Len(b) > 1 /\ i - 1 \in 1..(Len(b) - 1)
        BY <1>3, <3>3
      <3>5. Tail(b) \in submits'
        BY <3>1, <3>4 DEF SubmitReads
      <3>6. i - 1 \in DOMAIN Tail(b) /\ Tail(b)[i - 1].text = q
        BY <1>3, <2>3, <3>4
      <3> QED
        BY <3>5, <3>6
    <2> QED
      BY <2>1, <2>2, <2>3
  <1> HIDE DEF Left
  <1>12. ASSUME NEW q \in Prompt PROVE ToldAt(q, at[q])' /\ ReadAt(q, at[q])'
    <2>1. ToldAt(q, at[q]) /\ ReadAt(q, at[q])
      BY <1>1 DEF Placed
    <2>2. told'[q] = told[q] \/ (told'[q] = "failed" /\ at[q] \in Past)
      <3>1. CASE SubmitReads(b)
        <4>1. PICK ok \in BOOLEAN : Tell(IF ok THEN {} ELSE {Head(b).text}, "failed")
          BY <3>1 DEF SubmitReads
        <4> QED
          BY <1>3, <1>4, <4>1 DEF Tell
      <3>2. CASE SubmitGivesUp(b)
        BY <1>4, <3>2 DEF SubmitGivesUp, Tell, ToSet
      <3> QED
        BY <3>1, <3>2
    <2>3. ToldAt(q, at[q])'
      BY <1>2, <1>11, <2>1, <2>2 DEF ToldAt, Past, Left
    <2> QED
      BY <1>2, <2>1, <2>3 DEF ReadAt
  <1>13. DropPlaces(at)'
    <2>1. \A q \in Prompt : told'[q] = "held" => told[q] = "held"
      BY DEF SubmitReads, SubmitGivesUp, Tell
    <2> QED
      BY <1>1, <1>2, <2>1, DropKeeps DEF Placed
  <1> QED
    BY <1>1, <1>5, <1>6, <1>8, <1>10, <1>12, <1>13 DEF PlaceInv, Placed

\* The mod runs a prompt's command.
LEMMA PlaceRunPrompt ==
    ASSUME TypeOK, PlaceInv, NEW cmd \in inHand, RunPrompt(cmd) PROVE PlaceInv'
  <1> CmdType /\ ModType /\ ClaudeType /\ GhostType /\ OnceEach /\ LockInv /\ OfferedInv
    BY DEF TypeOK, PlaceInv
  <1>1. PICK at \in [Prompt -> Place] : Placed(at)
    BY DEF PlaceInv
  <1>2. cmd \in Command /\ cmd.op = "prompt" /\ inHand' = inHand \ {cmd}
    BY DEF RunPrompt, RunOne, ModType
  <1>3. PICK p \in Prompt : p = cmd.text
    BY <1>2 DEF Command
  <1>4. at[p] = "cmd"
    BY <1>1, <1>2, <1>3 DEF Placed, CmdPlaces
  <1>5. PICK to \in [Prompt -> Place] :
           to = [at EXCEPT ![p] = IF p \in Slash THEN "read" ELSE "queue"]
    BY DEF Place
  <1>6. UNCHANGED <<listVars, lockVars, cmdVars, stop, answer, context, told, offered,
                    confirmed>>
    BY DEF RunPrompt
  <1>7. /\ p \in Slash => reads' = [reads EXCEPT ![p] = @ + 1] /\ claudeQ' = claudeQ
        /\ p \notin Slash => claudeQ' = Append(claudeQ, p) /\ reads' = reads
    BY <1>3 DEF RunPrompt
  <1>8. /\ p \notin Slash => ToSet(claudeQ') = ToSet(claudeQ) \cup {p}
        /\ IsInjective(claudeQ')
    <2>1. p \notin ToSet(claudeQ) /\ claudeQ \in Seq(Prompt) /\ IsInjective(claudeQ)
      BY <1>1, <1>4 DEF Placed, ListAt, ClaudeType, OnceEach
    <2>2. CASE p \in Slash
      BY <1>7, <2>1, <2>2
    <2>3. CASE p \notin Slash
      <3>1. claudeQ' = Append(claudeQ, p)
        BY <1>7, <2>3
      <3> QED
        BY <2>1, <2>3, <3>1, SetAppend
    <2> QED
      BY <2>2, <2>3
  <1>9. LockInv' /\ OfferedInv' /\ OnceEach'
    BY <1>6, <1>8 DEF LockInv, OfferedInv, OnceEach
  <1>10. ASSUME NEW q \in Prompt
         PROVE  ListAt(q, to[q])' /\ ToldAt(q, to[q])' /\ ReadAt(q, to[q])'
    <2>1. ListAt(q, at[q]) /\ ToldAt(q, at[q]) /\ ReadAt(q, at[q])
      BY <1>1 DEF Placed
    <2>2. ListAt(q, to[q])'
      BY <1>4, <1>5, <1>6, <1>7, <1>8, <2>1 DEF ListAt, Taken
    <2>3. ToldAt(q, to[q])'
      BY <1>4, <1>5, <1>6, <2>1 DEF ToldAt, Past
    <2>4. ReadAt(q, to[q])'
      BY <1>4, <1>5, <1>6, <1>7, <2>1 DEF ReadAt, GhostType
    <2> QED
      BY <2>2, <2>3, <2>4
  <1>11. CmdPlaces(to)'
    <2>1. \A c \in (cmds \cup inHand)' :
             c \in cmds \cup inHand /\ (c.op = "prompt" => c.text # p /\ c.text \in Prompt)
      <3>1. cmd \notin cmds
        BY <1>1, <1>2 DEF Placed, CmdPlaces
      <3>2. \A c \in cmds \cup inHand : c.op = "prompt" /\ c.text = p => c = cmd
        BY <1>1, <1>2, <1>3 DEF Placed, CmdPlaces
      <3>3. \A c \in cmds \cup inHand : c.op = "prompt" => c.text \in Prompt
        BY DEF CmdType, ModType, Command
      <3> QED
        BY <1>2, <1>6, <3>1, <3>2, <3>3
    <2>2. \A c \in (cmds \cup inHand)' : c.op = "prompt" => to[c.text] = "cmd"
      BY <1>1, <1>5, <2>1 DEF Placed, CmdPlaces
    <2>3. \A b \in submits : \A i \in DOMAIN b : b[i].op = "prompt" => b[i].text \in Prompt
      BY DEF CmdType, Command
    <2>4. \A b \in submits' : \A i \in DOMAIN b : b[i].op = "prompt" /\ to[b[i].text] \in Past
      BY <1>1, <1>5, <1>6, <2>3 DEF Placed, CmdPlaces, Past
    <2>5. \A c, d \in (cmds \cup inHand)' :
              c.op = "prompt" /\ d.op = "prompt" /\ c.text = d.text => c = d
      BY <1>1, <2>1 DEF Placed, CmdPlaces
    <2>6. \A c \in (cmds \cap inHand)' : c.op # "prompt"
      BY <1>1, <1>2, <1>6 DEF Placed, CmdPlaces
    <2> QED
      BY <2>2, <2>4, <2>5, <2>6 DEF CmdPlaces
  <1>12. AckPlaces(to)'
    <2>1. ASSUME NEW c \in Confirming' PROVE c \in Confirming \/ c = cmd
      <3>1. \A i \in DOMAIN events' :
               events'[i] = Ack(cmd, TRUE) \/ (i \in DOMAIN events /\ events'[i] = events[i])
        <4>1. PICK e \in Event : e = Ack(cmd, TRUE)
          BY <1>2 DEF Ack, Event
        <4>2. events' = Append(events, e)
          BY <4>1 DEF RunPrompt
        <4>3. \A i \in DOMAIN events' :
                 events'[i] = e \/ (i \in DOMAIN events /\ events'[i] = events[i])
          BY <4>2 DEF ModType
        <4> QED
          BY <4>1, <4>3
      <3>2. Ack(c, TRUE) = Ack(cmd, TRUE) => c = cmd
        BY DEF Ack
      <3> QED
        BY <1>6, <2>1, <3>1, <3>2 DEF Confirming
    <2>2. \A c \in Confirming : c.text \in Prompt
      BY DEF Confirming, Command
    <2> QED
      BY <1>1, <1>3, <1>5, <2>1, <2>2 DEF Placed, AckPlaces
  <1>13. DropPlaces(to)'
    <2>1. \A i \in DOMAIN events : i \in DOMAIN events' /\ events'[i] = events[i]
      BY <1>2 DEF RunPrompt, Ack, Event, ModType
    <2>2. Dropped \subseteq Dropped'
      BY <2>1 DEF Dropped
    <2> QED
      BY <1>1, <1>5, <1>6, <2>2, DropKeeps DEF Placed
  <1> QED
    BY <1>9, <1>10, <1>11, <1>12, <1>13 DEF PlaceInv, Placed

\* Claude reads: the row of what was steered, and what was queued.
LEMMA PlaceStoreRow ==
    ASSUME TypeOK, PlaceInv, StoreRow PROVE PlaceInv'
  <1> ModType /\ ClaudeType /\ GhostType /\ OnceEach /\ LockInv /\ OfferedInv
    BY DEF TypeOK, PlaceInv
  <1>1. PICK at \in [Prompt -> Place] : Placed(at)
    BY DEF PlaceInv
  <1>2. /\ UNCHANGED <<listVars, lockVars, cmdVars, stop, inHand, answer, claudeQ, told,
                       offered, confirmed>>
        /\ context' = <<>> /\ Reads(ToSet(context))
    BY DEF StoreRow
  <1>3. ToSet(<<>>) = {}
    BY SetOfFew
  <1>4. LockInv' /\ OfferedInv'
    BY <1>2, <1>3 DEF LockInv, OfferedInv
  <1>5. OnceEach' /\ \A q, a : ListAt(q, a) => ListAt(q, a)'
    BY <1>2, ListsKeep
  <1>6. \A q, a : ToldAt(q, a) => ToldAt(q, a)'
    BY <1>2, ToldKeeps
  <1>7. \A q \in Prompt : ReadAt(q, at[q])'
    <2>1. \A q \in Prompt : /\ q \notin offered => reads'[q] = reads[q]
                            /\ reads'[q] \in {reads[q], reads[q] + 1}
      BY <1>2 DEF Reads, OfferedInv
    <2> QED
      BY <1>1, <1>2, <2>1 DEF Placed, ReadAt, GhostType
  <1>8. Confirming' \subseteq Confirming /\ Dropped \subseteq Dropped'
    <2>1. PICK e \in Event : Mute(e) /\ events' = Append(events, e)
      BY DEF StoreRow, Mute, Event, ClaudeType
    <2> QED
      BY <1>2, <2>1, EventAppended
  <1> QED
    BY <1>1, <1>2, <1>4, <1>5, <1>6, <1>7, <1>8, Moved DEF Placed

LEMMA PlaceStartTurn ==
    ASSUME TypeOK, PlaceInv, StartTurn PROVE PlaceInv'
  <1> CmdType /\ ModType /\ ClaudeType /\ GhostType /\ OnceEach /\ LockInv /\ OfferedInv
    BY DEF TypeOK, PlaceInv
  <1>1. PICK at \in [Prompt -> Place] : Placed(at)
    BY DEF PlaceInv
  <1>2. PICK to \in [Prompt -> Place] :
           to = [q \in Prompt |-> IF at[q] = "queue" THEN "read" ELSE at[q]]
    BY DEF Place
  <1>3. /\ UNCHANGED <<listVars, lockVars, cmdVars, stop, inHand, answer, context, told,
                       offered, confirmed>>
        /\ claudeQ' = <<>> /\ Reads(ToSet(claudeQ))
    BY DEF StartTurn
  <1>4. ToSet(<<>>) = {}
    BY SetOfFew
  <1>5. LockInv' /\ OfferedInv' /\ OnceEach'
    BY <1>3, SetOfFew DEF LockInv, OfferedInv, OnceEach
  <1>6. ASSUME NEW q \in Prompt
        PROVE  ListAt(q, to[q])' /\ ToldAt(q, to[q])' /\ ReadAt(q, to[q])'
    <2>1. ListAt(q, at[q]) /\ ToldAt(q, at[q]) /\ ReadAt(q, at[q])
      BY <1>1 DEF Placed
    <2>2. ListAt(q, to[q])'
      BY <1>2, <1>3, <1>4, <2>1 DEF ListAt, Taken
    <2>3. ToldAt(q, to[q])'
      BY <1>2, <1>3, <2>1 DEF ToldAt, Past
    <2>4. reads'[q] = IF at[q] = "queue" THEN reads[q] + 1 ELSE reads[q]
      BY <1>3, <2>1 DEF Reads, ListAt
    <2>5. ReadAt(q, to[q])'
      BY <1>2, <1>3, <2>1, <2>4 DEF ReadAt, GhostType
    <2> QED
      BY <2>2, <2>3, <2>5
  <1>7. CmdPlaces(to)'
    <2>1. /\ \A c \in cmds \cup inHand : c.op = "prompt" => c.text \in Prompt
          /\ \A b \in submits : \A i \in DOMAIN b : b[i].op = "prompt" => b[i].text \in Prompt
      BY DEF CmdType, ModType, Command
    <2> QED
      BY <1>1, <1>2, <1>3, <2>1 DEF Placed, CmdPlaces, Past
  <1>8. AckPlaces(to)' /\ DropPlaces(to)'
    <2>1. PICK e \in Event : Mute(e) /\ events' = Append(events, e)
      BY DEF StartTurn, Mute, Event
    <2>2. Confirming' \subseteq Confirming /\ Dropped \subseteq Dropped'
      BY <1>3, <2>1, EventAppended
    <2>3. AckPlaces(to)'
      BY <1>1, <1>2, <2>2, AckKeeps DEF Placed
    <2>4. DropPlaces(to)'
      BY <1>1, <1>2, <1>3, <2>2, DropKeeps DEF Placed
    <2> QED
      BY <2>3, <2>4
  <1> QED
    BY <1>5, <1>6, <1>7, <1>8 DEF PlaceInv, Placed

\* A hook drops what Claude has queued, and the fold hears of it.
LEMMA PlaceDropPrompt ==
    ASSUME TypeOK, PlaceInv, DropPrompt PROVE PlaceInv'
  <1> CmdType /\ ModType /\ ClaudeType /\ GhostType /\ OnceEach /\ LockInv /\ OfferedInv
    BY DEF TypeOK, PlaceInv
  <1>1. PICK at \in [Prompt -> Place] : Placed(at)
    BY DEF PlaceInv
  <1>2. PICK i \in DOMAIN claudeQ :
           /\ claudeQ' = RemoveAt(claudeQ, i)
           /\ events' = Append(events, [type |-> "command_failed", text |-> claudeQ[i]])
    BY DEF DropPrompt
  <1>3. PICK p \in Prompt : p = claudeQ[i]
    BY <1>2 DEF ClaudeType
  <1>4. UNCHANGED <<listVars, lockVars, cmdVars, stop, inHand, answer, context, told,
                    reads, offered, confirmed>>
    BY DEF DropPrompt
  <1>5. claudeQ \in Seq(Prompt) /\ IsInjective(claudeQ) /\ p \in ToSet(claudeQ)
    BY <1>2, <1>3 DEF ClaudeType, OnceEach, ToSet
  <1>6. ToSet(claudeQ') = ToSet(claudeQ) \ {p} /\ IsInjective(claudeQ')
    BY <1>2, <1>3, <1>5, SetRemove
  <1>7. at[p] = "queue"
    BY <1>1, <1>5 DEF Placed, ListAt
  <1>8. PICK to \in [Prompt -> Place] : to = [at EXCEPT ![p] = "dropped"]
    BY DEF Place
  <1>9. LockInv' /\ OfferedInv' /\ OnceEach'
    BY <1>4, <1>6 DEF LockInv, OfferedInv, OnceEach
  <1>10. ASSUME NEW q \in Prompt
         PROVE  ListAt(q, to[q])' /\ ToldAt(q, to[q])' /\ ReadAt(q, to[q])'
    <2>1. ListAt(q, at[q]) /\ ToldAt(q, at[q]) /\ ReadAt(q, at[q])
      BY <1>1 DEF Placed
    <2>2. ListAt(q, to[q])'
      BY <1>4, <1>6, <1>7, <1>8, <2>1 DEF ListAt, Taken
    <2>3. ToldAt(q, to[q])'
      BY <1>4, <1>7, <1>8, <2>1 DEF ToldAt, Past
    <2>4. ReadAt(q, to[q])'
      BY <1>4, <1>7, <1>8, <2>1 DEF ReadAt
    <2> QED
      BY <2>2, <2>3, <2>4
  <1>11. CmdPlaces(to)'
    <2>1. /\ \A c \in cmds \cup inHand : c.op = "prompt" => c.text \in Prompt
          /\ \A b \in submits : \A j \in DOMAIN b : b[j].op = "prompt" => b[j].text \in Prompt
      BY DEF CmdType, ModType, Command
    <2> QED
      BY <1>1, <1>4, <1>7, <1>8, <2>1 DEF Placed, CmdPlaces, Past
  <1>12. PICK e \in Event : /\ e = [type |-> "command_failed", text |-> p]
                            /\ events' = Append(events, e)
    BY <1>2, <1>3 DEF Event
  <1>13. Confirming' \subseteq Confirming /\ Dropped \subseteq Dropped'
    <2>1. Mute(e)
      BY <1>12 DEF Mute
    <2> QED
      BY <1>4, <1>12, <2>1, EventAppended
  <1>14. AckPlaces(to)'
    BY <1>1, <1>7, <1>8, <1>13, AckKeeps DEF Placed
  <1>15. p \in Dropped'
    <2>1. Len(events) + 1 \in DOMAIN events' /\ events'[Len(events) + 1] = e
      BY <1>12 DEF ModType
    <2> QED
      BY <1>12, <2>1 DEF Dropped
  <1>16. DropPlaces(to)'
    BY <1>1, <1>4, <1>8, <1>13, <1>15 DEF Placed, DropPlaces
  <1> QED
    BY <1>9, <1>10, <1>11, <1>14, <1>16 DEF PlaceInv, Placed

LEMMA PlaceApplyFailed ==
    ASSUME TypeOK, PlaceInv, ApplyFailed PROVE PlaceInv'
  <1> CmdType /\ ModType /\ GhostType /\ OnceEach /\ LockInv /\ OfferedInv
    BY DEF TypeOK, PlaceInv
  <1>1. PICK at \in [Prompt -> Place] : Placed(at)
    BY DEF PlaceInv
  <1>2. /\ UNCHANGED <<listVars, cont, out, cmdVars, stop, inHand, answer, claudeVars,
                       reads, offered, confirmed>>
        /\ TakeEvent("command_failed")
    BY DEF ApplyFailed
  <1>3. PICK p : /\ p = Head(events).text
                 /\ told[p] \in {"held", "sent"} => Tell({p}, "failed")
                 /\ told[p] \notin {"held", "sent"} => Tell({}, "failed")
    BY DEF ApplyFailed
  <1>4. LockInv' /\ OfferedInv'
    BY <1>2 DEF ApplyFailed, TakeEvent, LockInv, OfferedInv
  <1>5. OnceEach' /\ \A q, a : ListAt(q, a) => ListAt(q, a)'
    BY <1>2, ListsKeep
  <1>6. \A q \in Prompt : /\ \/ told'[q] = told[q]
                             \/ told[q] \in {"held", "sent"} /\ told'[q] = "failed"
                          /\ q = p => told'[q] # "held"
    <2>1. CASE told[p] \in {"held", "sent"}
      BY <1>3, <2>1 DEF Tell
    <2>2. CASE told[p] \notin {"held", "sent"}
      BY <1>3, <2>2 DEF Tell
    <2> QED
      BY <2>1, <2>2
  <1>7. ASSUME NEW q \in Prompt PROVE ToldAt(q, at[q])' /\ ReadAt(q, at[q])'
    <2>1. ToldAt(q, at[q]) /\ ReadAt(q, at[q])
      BY <1>1 DEF Placed
    <2> QED
      BY <1>2, <1>6, <2>1 DEF ToldAt, ReadAt
  <1>8. CmdPlaces(at)'
    BY <1>1, <1>2, CmdKeeps DEF Placed
  <1>9. /\ Confirming' \subseteq Confirming
        /\ \A q \in Dropped : q \in Dropped' \/ q = p
    BY <1>2, <1>3, EventTaken
  <1>10. AckPlaces(at)'
    BY <1>1, <1>9, AckKeeps DEF Placed
  <1>11. DropPlaces(at)'
    BY <1>1, <1>6, <1>9 DEF Placed, DropPlaces
  <1> QED
    BY <1>1, <1>4, <1>5, <1>7, <1>8, <1>10, <1>11 DEF PlaceInv, Placed

\* Every step keeps every prompt in one place.
LEMMA PlaceNext ==
    ASSUME TypeOK, FullInv, PlaceInv, [Next]_vars PROVE PlaceInv'
  <1>1. CASE Person
    BY <1>1, PlaceHold, PlaceHoldDeclines, PlaceCancelHeld, PlaceTakeHeld, PlaceStopTakes,
       PlaceStop, PlaceMod DEF Person
  <1>2. CASE Routes
    BY <1>2, PlaceSendPrompt, PlaceAnswered, PlaceStop, PlaceStopSucceeds, PlaceStopFails,
       PlaceSubmitBatch, PlaceSubmitReads DEF Routes
  <1>3. CASE Apply
    BY <1>3, PlaceLock, PlaceWriteWait, PlaceReleaseHeld, PlaceApplyAck, PlaceApplyFailed,
       PlaceApplyRow DEF Apply
  <1>4. CASE Mod
    BY <1>4, PlaceMod, PlaceTakeForSteer, PlaceRunPrompt DEF Mod
  <1>5. CASE Claude
    BY <1>5, PlaceStoreRow, PlaceStartTurn, PlaceDropPrompt, PlaceMod DEF Claude
  <1>6. CASE UNCHANGED vars
    <2>1. LockInv' /\ OfferedInv' /\ Confirming' = Confirming
      BY <1>6 DEF vars, PlaceInv, LockInv, OfferedInv, Confirming
    <2> QED
      BY <1>6, <2>1, NoneMoved DEF vars
  <1> QED
    BY <1>1, <1>2, <1>3, <1>4, <1>5, <1>6 DEF Next

Places == TypeOK /\ FullInv /\ PlaceInv

LEMMA PlacesHold == Spec => []Places
  <1>1. Init => Places
    BY TypeInit, FullInit, PlaceInit DEF Places
  <1>2. Places /\ [Next]_vars => Places'
    BY TypeNext, FullNext, PlaceNext DEF Places
  <1> QED
    BY <1>1, <1>2, PTL DEF Spec

\* A prompt that was never handed to the mod at a tool boundary is read at most
\* once, whatever Stops take back and put back, batches are given up on, or
\* commands the service has forgotten run late.
THEOREM UnofferedReadOnce == Spec => [](\A p \in Prompt \ offered : reads[p] <= 1)
  <1>1. Places => \A p \in Prompt \ offered : reads[p] <= 1
    BY DEF Places, PlaceInv, Placed, ReadAt
  <1> QED
    BY <1>1, PlacesHold, PTL

\* A prompt the person was told is held, and that was never handed to the mod at a
\* tool boundary, is accounted for: HeldNotLost but for what was steered.
THEOREM UnofferedKept == Spec => [](\A p \in Prompt \ offered : Accounted(p))
  <1>1. ASSUME Places, NEW p \in Prompt \ offered, told[p] = "held" PROVE Accounted(p)
    <2>1. PICK at \in [Prompt -> Place] : Placed(at)
      BY <1>1 DEF Places, PlaceInv
    <2>2. ListAt(p, at[p]) /\ ToldAt(p, at[p]) /\ ReadAt(p, at[p]) /\ at[p] \in Place
      BY <2>1 DEF Placed
    <2>3. ListType /\ LockType
      BY <1>1 DEF Places, TypeOK
    <2>4. ToSet(Pending) = ToSet(steering) \cup ToSet(held) \cup ToSet(waiting)
      BY <1>1, <2>1, <2>3, ListsTogether DEF Places, PlaceInv, Placed
    <2>5. at[p] \notin {"new", "gone"}
      BY <1>1, <2>2 DEF ToldAt
    <2>6. at[p] \in {"steering", "held", "waiting", "took", "out", "launched", "queue"} =>
             Kept(p)
      BY <2>2, <2>4 DEF ListAt, Taken, Kept
    <2>7. at[p] = "read" => reads[p] > 0
      BY <2>2 DEF ReadAt
    <2>8. at[p] = "cmd" => \E b \in submits : \E i \in DOMAIN b : b[i].text = p
      BY <1>1, <2>2 DEF ToldAt
    <2>9. at[p] = "dropped" => p \in Dropped
      BY <1>1, <2>1 DEF Placed, DropPlaces
    <2> QED
      BY <2>2, <2>5, <2>6, <2>7, <2>8, <2>9 DEF Place, Accounted, Dropped
  <1>2. Places => \A p \in Prompt \ offered : Accounted(p)
    BY <1>1 DEF Accounted
  <1> QED
    BY <1>2, PlacesHold, PTL

\* Once the person has a prompt back, by Up, by cancelling it or by a Stop, Claude
\* does not come to read it, unless the mod had been handed it to steer.
THEOREM ReturnedStays == Spec => ReturnedIsFinal
  <1>1. ASSUME Places, [Next]_vars, NEW p \in Prompt \ offered', told[p] = "returned"
        PROVE  reads'[p] = reads[p]
    <2>1. PICK at \in [Prompt -> Place] : Placed(at)
      BY <1>1 DEF Places, PlaceInv
    <2>2. at[p] = "gone" /\ ListAt(p, at[p])
      BY <1>1, <2>1 DEF Placed, ToldAt
    <2>3. CASE StoreRow
      <3>1. p \notin ToSet(context)
        BY <1>1, <2>3 DEF Places, PlaceInv, OfferedInv, StoreRow
      <3> QED
        BY <2>3, <3>1 DEF StoreRow, Reads
    <2>4. CASE StartTurn
      <3>1. p \notin ToSet(claudeQ)
        BY <2>2 DEF ListAt
      <3> QED
        BY <2>4, <3>1 DEF StartTurn, Reads
    <2>5. ASSUME NEW cmd \in inHand, RunPrompt(cmd) PROVE reads'[p] = reads[p]
      <3>1. cmd.text # p
        BY <2>1, <2>2, <2>5 DEF RunPrompt, Placed, CmdPlaces
      <3> QED
        BY <1>1, <2>5, <3>1 DEF RunPrompt, Places, TypeOK, GhostType
    <2>6. CASE Person
      BY <2>6 DEF Person, Hold, HoldDeclines, CancelHeld, TakeHeld, StopTakes, StopPlain,
                  StartPaneTurn
    <2>7. CASE Routes
      BY <2>7 DEF Routes, SendPrompt, PromptAccepted, PromptNotConfirmed, StopSends,
                  StopSucceeds, StopFails, SubmitBatch, SubmitReads, SubmitGivesUp
    <2>8. CASE Apply
      BY <2>8 DEF Apply, WriteTexts, WriteWait, ReleaseHeld, TimerFires, ApplyTurn, ApplyAck,
                  ApplyFailed, ApplyRow, ApplyEnds
    <2>9. CASE Poll \/ TakeForSteer \/ AttachContext \/ TakeMisses \/ DropPrompt \/ EndTurn
      BY <2>9 DEF Poll, TakeForSteer, AttachContext, TakeMisses, DropPrompt, EndTurn
    <2>10. ASSUME NEW cmd \in inHand, RefusePrompt(cmd) \/ RunAbort(cmd)
           PROVE  reads'[p] = reads[p]
      BY <2>10 DEF RefusePrompt, RunAbort
    <2>11. CASE UNCHANGED vars
      BY <2>11 DEF vars
    <2> QED
      BY <1>1, <2>3, <2>4, <2>5, <2>6, <2>7, <2>8, <2>9, <2>10, <2>11 DEF Next, Mod, Claude
  <1>2. Places /\ [Next]_vars =>
           [\A p \in Prompt \ offered' : told[p] = "returned" => reads'[p] = reads[p]]_vars
    BY <1>1
  <1> QED
    BY <1>2, PlacesHold, PTL DEF Spec, ReturnedIsFinal

-----------------------------------------------------------------------------
(* Order.                                                                  *)

\* Neither sent to wait nor handed to the mod.
Free(p) == p \notin asWait \cup offered

Sorted(s) ==
    \A i, j \in DOMAIN s : i < j /\ Free(s[i]) /\ Free(s[j]) => Before(s[i], s[j])

\* What a Stop under way took was held before what is held now.
OrderInv ==
    /\ Sorted(held) /\ Sorted(stop.took)
    /\ \A p \in ToSet(stop.took), q \in ToSet(held) : Free(p) /\ Free(q) => Before(p, q)
    /\ \A p \in ToSet(held) \cup ToSet(stop.took) : Free(p) => p \in ToSet(order)
    /\ ToSet(waiting) \subseteq asWait

\* What is free was free before, and kept its place in the order.
LEMMA SortedKeeps ==
    ASSUME UNCHANGED order, asWait \subseteq asWait', offered \subseteq offered'
    PROVE  /\ \A p : Free(p)' => Free(p)
           /\ \A p, q : Before(p, q)' = Before(p, q)
           /\ \A s : Sorted(s) => Sorted(s)'
  <1>1. \A p : Free(p)' => Free(p)
    BY DEF Free
  <1>2. \A p, q : Before(p, q)' = Before(p, q)
    BY DEF Before
  <1>3. \A s : Sorted(s) => Sorted(s)'
    BY <1>1, <1>2 DEF Sorted
  <1> QED
    BY <1>1, <1>2, <1>3

\* A list is in order when the sequence it becomes is.
LEMMA SortedLists ==
    /\ \A s : held' = s /\ Sorted(s)' => Sorted(held)'
    /\ \A s : stop'.took = s /\ Sorted(s)' => Sorted(stop.took)'
  BY DEF Sorted

LEMMA SortedEmpty == Sorted(<<>>) /\ ToSet(<<>>) = {}
  BY SetOfFew DEF Sorted

\* Without one element the ones behind it move up.
LEMMA RemovedAt ==
    ASSUME NEW s \in Seq(Prompt), NEW i \in DOMAIN s, NEW k \in DOMAIN RemoveAt(s, i)
    PROVE  /\ k < i => k \in DOMAIN s /\ RemoveAt(s, i)[k] = s[k]
           /\ k >= i => k + 1 \in DOMAIN s /\ RemoveAt(s, i)[k] = s[k + 1]
           /\ k \in Nat /\ i \in Nat
  <1> DEFINE r == RemoveAt(s, i)
  <1> DEFINE a == SubSeq(s, 1, i - 1)
             b == SubSeq(s, i + 1, Len(s))
  <1>1. /\ a \in Seq(Prompt) /\ Len(a) = i - 1 /\ \A l \in 1..(i - 1) : a[l] = s[l]
        /\ b \in Seq(Prompt) /\ Len(b) = Len(s) - i
        /\ \A l \in 1..(Len(s) - i) : b[l] = s[i + l]
        /\ i \in 1..Len(s) /\ Len(s) \in Nat
    BY SMTT(20)
  <1>2. k \in DOMAIN (a \o b) /\ r[k] = (a \o b)[k]
    BY DEF RemoveAt
  <1> HIDE DEF a, b, r
  <1>3. k \in 1..(Len(s) - 1)
    BY <1>1, <1>2
  <1>4. CASE k < i
    <2>1. (a \o b)[k] = a[k]
      BY <1>1, <1>3, <1>4
    <2> QED
      BY <1>1, <1>2, <1>3, <1>4, <2>1 DEF r
  <1>5. CASE k >= i
    <2>1. k - (i - 1) \in 1..(Len(s) - i) /\ i + (k - (i - 1)) = k + 1
      BY SMTT(20), <1>1, <1>3, <1>5
    <2>2. (a \o b)[k] = b[k - (i - 1)]
      <3>1. Len(a) + Len(b) = Len(s) - 1 /\ k > Len(a) /\ k \in 1..(Len(a) + Len(b))
        BY SMTT(20), <1>1, <1>3, <1>5
      <3>2. a \in Seq(Prompt) /\ b \in Seq(Prompt) /\ Len(a) = i - 1
        BY <1>1
      <3> QED
        BY SMTT(20), <3>1, <3>2
    <2>3. b[k - (i - 1)] = s[i + (k - (i - 1))]
      BY <1>1, <2>1
    <2>4. r[k] = s[k + 1] /\ k + 1 \in DOMAIN s
      <3>1. k + 1 \in 1..Len(s)
        BY <1>1, <1>3
      <3> QED
        BY <1>2, <2>1, <2>2, <2>3, <3>1
    <2> QED
      BY <1>1, <1>3, <1>5, <2>4 DEF r
  <1> QED
    BY <1>1, <1>3, <1>4, <1>5 DEF r

LEMMA RemoveWithin ==
    ASSUME NEW s \in Seq(Prompt), NEW i \in DOMAIN s
    PROVE  ToSet(RemoveAt(s, i)) \subseteq ToSet(s)
  <1> DEFINE r == RemoveAt(s, i)
  <1>1. ASSUME NEW k \in DOMAIN r
        PROVE  /\ k < i => k \in DOMAIN s /\ r[k] = s[k]
               /\ k >= i => k + 1 \in DOMAIN s /\ r[k] = s[k + 1]
               /\ k \in Nat /\ i \in Nat
    BY RemovedAt
  <1> HIDE DEF r
  <1>2. ToSet(r) \subseteq ToSet(s)
    BY <1>1 DEF ToSet
  <1> QED
    BY <1>2 DEF r

\* Without one element the others stay in order.
LEMMA SortedRemove ==
    ASSUME NEW s \in Seq(Prompt), NEW i \in DOMAIN s, Sorted(s)
    PROVE  Sorted(RemoveAt(s, i)) /\ ToSet(RemoveAt(s, i)) \subseteq ToSet(s)
  <1> DEFINE r == RemoveAt(s, i)
  <1>1. ASSUME NEW k \in DOMAIN r
        PROVE  /\ k < i => k \in DOMAIN s /\ r[k] = s[k]
               /\ k >= i => k + 1 \in DOMAIN s /\ r[k] = s[k + 1]
               /\ k \in Nat /\ i \in Nat
    BY RemovedAt
  <1> HIDE DEF r
  <1>3. Sorted(r)
    <2> SUFFICES ASSUME NEW k \in DOMAIN r, NEW l \in DOMAIN r, k < l,
                        Free(r[k]), Free(r[l])
                 PROVE  Before(r[k], r[l])
      BY DEF Sorted
    <2> DEFINE x == IF k < i THEN k ELSE k + 1
               y == IF l < i THEN l ELSE l + 1
    <2>1. x \in DOMAIN s /\ y \in DOMAIN s /\ r[k] = s[x] /\ r[l] = s[y]
      BY <1>1
    <2>2. x < y
      BY <1>1
    <2> HIDE DEF x, y
    <2> QED
      BY <2>1, <2>2 DEF Sorted
  <1>4. ToSet(r) \subseteq ToSet(s)
    BY RemoveWithin DEF r
  <1> QED
    BY <1>3, <1>4 DEF r

\* One list ahead of another, when all it has came before.
LEMMA SortedConcat ==
    ASSUME NEW s \in Seq(Prompt), NEW t \in Seq(Prompt), Sorted(s), Sorted(t),
           \A p \in ToSet(s), q \in ToSet(t) : Free(p) /\ Free(q) => Before(p, q)
    PROVE  Sorted(s \o t)
  <1> DEFINE u == s \o t
  <1>1. ASSUME NEW k \in DOMAIN u
        PROVE  \/ k \in DOMAIN s /\ u[k] = s[k] /\ u[k] \in ToSet(s)
               \/ /\ k \notin DOMAIN s /\ k - Len(s) \in DOMAIN t
                  /\ u[k] = t[k - Len(s)] /\ u[k] \in ToSet(t)
    BY DEF ToSet
  <1>2. DOMAIN u = 1..Len(u) /\ Len(u) \in Nat /\ Len(s) \in Nat /\ DOMAIN s = 1..Len(s)
    <2>1. u \in Seq(Prompt)
      OBVIOUS
    <2> HIDE DEF u
    <2> QED
      BY <2>1
  <1> HIDE DEF u
  <1>3. Sorted(u)
    <2> SUFFICES ASSUME NEW i \in DOMAIN u, NEW j \in DOMAIN u, i < j,
                        Free(u[i]), Free(u[j])
                 PROVE  Before(u[i], u[j])
      BY DEF Sorted
    <2>1. CASE i \in DOMAIN s /\ j \in DOMAIN s
      BY <1>1, <2>1 DEF Sorted
    <2>2. CASE i \in DOMAIN s /\ j \notin DOMAIN s
      BY <1>1, <2>2
    <2>3. CASE i \notin DOMAIN s
      <3>1. j \notin DOMAIN s /\ i - Len(s) < j - Len(s)
        BY <1>2, <2>3
      <3> QED
        BY <1>1, <2>3, <3>1 DEF Sorted
    <2> QED
      BY <2>1, <2>2, <2>3
  <1> QED
    BY <1>3 DEF u

\* Of all three lists, only what is held is free.
LEMMA PendingSorted ==
    ASSUME ListType, OrderInv, OfferedInv
    PROVE  /\ Sorted(Pending)
           /\ \A p \in ToSet(Pending) : Free(p) => p \in ToSet(held)
  <1>1. \A p \in ToSet(steering) \cup ToSet(waiting) : ~Free(p)
    BY DEF OrderInv, OfferedInv, Free
  <1>2. Sorted(steering) /\ Sorted(waiting)
    BY <1>1 DEF Sorted, ToSet
  <1>3. Sorted(steering \o held)
    BY <1>1, <1>2, SortedConcat DEF ListType, OrderInv
  <1> DEFINE s == steering \o held
  <1>4. s \in Seq(Prompt) /\ ToSet(s) = ToSet(steering) \cup ToSet(held) /\ Sorted(s)
    BY <1>3, SetConcat DEF ListType
  <1> HIDE DEF s
  <1>5. Sorted(s \o waiting) /\ ToSet(s \o waiting) = ToSet(s) \cup ToSet(waiting)
    BY <1>1, <1>2, <1>4, SortedConcat, SetConcat DEF ListType
  <1> QED
    BY <1>1, <1>4, <1>5 DEF Pending, s

LEMMA OrderInit == ASSUME Init PROVE OrderInv
  BY SortedEmpty DEF Init, NoStop, OrderInv

LEMMA OrderHold ==
    ASSUME TypeOK, Places, OrderInv, NEW p \in Prompt, NEW w \in BOOLEAN, Hold(p, w)
    PROVE  OrderInv'
  <1> ListType /\ GhostType /\ StopType
    BY DEF TypeOK
  <1>1. /\ order' = Append(order, p) /\ offered' = offered /\ stop' = stop
        /\ asWait' = IF w THEN asWait \cup {p} ELSE asWait
    BY DEF Hold
  <1>2. ToSet(order') = ToSet(order) \cup {p}
    BY <1>1, SetAppend DEF GhostType
  <1>3. \A q : Free(q)' => Free(q)
    BY <1>1 DEF Free
  <1>4. /\ \A q, r : Before(q, r) => Before(q, r)'
        /\ \A q \in ToSet(order) : Before(q, p)'
    <2>1. /\ DOMAIN order' = 1..(Len(order) + 1) /\ DOMAIN order = 1..Len(order)
          /\ Len(order) \in Nat /\ order'[Len(order) + 1] = p
          /\ \A i \in DOMAIN order : order'[i] = order[i]
      BY <1>1 DEF GhostType
    <2> QED
      BY <2>1 DEF Before, ToSet
  <1>5. \A s : Sorted(s) => Sorted(s)'
    BY <1>3, <1>4 DEF Sorted
  <1>6. CASE w
    <2>1. /\ held' = held /\ waiting' = Append(waiting, p)
          /\ asWait' = asWait \cup {p}
      BY <1>1, <1>6 DEF Hold
    <2>2. ToSet(waiting') \subseteq asWait'
      BY <2>1, SetAppend DEF ListType, OrderInv
    <2>3. Sorted(held)' /\ Sorted(stop.took)'
      BY <1>1, <1>5, <2>1, SortedLists DEF OrderInv
    <2> QED
      BY <1>1, <1>2, <1>3, <1>4, <2>1, <2>2, <2>3 DEF OrderInv
  <1>7. CASE ~w
    <2>1. held' = Append(held, p) /\ waiting' = waiting /\ asWait' = asWait
      BY <1>1, <1>7 DEF Hold
    <2>2. ToSet(held') = ToSet(held) \cup {p}
      BY <2>1, SetAppend DEF ListType
    <2>3. Sorted(held)'
      <3>1. /\ DOMAIN held' = 1..(Len(held) + 1) /\ DOMAIN held = 1..Len(held)
            /\ Len(held) \in Nat /\ held'[Len(held) + 1] = p
            /\ \A i \in DOMAIN held :
                  held'[i] = held[i] /\ (Free(held[i]) => held[i] \in ToSet(order))
        <4>1. \A i \in DOMAIN held : Free(held[i]) => held[i] \in ToSet(order)
          BY DEF OrderInv, ToSet
        <4>2. /\ DOMAIN held' = 1..(Len(held) + 1) /\ DOMAIN held = 1..Len(held)
              /\ Len(held) \in Nat /\ held'[Len(held) + 1] = p
              /\ \A i \in DOMAIN held : held'[i] = held[i]
          BY <2>1 DEF ListType
        <4> QED
          BY <4>1, <4>2
      <3>2. ASSUME NEW i \in DOMAIN held', NEW j \in DOMAIN held', i < j,
                   Free(held[i])', Free(held[j])'
            PROVE  Before(held[i], held[j])'
        <4>1. i \in DOMAIN held /\ (j \in DOMAIN held \/ held'[j] = p)
          BY <3>1, <3>2
        <4>2. held'[i] = held[i] /\ Free(held[i])
          BY <1>3, <3>1, <3>2, <4>1 DEF Free
        <4>3. CASE j \in DOMAIN held
          <5>1. held'[j] = held[j] /\ Free(held[j])
            BY <1>3, <3>1, <3>2, <4>3 DEF Free
          <5>2. Before(held[i], held[j])
            BY <3>2, <4>1, <4>2, <4>3, <5>1 DEF OrderInv, Sorted
          <5> QED
            BY <1>4, <4>2, <5>1, <5>2 DEF Before
        <4>4. CASE held'[j] = p
          BY <1>4, <3>1, <4>1, <4>2, <4>4 DEF Before
        <4> QED
          BY <4>1, <4>3, <4>4
      <3> QED
        BY <3>2 DEF Sorted
    <2>4. Sorted(stop.took)'
      BY <1>1, <1>5, SortedLists DEF OrderInv
    <2> QED
      BY <1>1, <1>2, <1>3, <1>4, <2>1, <2>2, <2>3, <2>4 DEF OrderInv
  <1> QED
    BY <1>6, <1>7

\* The lists a step leaves are in order when they were in order before it.
LEMMA OrderLists ==
    ASSUME UNCHANGED order, asWait \subseteq asWait', offered \subseteq offered'
    PROVE  \A h, t :
               /\ held' = h /\ stop'.took = t
               /\ Sorted(h) /\ Sorted(t)
               /\ \A p \in ToSet(t), q \in ToSet(h) : Free(p) /\ Free(q) => Before(p, q)
               /\ \A p \in ToSet(h) \cup ToSet(t) : Free(p) => p \in ToSet(order)
               /\ ToSet(waiting') \subseteq asWait
               => OrderInv'
  <1> SUFFICES ASSUME NEW h, NEW t, held' = h, stop'.took = t,
                      Sorted(h), Sorted(t),
                      \A p \in ToSet(t), q \in ToSet(h) : Free(p) /\ Free(q) => Before(p, q),
                      \A p \in ToSet(h) \cup ToSet(t) : Free(p) => p \in ToSet(order),
                      ToSet(waiting') \subseteq asWait
               PROVE  OrderInv'
    OBVIOUS
  <1>1. Sorted(held)' /\ Sorted(stop.took)'
    BY SortedKeeps, SortedLists
  <1>2. \A p \in ToSet(stop'.took), q \in ToSet(held') : Free(p)' /\ Free(q)' => Before(p, q)'
    BY SortedKeeps
  <1>3. \A p \in ToSet(held') \cup ToSet(stop'.took) : Free(p)' => p \in ToSet(order')
    BY SortedKeeps
  <1> QED
    BY <1>1, <1>2, <1>3 DEF OrderInv

LEMMA OrderCancelHeld ==
    ASSUME TypeOK, OrderInv, NEW p \in Prompt, CancelHeld(p) PROVE OrderInv'
  <1>1. UNCHANGED <<order, asWait, offered, stop>> /\ ListType
    BY DEF CancelHeld, TypeOK, ghostVars
  <1>2. CASE \E i \in DOMAIN held : held' = RemoveAt(held, i) /\ UNCHANGED waiting
    <2>1. PICK i \in DOMAIN held : held' = RemoveAt(held, i) /\ UNCHANGED waiting
      BY <1>2
    <2>2. Sorted(RemoveAt(held, i)) /\ ToSet(RemoveAt(held, i)) \subseteq ToSet(held)
      BY <1>1, <2>1, SortedRemove DEF ListType, OrderInv
    <2> QED
      BY <1>1, <2>1, <2>2, OrderLists DEF OrderInv
  <1>3. CASE \E i \in DOMAIN waiting : waiting' = RemoveAt(waiting, i) /\ UNCHANGED held
    <2>1. PICK i \in DOMAIN waiting : waiting' = RemoveAt(waiting, i) /\ UNCHANGED held
      BY <1>3
    <2>2. ToSet(RemoveAt(waiting, i)) \subseteq ToSet(waiting)
      BY <1>1, <2>1, RemoveWithin DEF ListType
    <2> QED
      BY <1>1, <2>1, <2>2, OrderLists DEF OrderInv
  <1> QED
    BY <1>2, <1>3 DEF CancelHeld

\* Steps that leave no list in hand but what the Stop took.
LEMMA OrderEmptied ==
    ASSUME OrderInv, held' = <<>>, stop'.took = stop.took, UNCHANGED <<order, asWait>>,
           offered \subseteq offered', waiting' \in {<<>>, waiting}
    PROVE  OrderInv'
  <1>1. ToSet(waiting') \subseteq asWait
    BY SortedEmpty DEF OrderInv
  <1> QED
    BY <1>1, SortedEmpty, OrderLists DEF OrderInv

\* Steps that leave held and what the Stop took as they are.
LEMMA OrderSame ==
    ASSUME OrderInv, UNCHANGED <<held, waiting, order, asWait, offered>>,
           stop'.took = stop.took
    PROVE  OrderInv'
  BY OrderLists DEF OrderInv

LEMMA OrderStopTakes ==
    ASSUME TypeOK, Places, OrderInv, StopTakes PROVE OrderInv'
  <1>1. UNCHANGED <<order, asWait, offered>> /\ ListType /\ OfferedInv /\ stop.took = <<>>
    BY DEF StopTakes, ghostVars, TypeOK, Places, PlaceInv, LockInv
  <1>2. CASE Pending = <<>>
    <2>1. stop'.took = <<>> /\ UNCHANGED listVars
      BY <1>2 DEF StopTakes
    <2> QED
      BY <1>1, <2>1, OrderSame DEF listVars
  <1>3. CASE Pending # <<>>
    <2>1. stop'.took = Pending /\ held' = <<>> /\ waiting' = <<>>
      BY <1>3 DEF StopTakes
    <2>2. Sorted(Pending) /\ \A p \in ToSet(Pending) : Free(p) => p \in ToSet(order)
      BY <1>1, PendingSorted DEF OrderInv
    <2> QED
      BY <1>1, <2>1, <2>2, SortedEmpty, OrderLists DEF OrderInv
  <1> QED
    BY <1>2, <1>3

\* The Stop's steps that leave the lists as they are.
LEMMA OrderStop ==
    ASSUME TypeOK, Places, OrderInv, StopPlain \/ StopSends \/ StopSucceeds
    PROVE  OrderInv'
  <1>1. UNCHANGED <<held, waiting, order, asWait, offered>> /\ StopType
    BY DEF StopPlain, StopSends, StopSucceeds, listVars, ghostVars, TypeOK
  <1>2. CASE StopPlain
    <2>1. stop.took = <<>> /\ stop'.took = <<>>
      BY <1>2 DEF StopPlain, Places, PlaceInv, LockInv
    <2> QED
      BY <1>1, <2>1, OrderSame
  <1>3. CASE StopSends
    <2>1. stop'.took = stop.took
      BY <1>1, <1>3 DEF StopSends, StopType
    <2> QED
      BY <1>1, <2>1, OrderSame
  <1>4. CASE StopSucceeds
    <2>1. stop'.took = <<>>
      BY <1>4 DEF StopSucceeds, NoStop
    <2> QED
      BY <1>1, <2>1, SortedEmpty, OrderLists DEF OrderInv
  <1> QED
    BY <1>2, <1>3, <1>4

LEMMA OrderStopFails ==
    ASSUME TypeOK, OrderInv, StopFails PROVE OrderInv'
  <1>1. UNCHANGED <<order, asWait, offered, waiting>> /\ ListType /\ StopType /\ stop'.took = <<>>
    BY DEF StopFails, NoStop, listVars, ghostVars, TypeOK
  <1>2. CASE stop.took = <<>>
    <2>1. held' = held
      BY <1>2 DEF StopFails, listVars
    <2> QED
      BY <1>1, <1>2, <2>1, OrderSame
  <1>3. CASE stop.took # <<>>
    <2> DEFINE t == stop.took
    <2>1. held' = t \o held /\ t \in Seq(Prompt)
      BY <1>1, <1>3 DEF StopFails, StopType
    <2>2. Sorted(t \o held)
      BY <1>1, <2>1, SortedConcat DEF ListType, OrderInv
    <2>3. ToSet(t \o held) = ToSet(t) \cup ToSet(held)
      BY <1>1, <2>1, SetConcat DEF ListType
    <2> QED
      BY <1>1, <2>1, <2>2, <2>3, SortedEmpty, OrderLists DEF OrderInv
  <1> QED
    BY <1>2, <1>3

\* Up, the release and the tool boundary empty what is held.
LEMMA OrderTaken ==
    ASSUME TypeOK, OrderInv, TakeHeld \/ ReleaseHeld \/ TakeForSteer
    PROVE  OrderInv'
  <1>1. stop' = stop /\ UNCHANGED <<order, asWait>> /\ offered \subseteq offered'
    BY DEF TakeHeld, ReleaseHeld, TakeForSteer, ghostVars
  <1>2. CASE ReleaseHeld
    <2>1. (UNCHANGED <<held, waiting>>) \/ (held' = <<>> /\ waiting' = <<>>)
      BY <1>2 DEF ReleaseHeld, listVars
    <2>2. offered' = offered
      BY <1>2 DEF ReleaseHeld, ghostVars
    <2> QED
      BY <1>1, <2>1, <2>2, OrderSame, OrderEmptied
  <1>3. CASE TakeHeld \/ TakeForSteer
    <2>1. held' = <<>> /\ waiting' \in {<<>>, waiting}
      BY <1>3 DEF TakeHeld, TakeForSteer
    <2> QED
      BY <1>1, <2>1, OrderEmptied
  <1> QED
    BY <1>2, <1>3

\* Every other step.
LEMMA OrderOthers ==
    ASSUME OrderInv, UNCHANGED <<held, waiting, order, asWait, offered>>,
           stop'.took = stop.took \/ stop' = stop
    PROVE  OrderInv'
  BY OrderSame

LEMMA OrderNext ==
    ASSUME TypeOK, Places, OrderInv, [Next]_vars PROVE OrderInv'
  <1>1. CASE Person
    BY <1>1, OrderHold, OrderCancelHeld, OrderTaken, OrderStopTakes, OrderStop, OrderOthers
       DEF Person, HoldDeclines, StartPaneTurn, listVars, ghostVars
  <1>2. CASE Routes
    BY <1>2, OrderStop, OrderStopFails, OrderOthers
       DEF Routes, SendPrompt, PromptAccepted, PromptNotConfirmed, SubmitBatch, SubmitReads,
           SubmitGivesUp, listVars, ghostVars
  <1>3. CASE Apply
    <2>1. CASE WriteWait
      <3>1. stop'.took = stop.took
        BY <2>1 DEF WriteWait, TypeOK, StopType
      <3> QED
        BY <2>1, <3>1, OrderSame DEF WriteWait, listVars
    <2> QED
      BY <1>3, <2>1, OrderTaken, OrderOthers
         DEF Apply, WriteTexts, TimerFires, ApplyTurn, ApplyAck, ApplyFailed, ApplyRow,
             ApplyEnds, listVars, ghostVars
  <1>4. CASE Mod
    BY <1>4, OrderTaken, OrderOthers
       DEF Mod, Poll, AttachContext, TakeMisses, RunPrompt, RefusePrompt, RunAbort,
           listVars, ghostVars
  <1>5. CASE Claude
    BY <1>5, OrderOthers
       DEF Claude, StoreRow, StartTurn, DropPrompt, EndTurn, listVars, ghostVars
  <1>6. CASE UNCHANGED vars
    BY <1>6, OrderOthers DEF vars, listVars, ghostVars
  <1> QED
    BY <1>1, <1>2, <1>3, <1>4, <1>5, <1>6 DEF Next

\* What stands in held stands in the order it was held, whatever Stops failed
\* meanwhile (putBack puts what the Stop took ahead of anything held since).
THEOREM InOrder == Spec => []HeldInOrder
  <1>1. Init => OrderInv
    BY OrderInit
  <1>2. Places /\ OrderInv /\ [Next]_vars => OrderInv'
    BY OrderNext DEF Places
  <1>3. OrderInv => HeldInOrder
    BY DEF OrderInv, Sorted, Free, HeldInOrder
  <1> QED
    BY <1>1, <1>2, <1>3, PlacesHold, PTL DEF Spec

=============================================================================
