--------------------------- MODULE HeldPromptsProofs ---------------------------
(* Theorems about HeldPrompts, for every set of prompts and every bound:   *)
(* the types, that what is held is released once Claude is known to be     *)
(* idle, and that the two files follow the lists.                          *)
EXTENDS HeldPrompts, TLAPS

-----------------------------------------------------------------------------
(* Sequences.                                                              *)

\* Dropping the first k elements leaves a sequence over the same set.
LEMMA DropType ==
    ASSUME NEW S, NEW s \in Seq(S), NEW k \in Nat, k <= Len(s)
    PROVE  SubSeq(s, k + 1, Len(s)) \in Seq(S)
  OBVIOUS

\* Dropping nothing changes nothing.
LEMMA DropNone ==
    ASSUME NEW S, NEW s \in Seq(S)
    PROVE  SubSeq(s, 1, Len(s)) = s
  OBVIOUS

\* A sequence without its i-th element is one over the same set.
LEMMA RemoveAtType ==
    ASSUME NEW S, NEW s \in Seq(S), NEW i \in DOMAIN s
    PROVE  RemoveAt(s, i) \in Seq(S)
  <1>1. i \in 1..Len(s) /\ i \in Nat
    OBVIOUS
  <1>2. SubSeq(s, 1, i - 1) \in Seq(S) /\ SubSeq(s, i + 1, Len(s)) \in Seq(S)
    BY <1>1
  <1> QED
    BY <1>2 DEF RemoveAt

\* Moving what is in the middle to the front's end changes nothing.
LEMMA Regroup ==
    ASSUME NEW S, NEW r \in Seq(S), NEW s \in Seq(S), NEW t \in Seq(S)
    PROVE  (r \o s) \o <<>> \o t = r \o s \o t
  OBVIOUS

\* A concatenation is empty when its parts are.
LEMMA EmptyParts ==
    ASSUME NEW S, NEW r \in Seq(S), NEW s \in Seq(S), NEW t \in Seq(S)
    PROVE  r \o s \o t = <<>> <=> r = <<>> /\ s = <<>> /\ t = <<>>
  OBVIOUS

\* So does keeping them.
LEMMA TakenType ==
    ASSUME NEW S, NEW s \in Seq(S), NEW k \in Nat, k <= Len(s)
    PROVE  ToSet(SubSeq(s, 1, k)) \subseteq S
  BY DEF ToSet

-----------------------------------------------------------------------------
(* Types.                                                                  *)

USE DEF connVars, listVars, lockVars, cmdVars, fileVars, modVars, claudeVars,
        ghostVars, boundVars

\* What the oldest event of the mod's queue carries.
LEMMA HeadEvent ==
    ASSUME ModType, events # <<>>
    PROVE  /\ Tail(events) \in Seq(Event)
           /\ Head(events).type = "level" => Head(events).running \in BOOLEAN
           /\ Head(events).type = "row" => Head(events).texts \in Seq(Prompt)
           /\ Head(events).type = "ack" =>
                  Head(events).cmd \in Command /\ Head(events).ok \in BOOLEAN
           /\ Head(events).type = "command_failed" => Head(events).text \in Prompt
  <1>1. Tail(events) \in Seq(Event) /\ Head(events) \in Event
    BY DEF ModType
  <1> QED
    BY <1>1 DEF Event

\* What a turn start waited on changes.
LEMMA StartingType ==
    ASSUME StartType, StartingTurn
    PROVE  starting' \in Nat /\ starts' \in Nat /\ timers' \subseteq Nat
  <1>1. CASE turnOpen
    BY <1>1 DEF StartType, StartingTurn
  <1>2. CASE ~turnOpen
    <2>1. /\ starts' = starts + 1 /\ starting' = starts + 1
          /\ timers' = timers \cup {starts + 1}
      BY <1>2 DEF StartingTurn
    <2> QED
      BY <2>1 DEF StartType
  <1> QED
    BY <1>1, <1>2

LEMMA TypeInit ==
    ASSUME Init PROVE TypeOK
  <1>1. FlagType /\ ModType
    <2>1. CASE known = TRUE /\ turnOpen = running /\ events = <<>>
      BY <2>1 DEF Init, FlagType, ModType
    <2>2. CASE /\ known = FALSE /\ turnOpen = FALSE
               /\ events = <<[type |-> "level", running |-> running]>>
      <3>1. [type |-> "level", running |-> running] \in Event
        BY DEF Init, Event
      <3>2. FlagType
        BY <2>2 DEF Init, FlagType
      <3> QED
        BY <2>2, <3>1, <3>2 DEF Init, ModType
    <2> QED
      BY <2>1, <2>2 DEF Init
  <1>2. StartType /\ BoundType
    BY DEF Init, StartType, BoundType
  <1>3. ListType /\ FileType /\ ClaudeType
    BY DEF Init, ListType, FileType, ClaudeType
  <1>4. CmdType
    BY DEF Init, CmdType
  <1>5. LockType /\ StopType
    BY DEF Init, LockType, NoKeep, StopType, NoStop, StopAt
  <1>6. GhostType
    <2>1. told \in [Prompt -> Told]
      BY DEF Init, Told
    <2>2. reads \in [Prompt -> Nat]
      BY DEF Init
    <2> QED
      BY <2>1, <2>2 DEF Init, GhostType
  <1> QED
    BY <1>1, <1>2, <1>3, <1>4, <1>5, <1>6 DEF TypeOK

LEMMA TypeHold ==
    ASSUME TypeOK, NEW p \in Prompt, NEW w \in BOOLEAN, Hold(p, w)
    PROVE  TypeOK'
  <1>1. ListType'
    <2>1. Append(waiting, p) \in Seq(Prompt) /\ Append(held, p) \in Seq(Prompt)
      BY DEF TypeOK, ListType
    <2>2. CASE w
      BY <2>1, <2>2 DEF Hold, TypeOK, ListType
    <2>3. CASE ~w
      BY <2>1, <2>3 DEF Hold, TypeOK, ListType
    <2> QED
      BY <2>2, <2>3
  <1>2. LockType'
    <2>1. Keep(steering \o held' \o waiting', waiting', "held", <<p>>)
      BY DEF Hold
    <2>2. steering \o held' \o waiting' \in Seq(Prompt) /\ waiting' \in Seq(Prompt)
      BY <1>1 DEF TypeOK, ListType
    <2> QED
      BY <2>1, <2>2 DEF Keep, LockType
  <1>3. GhostType'
    BY DEF Hold, TypeOK, GhostType, Tell, Told
  <1>4. FlagType' /\ StartType' /\ CmdType' /\ StopType' /\ FileType' /\
         ModType' /\ ClaudeType' /\ BoundType'
    BY DEF Hold, TypeOK, FlagType, StartType, CmdType, StopType, FileType,
           ModType, ClaudeType, BoundType
  <1> QED
    BY <1>1, <1>2, <1>3, <1>4 DEF TypeOK

LEMMA TypeHoldDeclines ==
    ASSUME TypeOK, NEW p \in Prompt, HoldDeclines(p)
    PROVE  TypeOK'
  <1>1. GhostType'
    BY DEF HoldDeclines, TypeOK, GhostType, Tell, Told
  <1>2. FlagType' /\ StartType' /\ ListType' /\ LockType' /\ CmdType' /\
         StopType' /\ FileType' /\ ModType' /\ ClaudeType' /\ BoundType'
    BY DEF HoldDeclines, TypeOK, FlagType, StartType, ListType, LockType,
           CmdType, StopType, FileType, ModType, ClaudeType, BoundType
  <1> QED
    BY <1>1, <1>2 DEF TypeOK

LEMMA TypeCancelHeld ==
    ASSUME TypeOK, NEW p \in Prompt, CancelHeld(p)
    PROVE  TypeOK'
  <1>1. ListType'
    BY RemoveAtType DEF CancelHeld, TypeOK, ListType
  <1>2. LockType'
    <2>1. Keep(steering \o held' \o waiting', waiting', "returned", <<p>>)
      BY DEF CancelHeld
    <2>2. steering \o held' \o waiting' \in Seq(Prompt) /\ waiting' \in Seq(Prompt)
      BY <1>1 DEF TypeOK, ListType
    <2> QED
      BY <2>1, <2>2 DEF Keep, LockType
  <1>3. FlagType' /\ StartType' /\ CmdType' /\ StopType' /\ FileType' /\
         ModType' /\ ClaudeType' /\ GhostType' /\ BoundType'
    BY DEF CancelHeld, TypeOK, FlagType, StartType, CmdType, StopType,
           FileType, ModType, ClaudeType, GhostType, BoundType
  <1> QED
    BY <1>1, <1>2, <1>3 DEF TypeOK

LEMMA TypeTakeHeld ==
    ASSUME TypeOK, TakeHeld
    PROVE  TypeOK'
  <1>1. ListType'
    BY DEF TakeHeld, TypeOK, ListType
  <1>2. LockType'
    <2>1. Keep(steering, <<>>, "returned", held \o waiting)
      BY DEF TakeHeld
    <2>2. held \o waiting \in Seq(Prompt) /\ steering \in Seq(Prompt)
      BY DEF TypeOK, ListType
    <2> QED
      BY <2>1, <2>2 DEF Keep, LockType
  <1>3. FlagType' /\ StartType' /\ CmdType' /\ StopType' /\ FileType' /\
         ModType' /\ ClaudeType' /\ GhostType' /\ BoundType'
    BY DEF TakeHeld, TypeOK, FlagType, StartType, CmdType, StopType, FileType,
           ModType, ClaudeType, GhostType, BoundType
  <1> QED
    BY <1>1, <1>2, <1>3 DEF TypeOK

LEMMA TypeStopTakes ==
    ASSUME TypeOK, StopTakes
    PROVE  TypeOK'
  <1>1. ASSUME Pending = <<>>
       PROVE  /\ UNCHANGED <<listVars, lockVars>>
              /\ stop' = [at |-> "send", took |-> <<>>]
    BY <1>1 DEF StopTakes
  <1>2. ASSUME Pending # <<>>
       PROVE  /\ steering' = <<>> /\ held' = <<>> /\ waiting' = <<>>
              /\ Keep(<<>>, <<>>, "stop", <<>>)
              /\ stop' = [at |-> "taking", took |-> Pending]
    BY <1>2 DEF StopTakes
  <1>3. ListType'
    <2>1. CASE Pending = <<>>
      BY <1>1, <2>1 DEF TypeOK, ListType
    <2>2. CASE Pending # <<>>
      BY <1>2, <2>2 DEF ListType
    <2> QED
      BY <2>1, <2>2
  <1>4. LockType'
    <2>1. CASE Pending = <<>>
      BY <1>1, <2>1 DEF TypeOK, LockType
    <2>2. CASE Pending # <<>>
      <3>1. Keep(<<>>, <<>>, "stop", <<>>)
        BY <1>2, <2>2
      <3> QED
        BY <3>1 DEF Keep, LockType
    <2> QED
      BY <2>1, <2>2
  <1>5. StopType'
    <2>1. Pending \in Seq(Prompt)
      BY DEF TypeOK, ListType, Pending
    <2> QED
      BY <1>1, <1>2, <2>1 DEF StopType, StopAt
  <1>6. BoundType'
    BY DEF StopTakes, TypeOK, BoundType
  <1>7. FlagType' /\ StartType' /\ CmdType' /\ FileType' /\ ModType' /\
         ClaudeType' /\ GhostType'
    BY DEF StopTakes, TypeOK, FlagType, StartType, CmdType, FileType, ModType,
           ClaudeType, GhostType
  <1> QED
    BY <1>3, <1>4, <1>5, <1>6, <1>7 DEF TypeOK

LEMMA TypeStopPlain ==
    ASSUME TypeOK, StopPlain
    PROVE  TypeOK'
  <1>1. StopType'
    BY DEF StopPlain, TypeOK, StopType, StopAt
  <1>2. BoundType'
    BY DEF StopPlain, TypeOK, BoundType
  <1>3. FlagType' /\ StartType' /\ ListType' /\ LockType' /\ CmdType' /\
         FileType' /\ ModType' /\ ClaudeType' /\ GhostType'
    BY DEF StopPlain, TypeOK, FlagType, StartType, ListType, LockType,
           CmdType, FileType, ModType, ClaudeType, GhostType
  <1> QED
    BY <1>1, <1>2, <1>3 DEF TypeOK

LEMMA TypeStartPaneTurn ==
    ASSUME TypeOK, StartPaneTurn
    PROVE  TypeOK'
  <1>1. FlagType'
    BY DEF StartPaneTurn, TypeOK, FlagType
  <1>2. ModType'
    BY DEF StartPaneTurn, TypeOK, ModType, Event
  <1>3. BoundType'
    BY DEF StartPaneTurn, TypeOK, BoundType
  <1>4. StartType' /\ ListType' /\ LockType' /\ CmdType' /\ StopType' /\
         FileType' /\ ClaudeType' /\ GhostType'
    BY DEF StartPaneTurn, TypeOK, StartType, ListType, LockType, CmdType,
           StopType, FileType, ClaudeType, GhostType
  <1> QED
    BY <1>1, <1>2, <1>3, <1>4 DEF TypeOK

LEMMA TypeSendPrompt ==
    ASSUME TypeOK, NEW p \in Prompt, SendPrompt(p)
    PROVE  TypeOK'
  <1>1. CmdType'
    <2>1. PromptCmd(nextID + 1, p) \in Command
      BY DEF TypeOK, CmdType, PromptCmd, Command
    <2> QED
      BY <2>1 DEF SendPrompt, TypeOK, CmdType
  <1>2. GhostType'
    BY DEF SendPrompt, TypeOK, GhostType, Tell, Told
  <1>3. FlagType' /\ StartType' /\ ListType' /\ LockType' /\ StopType' /\
         FileType' /\ ModType' /\ ClaudeType' /\ BoundType'
    BY DEF SendPrompt, TypeOK, FlagType, StartType, ListType, LockType,
           StopType, FileType, ModType, ClaudeType, BoundType
  <1> QED
    BY <1>1, <1>2, <1>3 DEF TypeOK

LEMMA TypePromptAccepted ==
    ASSUME TypeOK, NEW p \in Prompt, PromptAccepted(p)
    PROVE  TypeOK'
  <1>1. StartType'
    <2>1. CASE p \notin Slash /\ known
      BY <2>1, StartingType DEF PromptAccepted, TypeOK, StartType
    <2>2. CASE ~(p \notin Slash /\ known)
      BY <2>2 DEF PromptAccepted, TypeOK, StartType
    <2> QED
      BY <2>1, <2>2
  <1>2. CmdType'
    BY DEF PromptAccepted, TypeOK, CmdType
  <1>3. GhostType'
    BY DEF PromptAccepted, TypeOK, GhostType, Tell, Told
  <1>4. FlagType' /\ ListType' /\ LockType' /\ StopType' /\ FileType' /\
         ModType' /\ ClaudeType' /\ BoundType'
    BY DEF PromptAccepted, TypeOK, FlagType, ListType, LockType, StopType,
           FileType, ModType, ClaudeType, BoundType
  <1> QED
    BY <1>1, <1>2, <1>3, <1>4 DEF TypeOK

LEMMA TypePromptNotConfirmed ==
    ASSUME TypeOK, NEW p \in Prompt, PromptNotConfirmed(p)
    PROVE  TypeOK'
  <1>1. CmdType'
    BY DEF PromptNotConfirmed, TypeOK, CmdType, Forget
  <1>2. GhostType'
    BY DEF PromptNotConfirmed, TypeOK, GhostType, Tell, Told
  <1>3. FlagType' /\ StartType' /\ ListType' /\ LockType' /\ StopType' /\
         FileType' /\ ModType' /\ ClaudeType' /\ BoundType'
    BY DEF PromptNotConfirmed, TypeOK, FlagType, StartType, ListType,
           LockType, StopType, FileType, ModType, ClaudeType, BoundType
  <1> QED
    BY <1>1, <1>2, <1>3 DEF TypeOK

LEMMA TypeStopSends ==
    ASSUME TypeOK, StopSends
    PROVE  TypeOK'
  <1>1. CmdType'
    <2>1. AbortCmd(nextID + 1) \in Command
      BY DEF TypeOK, CmdType, AbortCmd, Command
    <2> QED
      BY <2>1 DEF StopSends, TypeOK, CmdType
  <1>2. StopType'
    BY DEF StopSends, TypeOK, StopType, StopAt
  <1>3. FlagType' /\ StartType' /\ ListType' /\ LockType' /\ FileType' /\
         ModType' /\ ClaudeType' /\ GhostType' /\ BoundType'
    BY DEF StopSends, TypeOK, FlagType, StartType, ListType, LockType,
           FileType, ModType, ClaudeType, GhostType, BoundType
  <1> QED
    BY <1>1, <1>2, <1>3 DEF TypeOK

LEMMA TypeStopSucceeds ==
    ASSUME TypeOK, StopSucceeds
    PROVE  TypeOK'
  <1>1. CmdType'
    BY DEF StopSucceeds, TypeOK, CmdType
  <1>2. StopType'
    BY DEF StopSucceeds, TypeOK, StopType, NoStop, StopAt
  <1>3. GhostType'
    BY DEF StopSucceeds, TypeOK, GhostType, Tell, Told
  <1>4. FlagType' /\ StartType' /\ ListType' /\ LockType' /\ FileType' /\
         ModType' /\ ClaudeType' /\ BoundType'
    BY DEF StopSucceeds, TypeOK, FlagType, StartType, ListType, LockType,
           FileType, ModType, ClaudeType, BoundType
  <1> QED
    BY <1>1, <1>2, <1>3, <1>4 DEF TypeOK

LEMMA TypeStopFails ==
    ASSUME TypeOK, StopFails
    PROVE  TypeOK'
  <1>1. ASSUME stop.took = <<>>
       PROVE  UNCHANGED <<listVars, lockVars>>
    BY <1>1 DEF StopFails
  <1>2. ASSUME stop.took # <<>>
       PROVE  /\ held' = stop.took \o held /\ UNCHANGED <<steering, waiting>>
              /\ Keep(steering \o held' \o waiting, waiting, "release", <<>>)
    BY <1>2 DEF StopFails
  <1>3. ListType'
    <2>1. CASE stop.took = <<>>
      BY <1>1, <2>1 DEF TypeOK, ListType
    <2>2. CASE stop.took # <<>>
      <3>1. held' = stop.took \o held /\ UNCHANGED <<steering, waiting>>
        BY <1>2, <2>2
      <3>2. stop.took \in Seq(Prompt)
        BY DEF TypeOK, StopType
      <3> QED
        BY <3>1, <3>2 DEF TypeOK, ListType
    <2> QED
      BY <2>1, <2>2
  <1>4. LockType'
    <2>1. CASE stop.took = <<>>
      BY <1>1, <2>1 DEF TypeOK, LockType
    <2>2. CASE stop.took # <<>>
      <3>1. steering \o held' \o waiting \in Seq(Prompt) /\ waiting \in Seq(Prompt)
        BY <1>3 DEF TypeOK, ListType
      <3>2. Keep(steering \o held' \o waiting, waiting, "release", <<>>)
        BY <1>2, <2>2
      <3> QED
        BY <3>1, <3>2 DEF Keep, LockType
    <2> QED
      BY <2>1, <2>2
  <1>5. CmdType'
    BY DEF StopFails, TypeOK, CmdType, Forget
  <1>6. StopType'
    BY DEF StopFails, TypeOK, StopType, NoStop, StopAt
  <1>7. FlagType' /\ StartType' /\ FileType' /\ ModType' /\ ClaudeType' /\
         GhostType' /\ BoundType'
    BY DEF StopFails, TypeOK, FlagType, StartType, FileType, ModType,
           ClaudeType, GhostType, BoundType
  <1> QED
    BY <1>3, <1>4, <1>5, <1>6, <1>7 DEF TypeOK

LEMMA TypeSubmitBatch ==
    ASSUME TypeOK, NEW b \in launched, SubmitBatch(b)
    PROVE  TypeOK'
  <1>1. CmdType'
    <2> DEFINE batch == [i \in 1..Len(b) |-> PromptCmd(nextID + i, b[i])]
    <2>1. b \in Seq(Prompt) /\ Len(b) \in Nat
      BY DEF TypeOK, CmdType
    <2>2. \A i \in 1..Len(b) : PromptCmd(nextID + i, b[i]) \in Command
      BY <2>1 DEF TypeOK, CmdType, PromptCmd, Command
    <2>3. batch \in Seq(Command)
      BY <2>1, <2>2
    <2>4. ToSet(batch) \subseteq Command
      BY <2>1, <2>2 DEF ToSet
    <2> QED
      BY <2>1, <2>3, <2>4 DEF SubmitBatch, TypeOK, CmdType
  <1>2. FlagType' /\ StartType' /\ ListType' /\ LockType' /\ StopType' /\
         FileType' /\ ModType' /\ ClaudeType' /\ GhostType' /\ BoundType'
    BY DEF SubmitBatch, TypeOK, FlagType, StartType, ListType, LockType,
           StopType, FileType, ModType, ClaudeType, GhostType, BoundType
  <1> QED
    BY <1>1, <1>2 DEF TypeOK

LEMMA TypeSubmitReads ==
    ASSUME TypeOK, NEW b \in submits, SubmitReads(b)
    PROVE  TypeOK'
  <1>1. CmdType'
    <2>1. Len(b) > 1 => Tail(b) \in Seq(Command)
      BY DEF TypeOK, CmdType
    <2> QED
      BY <2>1 DEF SubmitReads, TypeOK, CmdType
  <1>2. GhostType'
    BY DEF SubmitReads, TypeOK, GhostType, Tell, Told
  <1>3. FlagType' /\ StartType' /\ ListType' /\ LockType' /\ StopType' /\
         FileType' /\ ModType' /\ ClaudeType' /\ BoundType'
    BY DEF SubmitReads, TypeOK, FlagType, StartType, ListType, LockType,
           StopType, FileType, ModType, ClaudeType, BoundType
  <1> QED
    BY <1>1, <1>2, <1>3 DEF TypeOK

LEMMA TypeSubmitGivesUp ==
    ASSUME TypeOK, NEW b \in submits, SubmitGivesUp(b)
    PROVE  TypeOK'
  <1>1. CmdType'
    BY DEF SubmitGivesUp, TypeOK, CmdType, Forget
  <1>2. GhostType'
    BY DEF SubmitGivesUp, TypeOK, GhostType, Tell, Told
  <1>3. FlagType' /\ StartType' /\ ListType' /\ LockType' /\ StopType' /\
         FileType' /\ ModType' /\ ClaudeType' /\ BoundType'
    BY DEF SubmitGivesUp, TypeOK, FlagType, StartType, ListType, LockType,
           StopType, FileType, ModType, ClaudeType, BoundType
  <1> QED
    BY <1>1, <1>2, <1>3 DEF TypeOK

LEMMA TypeWriteTexts ==
    ASSUME TypeOK, WriteTexts
    PROVE  TypeOK'
  <1>1. LockType'
    BY DEF WriteTexts, TypeOK, LockType
  <1>2. FileType'
    BY DEF WriteTexts, TypeOK, FileType, LockType
  <1>3. FlagType' /\ StartType' /\ ListType' /\ CmdType' /\ StopType' /\
         ModType' /\ ClaudeType' /\ GhostType' /\ BoundType'
    BY DEF WriteTexts, TypeOK, FlagType, StartType, ListType, CmdType,
           StopType, ModType, ClaudeType, GhostType, BoundType
  <1> QED
    BY <1>1, <1>2, <1>3 DEF TypeOK

LEMMA TypeWriteWait ==
    ASSUME TypeOK, WriteWait
    PROVE  TypeOK'
  <1>1. LockType'
    BY DEF WriteWait, TypeOK, LockType, NoKeep
  <1>2. CmdType'
    BY DEF WriteWait, TypeOK, CmdType, LockType
  <1>3. StopType'
    BY DEF WriteWait, TypeOK, StopType, StopAt
  <1>4. FileType'
    BY DEF WriteWait, TypeOK, FileType, LockType
  <1>5. GhostType'
    <2>1. told' \in [Prompt -> Told]
      BY DEF WriteWait, TypeOK, GhostType, LockType, Tell, Told
    <2> QED
      BY <2>1 DEF WriteWait, TypeOK, GhostType
  <1>6. FlagType' /\ StartType' /\ ListType' /\ ModType' /\ ClaudeType' /\
         BoundType'
    BY DEF WriteWait, TypeOK, FlagType, StartType, ListType, ModType,
           ClaudeType, BoundType
  <1> QED
    BY <1>1, <1>2, <1>3, <1>4, <1>5, <1>6 DEF TypeOK

LEMMA TypeReleaseHeld ==
    ASSUME TypeOK, ReleaseHeld
    PROVE  TypeOK'
  <1>1. ASSUME Pending = <<>> \/ ~known \/ TurnAhead
       PROVE  /\ pc' = "free"
              /\ UNCHANGED <<starting, starts, timers, listVars, cont, keep, out>>
    BY <1>1 DEF ReleaseHeld
  <1>2. ASSUME ~(Pending = <<>> \/ ~known \/ TurnAhead)
       PROVE  /\ steering' = <<>> /\ held' = <<>> /\ waiting' = <<>>
              /\ StartingTurn /\ Keep(<<>>, <<>>, "submit", Pending)
    BY <1>2 DEF ReleaseHeld
  <1>3. StartType'
    BY <1>1, <1>2, StartingType DEF TypeOK, StartType
  <1>4. ListType'
    <2>1. CASE Pending = <<>> \/ ~known \/ TurnAhead
      BY <1>1, <2>1 DEF TypeOK, ListType
    <2>2. CASE ~(Pending = <<>> \/ ~known \/ TurnAhead)
      BY <1>2, <2>2 DEF ListType
    <2> QED
      BY <2>1, <2>2
  <1>5. LockType'
    <2>1. Pending \in Seq(Prompt)
      BY DEF TypeOK, ListType, Pending
    <2>2. CASE Pending = <<>> \/ ~known \/ TurnAhead
      BY <1>1, <2>2 DEF TypeOK, LockType
    <2>3. CASE ~(Pending = <<>> \/ ~known \/ TurnAhead)
      <3>1. Keep(<<>>, <<>>, "submit", Pending)
        BY <1>2, <2>3
      <3> QED
        BY <2>1, <3>1 DEF Keep, LockType
    <2> QED
      BY <2>2, <2>3
  <1>6. FlagType' /\ CmdType' /\ StopType' /\ FileType' /\ ModType' /\
         ClaudeType' /\ GhostType' /\ BoundType'
    BY DEF ReleaseHeld, TypeOK, FlagType, CmdType, StopType, FileType,
           ModType, ClaudeType, GhostType, BoundType
  <1> QED
    BY <1>3, <1>4, <1>5, <1>6 DEF TypeOK

LEMMA TypeTimerFires ==
    ASSUME TypeOK, NEW n \in timers, TimerFires(n)
    PROVE  TypeOK'
  <1>1. StartType'
    BY DEF TimerFires, TypeOK, StartType
  <1>2. LockType'
    BY DEF TimerFires, TypeOK, LockType
  <1>3. FlagType' /\ ListType' /\ CmdType' /\ StopType' /\ FileType' /\
         ModType' /\ ClaudeType' /\ GhostType' /\ BoundType'
    BY DEF TimerFires, TypeOK, FlagType, ListType, CmdType, StopType,
           FileType, ModType, ClaudeType, GhostType, BoundType
  <1> QED
    BY <1>1, <1>2, <1>3 DEF TypeOK

LEMMA TypeApplyTurn ==
    ASSUME TypeOK, ApplyTurn
    PROVE  TypeOK'
  <1>1. FlagType'
    <2>1. turnOpen' \in BOOLEAN
      BY HeadEvent DEF ApplyTurn, TakeEvent, Fold, TypeOK, FlagType
    <2>2. known' \in BOOLEAN /\ running' \in BOOLEAN
      BY DEF ApplyTurn, TypeOK, FlagType
    <2> QED
      BY <2>1, <2>2 DEF FlagType
  <1>2. StartType'
    <2>1. UNCHANGED <<starts, timers>>
      BY DEF ApplyTurn, Fold
    <2>2. starting' = starting \/ starting' = 0
      BY DEF ApplyTurn, Fold
    <2> QED
      BY <2>1, <2>2 DEF TypeOK, StartType
  <1>3. LockType'
    BY DEF ApplyTurn, TypeOK, LockType
  <1>4. ModType'
    BY HeadEvent DEF ApplyTurn, TakeEvent, TypeOK, ModType
  <1>5. ListType' /\ CmdType' /\ StopType' /\ FileType' /\ ClaudeType' /\
         GhostType' /\ BoundType'
    BY DEF ApplyTurn, TypeOK, ListType, CmdType, StopType, FileType,
           ClaudeType, GhostType, BoundType
  <1> QED
    BY <1>1, <1>2, <1>3, <1>4, <1>5 DEF TypeOK

LEMMA TypeApplyAck ==
    ASSUME TypeOK, ApplyAck
    PROVE  TypeOK'
  <1>1. LockType'
    BY DEF ApplyAck, TypeOK, LockType
  <1>2. CmdType'
    BY HeadEvent DEF ApplyAck, TakeEvent, TypeOK, CmdType, ModType
  <1>3. ModType'
    BY HeadEvent DEF ApplyAck, TakeEvent, TypeOK, ModType
  <1>4. FlagType' /\ StartType' /\ ListType' /\ StopType' /\ FileType' /\
         ClaudeType' /\ GhostType' /\ BoundType'
    BY DEF ApplyAck, TypeOK, FlagType, StartType, ListType, StopType,
           FileType, ClaudeType, GhostType, BoundType
  <1> QED
    BY <1>1, <1>2, <1>3, <1>4 DEF TypeOK

LEMMA TypeApplyFailed ==
    ASSUME TypeOK, ApplyFailed
    PROVE  TypeOK'
  <1>1. LockType'
    BY DEF ApplyFailed, TypeOK, LockType
  <1>2. StartType' /\ FlagType'
    BY DEF ApplyFailed, Fold, TypeOK, StartType, FlagType
  <1>3. ModType'
    BY HeadEvent DEF ApplyFailed, TakeEvent, TypeOK, ModType
  <1>4. GhostType'
    BY DEF ApplyFailed, Tell, TypeOK, GhostType, Told
  <1>5. ListType' /\ CmdType' /\ StopType' /\ FileType' /\ ClaudeType' /\
         BoundType'
    BY DEF ApplyFailed, TypeOK, ListType, CmdType, StopType, FileType,
           ClaudeType, BoundType
  <1> QED
    BY <1>1, <1>2, <1>3, <1>4, <1>5 DEF TypeOK

LEMMA TypeApplyRow ==
    ASSUME TypeOK, ApplyRow
    PROVE  TypeOK'
  <1> DEFINE k == IF Len(Head(events).texts) < Len(steering)
                   THEN Len(Head(events).texts) ELSE Len(steering)
  <1>1. k \in Nat /\ k <= Len(steering)
    BY HeadEvent DEF ApplyRow, TakeEvent, TypeOK, ListType
  <1>2. FlagType'
    BY DEF ApplyRow, TypeOK, FlagType, Fold
  <1>3. StartType'
    BY DEF ApplyRow, TypeOK, StartType, Fold
  <1>4. ListType'
    BY <1>1, DropType DEF ApplyRow, TypeOK, ListType
  <1>5. LockType'
    <2>1. CASE k = 0
      BY <2>1 DEF ApplyRow, TypeOK, LockType
    <2>2. CASE k # 0
      <3>1. Keep(steering' \o held \o waiting, waiting, "batch", <<>>)
        BY <2>2 DEF ApplyRow
      <3>2. steering' \o held \o waiting \in Seq(Prompt) /\ waiting \in Seq(Prompt)
        BY <1>4 DEF TypeOK, ListType
      <3> QED
        BY <3>1, <3>2 DEF Keep, LockType
    <2> QED
      BY <2>1, <2>2
  <1>6. ModType'
    BY HeadEvent DEF ApplyRow, TakeEvent, TypeOK, ModType
  <1>7. GhostType'
    <2>1. ToSet(SubSeq(steering, 1, k)) \subseteq Prompt
      BY <1>1, TakenType DEF TypeOK, ListType
    <2>2. confirmed' = confirmed \cup ToSet(SubSeq(steering, 1, k))
      BY DEF ApplyRow
    <2> QED
      BY <2>1, <2>2 DEF ApplyRow, TypeOK, GhostType
  <1>8. CmdType' /\ StopType' /\ FileType' /\ ClaudeType' /\ BoundType'
    BY DEF ApplyRow, TypeOK, CmdType, StopType, FileType, ClaudeType,
           BoundType
  <1> QED
    BY <1>2, <1>3, <1>4, <1>5, <1>6, <1>7, <1>8 DEF TypeOK

LEMMA TypeApplyEnds ==
    ASSUME TypeOK, ApplyEnds
    PROVE  TypeOK'
  <1>1. LockType'
    BY DEF ApplyEnds, TypeOK, LockType
  <1>2. FlagType' /\ StartType' /\ ListType' /\ CmdType' /\ StopType' /\
         FileType' /\ ModType' /\ ClaudeType' /\ GhostType' /\ BoundType'
    BY DEF ApplyEnds, TypeOK, FlagType, StartType, ListType, CmdType,
           StopType, FileType, ModType, ClaudeType, GhostType, BoundType
  <1> QED
    BY <1>1, <1>2 DEF TypeOK

LEMMA TypePoll ==
    ASSUME TypeOK, Poll
    PROVE  TypeOK'
  <1>1. CmdType'
    BY DEF Poll, TypeOK, CmdType
  <1>2. ModType'
    BY DEF Poll, TypeOK, ModType, CmdType
  <1>3. FlagType' /\ StartType' /\ ListType' /\ LockType' /\ StopType' /\
         FileType' /\ ClaudeType' /\ GhostType' /\ BoundType'
    BY DEF Poll, TypeOK, FlagType, StartType, ListType, LockType, StopType,
           FileType, ClaudeType, GhostType, BoundType
  <1> QED
    BY <1>1, <1>2, <1>3 DEF TypeOK

LEMMA TypeRunPrompt ==
    ASSUME TypeOK, NEW cmd \in inHand, RunPrompt(cmd)
    PROVE  TypeOK'
  <1>1. ModType'
    <2>1. Ack(cmd, TRUE) \in Event
      BY DEF TypeOK, ModType, Ack, Event
    <2>2. PICK e \in Event : events' = Append(events, e)
      BY <2>1 DEF RunPrompt
    <2>3. events' \in Seq(Event)
      BY <2>2 DEF TypeOK, ModType
    <2>4. inHand' \subseteq Command /\ answer' \in Seq(Prompt)
      BY DEF RunPrompt, RunOne, TypeOK, ModType
    <2> QED
      BY <2>3, <2>4 DEF ModType
  <1>2. ClaudeType'
    <2>1. PICK q \in Prompt : q = cmd.text
      BY DEF RunPrompt, TypeOK, ModType, Command
    <2>2. CASE q \in Slash
      BY <2>1, <2>2 DEF RunPrompt, TypeOK, ClaudeType
    <2>3. CASE q \notin Slash
      BY <2>1, <2>3 DEF RunPrompt, TypeOK, ClaudeType
    <2> QED
      BY <2>2, <2>3
  <1>3. GhostType'
    BY DEF RunPrompt, TypeOK, GhostType
  <1>4. FlagType' /\ StartType' /\ ListType' /\ LockType' /\ CmdType' /\
         StopType' /\ FileType' /\ BoundType'
    BY DEF RunPrompt, TypeOK, FlagType, StartType, ListType, LockType,
           CmdType, StopType, FileType, BoundType
  <1> QED
    BY <1>1, <1>2, <1>3, <1>4 DEF TypeOK

LEMMA TypeRefusePrompt ==
    ASSUME TypeOK, NEW cmd \in inHand, RefusePrompt(cmd)
    PROVE  TypeOK'
  <1>1. ModType'
    <2>1. Ack(cmd, FALSE) \in Event
      BY DEF TypeOK, ModType, Ack, Event
    <2>2. PICK e \in Event : events' = Append(events, e)
      BY <2>1 DEF RefusePrompt
    <2>3. events' \in Seq(Event)
      BY <2>2 DEF TypeOK, ModType
    <2>4. inHand' \subseteq Command /\ answer' \in Seq(Prompt)
      BY DEF RefusePrompt, RunOne, TypeOK, ModType
    <2> QED
      BY <2>3, <2>4 DEF ModType
  <1>2. FlagType' /\ StartType' /\ ListType' /\ LockType' /\ CmdType' /\
         StopType' /\ FileType' /\ ClaudeType' /\ GhostType' /\ BoundType'
    BY DEF RefusePrompt, TypeOK, FlagType, StartType, ListType, LockType,
           CmdType, StopType, FileType, ClaudeType, GhostType, BoundType
  <1> QED
    BY <1>1, <1>2 DEF TypeOK

LEMMA TypeRunAbort ==
    ASSUME TypeOK, NEW cmd \in inHand, RunAbort(cmd)
    PROVE  TypeOK'
  <1>1. FlagType'
    BY DEF RunAbort, TypeOK, FlagType
  <1>2. ModType'
    <2>1. /\ Ack(cmd, TRUE) \in Event /\ Ack(cmd, FALSE) \in Event
         /\ [type |-> "turn_end"] \in Event
      BY DEF TypeOK, ModType, Ack, Event
    <2>2. events \in Seq(Event)
      BY DEF TypeOK, ModType
    <2>3. events' \in Seq(Event)
      <3>1. CASE running
        <4>1. PICK e \in Event, f \in Event : events' = events \o <<e, f>>
          BY <2>1, <3>1 DEF RunAbort
        <4> QED
          BY <2>2, <4>1
      <3>2. CASE ~running
        <4>1. PICK e \in Event : events' = Append(events, e)
          BY <2>1, <3>2 DEF RunAbort
        <4> QED
          BY <2>2, <4>1
      <3> QED
        BY <3>1, <3>2
    <2>4. inHand' \subseteq Command /\ answer' = <<>>
      BY DEF RunAbort, RunOne, TypeOK, ModType
    <2> QED
      BY <2>3, <2>4 DEF ModType
  <1>3. ClaudeType'
    BY DEF RunAbort, TypeOK, ClaudeType
  <1>4. StartType' /\ ListType' /\ LockType' /\ CmdType' /\ StopType' /\
         FileType' /\ GhostType' /\ BoundType'
    BY DEF RunAbort, TypeOK, StartType, ListType, LockType, CmdType, StopType,
           FileType, GhostType, BoundType
  <1> QED
    BY <1>1, <1>2, <1>3, <1>4 DEF TypeOK

LEMMA TypeTakeForSteer ==
    ASSUME TypeOK, TakeForSteer
    PROVE  TypeOK'
  <1>1. ListType'
    BY DEF TakeForSteer, TypeOK, ListType
  <1>2. ModType'
    BY DEF TakeForSteer, TypeOK, ModType, ListType
  <1>3. GhostType'
    BY DEF TakeForSteer, TypeOK, GhostType, ListType, ToSet
  <1>4. BoundType'
    BY DEF TakeForSteer, TypeOK, BoundType
  <1>5. FlagType' /\ StartType' /\ LockType' /\ CmdType' /\ StopType' /\
         FileType' /\ ClaudeType'
    BY DEF TakeForSteer, TypeOK, FlagType, StartType, LockType, CmdType,
           StopType, FileType, ClaudeType
  <1> QED
    BY <1>1, <1>2, <1>3, <1>4, <1>5 DEF TypeOK

LEMMA TypeAttachContext ==
    ASSUME TypeOK, AttachContext
    PROVE  TypeOK'
  <1>1. ModType'
    BY DEF AttachContext, TypeOK, ModType
  <1>2. ClaudeType'
    BY DEF AttachContext, TypeOK, ClaudeType, ModType
  <1>3. FlagType' /\ StartType' /\ ListType' /\ LockType' /\ CmdType' /\
         StopType' /\ FileType' /\ GhostType' /\ BoundType'
    BY DEF AttachContext, TypeOK, FlagType, StartType, ListType, LockType,
           CmdType, StopType, FileType, GhostType, BoundType
  <1> QED
    BY <1>1, <1>2, <1>3 DEF TypeOK

LEMMA TypeTakeMisses ==
    ASSUME TypeOK, TakeMisses
    PROVE  TypeOK'
  <1>1. ModType'
    BY DEF TakeMisses, TypeOK, ModType
  <1>2. ClaudeType'
    BY DEF TakeMisses, TypeOK, ClaudeType
  <1>3. FlagType' /\ StartType' /\ ListType' /\ LockType' /\ CmdType' /\
         StopType' /\ FileType' /\ GhostType' /\ BoundType'
    BY DEF TakeMisses, TypeOK, FlagType, StartType, ListType, LockType,
           CmdType, StopType, FileType, GhostType, BoundType
  <1> QED
    BY <1>1, <1>2, <1>3 DEF TypeOK

LEMMA TypeStoreRow ==
    ASSUME TypeOK, StoreRow
    PROVE  TypeOK'
  <1>1. ModType'
    BY DEF StoreRow, TypeOK, ModType, ClaudeType, Event
  <1>2. ClaudeType'
    BY DEF StoreRow, TypeOK, ClaudeType
  <1>3. GhostType'
    BY DEF StoreRow, TypeOK, GhostType, Reads
  <1>4. FlagType' /\ StartType' /\ ListType' /\ LockType' /\ CmdType' /\
         StopType' /\ FileType' /\ BoundType'
    BY DEF StoreRow, TypeOK, FlagType, StartType, ListType, LockType, CmdType,
           StopType, FileType, BoundType
  <1> QED
    BY <1>1, <1>2, <1>3, <1>4 DEF TypeOK

LEMMA TypeStartTurn ==
    ASSUME TypeOK, StartTurn
    PROVE  TypeOK'
  <1>1. FlagType'
    BY DEF StartTurn, TypeOK, FlagType
  <1>2. ModType'
    BY DEF StartTurn, TypeOK, ModType, Event
  <1>3. ClaudeType'
    BY DEF StartTurn, TypeOK, ClaudeType
  <1>4. GhostType'
    BY DEF StartTurn, TypeOK, GhostType, Reads
  <1>5. StartType' /\ ListType' /\ LockType' /\ CmdType' /\ StopType' /\
         FileType' /\ BoundType'
    BY DEF StartTurn, TypeOK, StartType, ListType, LockType, CmdType,
           StopType, FileType, BoundType
  <1> QED
    BY <1>1, <1>2, <1>3, <1>4, <1>5 DEF TypeOK

LEMMA TypeDropPrompt ==
    ASSUME TypeOK, DropPrompt
    PROVE  TypeOK'
  <1>1. PICK i \in DOMAIN claudeQ :
           /\ claudeQ' = RemoveAt(claudeQ, i)
           /\ events' = Append(events, [type |-> "command_failed", text |-> claudeQ[i]])
    BY DEF DropPrompt
  <1>2. claudeQ \in Seq(Prompt) /\ claudeQ[i] \in Prompt
    BY <1>1 DEF TypeOK, ClaudeType
  <1>3. ClaudeType'
    BY <1>1, <1>2, RemoveAtType DEF DropPrompt, TypeOK, ClaudeType
  <1>4. ModType'
    BY <1>1, <1>2 DEF DropPrompt, TypeOK, ModType, Event
  <1>5. FlagType' /\ StartType' /\ ListType' /\ LockType' /\ CmdType' /\
         StopType' /\ FileType' /\ GhostType' /\ BoundType'
    BY DEF DropPrompt, TypeOK, FlagType, StartType, ListType, LockType,
           CmdType, StopType, FileType, GhostType, BoundType
  <1> QED
    BY <1>3, <1>4, <1>5 DEF TypeOK

LEMMA TypeEndTurn ==
    ASSUME TypeOK, EndTurn
    PROVE  TypeOK'
  <1>1. FlagType'
    BY DEF EndTurn, TypeOK, FlagType
  <1>2. ModType'
    BY DEF EndTurn, TypeOK, ModType, Event
  <1>3. ClaudeType'
    BY DEF EndTurn, TypeOK, ClaudeType
  <1>4. StartType' /\ ListType' /\ LockType' /\ CmdType' /\ StopType' /\
         FileType' /\ GhostType' /\ BoundType'
    BY DEF EndTurn, TypeOK, StartType, ListType, LockType, CmdType, StopType,
           FileType, GhostType, BoundType
  <1> QED
    BY <1>1, <1>2, <1>3, <1>4 DEF TypeOK

\* Every step keeps the types.
LEMMA TypeNext ==
    ASSUME TypeOK, [Next]_vars PROVE TypeOK'
  <1>1. CASE Person
    BY <1>1, TypeHold, TypeHoldDeclines, TypeCancelHeld, TypeTakeHeld,
       TypeStopTakes, TypeStopPlain, TypeStartPaneTurn DEF Person
  <1>2. CASE Routes
    BY <1>2, TypeSendPrompt, TypePromptAccepted, TypePromptNotConfirmed,
       TypeStopSends, TypeStopSucceeds, TypeStopFails, TypeSubmitBatch,
       TypeSubmitReads, TypeSubmitGivesUp DEF Routes
  <1>3. CASE Apply
    BY <1>3, TypeWriteTexts, TypeWriteWait, TypeReleaseHeld, TypeTimerFires,
       TypeApplyTurn, TypeApplyAck, TypeApplyFailed, TypeApplyRow, TypeApplyEnds
       DEF Apply
  <1>4. CASE Mod
    BY <1>4, TypePoll, TypeTakeForSteer, TypeAttachContext, TypeTakeMisses,
       TypeRunPrompt, TypeRefusePrompt, TypeRunAbort DEF Mod
  <1>5. CASE Claude
    BY <1>5, TypeStoreRow, TypeStartTurn, TypeDropPrompt, TypeEndTurn DEF Claude
  <1>6. CASE UNCHANGED vars
    BY <1>6 DEF vars, TypeOK, FlagType, StartType, ListType, LockType, CmdType,
       StopType, FileType, ModType, ClaudeType, GhostType, BoundType
  <1> QED
    BY <1>1, <1>2, <1>3, <1>4, <1>5, <1>6 DEF Next

\* Every variable keeps its type, whatever the prompts and the bounds.
THEOREM TypeCorrect == Spec => []TypeOK
  <1>1. Init => TypeOK
    BY TypeInit
  <1>2. TypeOK /\ [Next]_vars => TypeOK'
    BY TypeNext
  <1> QED
    BY <1>1, <1>2, PTL DEF Spec

-----------------------------------------------------------------------------
(* What the lock's holder leaves.  NothingStuck and FilesFollow speak of  *)
(* the connection outside a write; a step may begin a write, so each is    *)
(* strengthened to say what holds in the middle of one.                    *)

\* A holder of applyMu that will let go of it after its write has nothing left
\* to release; one that goes on to a batch or to releaseHeld may.
StuckInv ==
    /\ known /\ ~TurnAhead
    /\ \/ pc = "free"
       \/ pc \in {"texts", "wait"} /\ cont \notin {"batch", "release"}
    => Pending = <<>>

\* A write has the lists as they are, and its first half is on disk.
FilesInv ==
    /\ pc \in {"texts", "wait"} => keep.texts = Pending /\ keep.waiting = waiting
    /\ pc \notin {"texts", "wait"} => fileTexts = Pending /\ fileWait = waiting
    /\ pc = "wait" => fileTexts = Pending

\* The actions that leave the connection, its lists, lock and files alone.
Quiet ==
    \/ \E p \in Prompt : HoldDeclines(p) \/ SendPrompt(p) \/ PromptNotConfirmed(p)
    \/ StopPlain \/ StopSends \/ StopSucceeds
    \/ \E b \in launched : SubmitBatch(b)
    \/ \E b \in submits : SubmitReads(b) \/ SubmitGivesUp(b)
    \/ Poll \/ AttachContext \/ TakeMisses
    \/ \E cmd \in inHand : RunPrompt(cmd) \/ RefusePrompt(cmd) \/ RunAbort(cmd)
    \/ Claude \/ StartPaneTurn

LEMMA QuietKeeps ==
    ASSUME Quiet
    PROVE  UNCHANGED <<connVars, listVars, lockVars, fileVars>>
  <1>1. ASSUME NEW p \in Prompt,
               HoldDeclines(p) \/ SendPrompt(p) \/ PromptNotConfirmed(p)
        PROVE  UNCHANGED <<connVars, listVars, lockVars, fileVars>>
    BY <1>1 DEF HoldDeclines, SendPrompt, PromptNotConfirmed
  <1>2. CASE StopPlain \/ StopSends \/ StopSucceeds
    BY <1>2 DEF StopPlain, StopSends, StopSucceeds
  <1>3. ASSUME NEW b, SubmitBatch(b) \/ SubmitReads(b) \/ SubmitGivesUp(b)
        PROVE  UNCHANGED <<connVars, listVars, lockVars, fileVars>>
    BY <1>3 DEF SubmitBatch, SubmitReads, SubmitGivesUp
  <1>4. CASE Poll \/ AttachContext \/ TakeMisses
    BY <1>4 DEF Poll, AttachContext, TakeMisses
  <1>5. ASSUME NEW cmd, RunPrompt(cmd) \/ RefusePrompt(cmd) \/ RunAbort(cmd)
        PROVE  UNCHANGED <<connVars, listVars, lockVars, fileVars>>
    BY <1>5 DEF RunPrompt, RefusePrompt, RunAbort
  <1>6. CASE Claude \/ StartPaneTurn
    BY <1>6 DEF Claude, StoreRow, StartTurn, DropPrompt, EndTurn, StartPaneTurn
  <1> QED
    BY <1>1, <1>2, <1>3, <1>4, <1>5, <1>6 DEF Quiet

LEMMA PendingEmpty ==
    ASSUME ListType
    PROVE  Pending = <<>> <=> steering = <<>> /\ held = <<>> /\ waiting = <<>>
  BY EmptyParts DEF ListType, Pending

-----------------------------------------------------------------------------
LEMMA StuckInit == ASSUME Init PROVE StuckInv
  BY DEF Init, StuckInv, Pending

LEMMA StuckNext ==
    ASSUME TypeOK, StuckInv, [Next]_vars PROVE StuckInv'
  <1> ListType /\ StartType
    BY DEF TypeOK
  <1>1. CASE Quiet
    BY <1>1, QuietKeeps DEF StuckInv, Pending, TurnAhead
  <1>2. ASSUME NEW p \in Prompt, NEW w \in BOOLEAN, Hold(p, w) PROVE StuckInv'
    BY <1>2 DEF Hold, StuckInv, TurnAhead
  <1>3. ASSUME NEW p \in Prompt, CancelHeld(p) PROVE StuckInv'
    <2>1. held # <<>> \/ waiting # <<>>
      BY <1>3 DEF CancelHeld, ListType
    <2>2. ~(known /\ ~TurnAhead)
      BY <1>3, <2>1, PendingEmpty DEF CancelHeld, StuckInv
    <2> QED
      BY <1>3, <2>2 DEF CancelHeld, StuckInv, TurnAhead
  <1>4. CASE TakeHeld
    <2>1. ~(known /\ ~TurnAhead)
      BY <1>4, PendingEmpty, EmptyParts DEF TakeHeld, StuckInv, ListType
    <2> QED
      BY <1>4, <2>1 DEF TakeHeld, StuckInv, TurnAhead
  <1>5. CASE StopTakes
    <2>1. CASE Pending = <<>>
      BY <1>5, <2>1 DEF StopTakes, StuckInv, TurnAhead, Pending
    <2>2. CASE Pending # <<>>
      BY <1>5, <2>2 DEF StopTakes, StuckInv, Pending
    <2> QED
      BY <2>1, <2>2
  <1>6. ASSUME NEW p \in Prompt, PromptAccepted(p) PROVE StuckInv'
    <2>1. ~TurnAhead' => ~TurnAhead
      BY <1>6 DEF PromptAccepted, StartingTurn, TurnAhead, StartType
    <2> QED
      BY <1>6, <2>1 DEF PromptAccepted, StuckInv, Pending
  <1>7. CASE StopFails
    <2>1. CASE stop.took = <<>>
      BY <1>7, <2>1 DEF StopFails, StuckInv, TurnAhead, Pending
    <2>2. CASE stop.took # <<>>
      BY <1>7, <2>2 DEF StopFails, Keep, StuckInv
    <2> QED
      BY <2>1, <2>2
  <1>8. CASE WriteTexts
    BY <1>8 DEF WriteTexts, StuckInv, TurnAhead, Pending
  <1>9. CASE WriteWait
    BY <1>9 DEF WriteWait, StuckInv, TurnAhead, Pending
  <1>10. CASE ReleaseHeld
    <2>1. CASE Pending = <<>> \/ ~known \/ TurnAhead
      BY <1>10, <2>1 DEF ReleaseHeld, StuckInv, TurnAhead, Pending
    <2>2. CASE ~(Pending = <<>> \/ ~known \/ TurnAhead)
      BY <1>10, <2>2 DEF ReleaseHeld, StuckInv, Pending
    <2> QED
      BY <2>1, <2>2
  <1>11. ASSUME NEW n, TimerFires(n) PROVE StuckInv'
    BY <1>11 DEF TimerFires, StuckInv
  <1>12. CASE ApplyTurn \/ ApplyAck \/ ApplyFailed \/ ApplyEnds
    BY <1>12 DEF ApplyTurn, ApplyAck, ApplyFailed, ApplyEnds, StuckInv
  <1>13. CASE ApplyRow
    BY <1>13 DEF ApplyRow, Keep, StuckInv
  <1>14. CASE TakeForSteer
    BY <1>14 DEF TakeForSteer, StuckInv, TurnAhead
  <1>15. CASE UNCHANGED vars
    BY <1>15 DEF vars, StuckInv, TurnAhead, Pending
  <1> QED
    BY <1>1, <1>2, <1>3, <1>4, <1>5, <1>6, <1>7, <1>8, <1>9, <1>10, <1>11, <1>12,
       <1>13, <1>14, <1>15 DEF Next, Person, Routes, Apply, Mod, Quiet

\* Once the fold knows Claude to be idle and no write is under way, nothing is
\* held: apply, putBack and the turn start's timer all end in releaseHeld.
THEOREM Released == Spec => []NothingStuck
  <1>1. Init => TypeOK /\ StuckInv
    BY TypeInit, StuckInit
  <1>2. TypeOK /\ StuckInv /\ [Next]_vars => (TypeOK /\ StuckInv)'
    BY TypeNext, StuckNext
  <1>3. StuckInv => NothingStuck
    BY DEF StuckInv, NothingStuck
  <1> QED
    BY <1>1, <1>2, <1>3, PTL DEF Spec

-----------------------------------------------------------------------------
LEMMA FilesInit == ASSUME Init PROVE FilesInv
  BY DEF Init, FilesInv, Pending

LEMMA FilesNext ==
    ASSUME TypeOK, FilesInv, [Next]_vars PROVE FilesInv'
  <1> ListType /\ ModType
    BY DEF TypeOK
  <1>1. CASE Quiet
    BY <1>1, QuietKeeps DEF FilesInv, Pending
  <1>2. ASSUME NEW p \in Prompt, NEW w \in BOOLEAN, Hold(p, w) PROVE FilesInv'
    BY <1>2 DEF Hold, Keep, FilesInv, Pending
  <1>3. ASSUME NEW p \in Prompt, CancelHeld(p) PROVE FilesInv'
    BY <1>3 DEF CancelHeld, Keep, FilesInv, Pending
  <1>4. CASE TakeHeld
    BY <1>4 DEF TakeHeld, Keep, FilesInv, Pending, ListType
  <1>5. CASE StopTakes
    <2>1. CASE Pending = <<>>
      BY <1>5, <2>1 DEF StopTakes, FilesInv, Pending
    <2>2. CASE Pending # <<>>
      <3>1. Pending' = <<>> /\ waiting' = <<>>
        BY <1>5, <2>2 DEF StopTakes, Pending
      <3>2. Keep(<<>>, <<>>, "stop", <<>>)
        BY <1>5, <2>2 DEF StopTakes
      <3> QED
        BY <3>1, <3>2 DEF Keep, FilesInv
    <2> QED
      BY <2>1, <2>2
  <1>6. ASSUME NEW p \in Prompt, PromptAccepted(p) PROVE FilesInv'
    BY <1>6 DEF PromptAccepted, FilesInv, Pending
  <1>7. CASE StopFails
    <2>1. CASE stop.took = <<>>
      BY <1>7, <2>1 DEF StopFails, FilesInv, Pending
    <2>2. CASE stop.took # <<>>
      BY <1>7, <2>2 DEF StopFails, Keep, FilesInv, Pending
    <2> QED
      BY <2>1, <2>2
  <1>8. CASE WriteTexts
    BY <1>8 DEF WriteTexts, FilesInv, Pending
  <1>9. CASE WriteWait
    BY <1>9 DEF WriteWait, FilesInv, Pending
  <1>10. CASE ReleaseHeld
    <2>1. CASE Pending = <<>> \/ ~known \/ TurnAhead
      BY <1>10, <2>1 DEF ReleaseHeld, FilesInv, Pending
    <2>2. CASE ~(Pending = <<>> \/ ~known \/ TurnAhead)
      <3>1. Pending' = <<>> /\ waiting' = <<>>
        BY <1>10, <2>2 DEF ReleaseHeld, Pending
      <3>2. Keep(<<>>, <<>>, "submit", Pending)
        BY <1>10, <2>2 DEF ReleaseHeld
      <3> QED
        BY <3>1, <3>2 DEF Keep, FilesInv
    <2> QED
      BY <2>1, <2>2
  <1>11. ASSUME NEW n, TimerFires(n) PROVE FilesInv'
    BY <1>11 DEF TimerFires, FilesInv, Pending
  <1>12. CASE ApplyTurn \/ ApplyAck \/ ApplyFailed \/ ApplyEnds
    BY <1>12 DEF ApplyTurn, ApplyAck, ApplyFailed, ApplyEnds, TakeEvent, FilesInv, Pending
  <1>13. CASE ApplyRow
    <2> DEFINE k == IF Len(Head(events).texts) < Len(steering)
                    THEN Len(Head(events).texts) ELSE Len(steering)
    <2>1. CASE k = 0
      <3>1. steering' = steering
        <4>1. steering' = SubSeq(steering, k + 1, Len(steering))
          BY <1>13 DEF ApplyRow
        <4>2. k + 1 = 1
          BY <2>1
        <4> HIDE DEF k
        <4>3. steering' = SubSeq(steering, 1, Len(steering))
          BY <4>1, <4>2
        <4> QED
          BY <4>3, DropNone DEF ListType
      <3> QED
        BY <1>13, <2>1, <3>1 DEF ApplyRow, TakeEvent, FilesInv, Pending
    <2>2. CASE k # 0
      <3>1. Keep(steering' \o held \o waiting, waiting, "batch", <<>>)
        BY <1>13, <2>2 DEF ApplyRow
      <3>2. UNCHANGED <<held, waiting>>
        BY <1>13 DEF ApplyRow
      <3> QED
        BY <3>1, <3>2 DEF Keep, FilesInv, Pending
    <2> QED
      BY <2>1, <2>2
  <1>14. CASE TakeForSteer
    <2>1. Pending' = Pending
      BY <1>14, Regroup DEF TakeForSteer, Pending, ListType
    <2> QED
      BY <1>14, <2>1 DEF TakeForSteer, FilesInv
  <1>15. CASE UNCHANGED vars
    BY <1>15 DEF vars, FilesInv, Pending
  <1> QED
    BY <1>1, <1>2, <1>3, <1>4, <1>5, <1>6, <1>7, <1>8, <1>9, <1>10, <1>11, <1>12,
       <1>13, <1>14, <1>15 DEF Next, Person, Routes, Apply, Mod, Quiet

\* Outside a write the two files say what the connection holds, though
\* takeForSteer moves prompts without writing.
THEOREM FilesCorrect == Spec => []FilesFollow
  <1>1. Init => TypeOK /\ FilesInv
    BY TypeInit, FilesInit
  <1>2. TypeOK /\ FilesInv /\ [Next]_vars => (TypeOK /\ FilesInv)'
    BY TypeNext, FilesNext
  <1>3. FilesInv => FilesFollow
    BY DEF FilesInv, FilesFollow
  <1> QED
    BY <1>1, <1>2, <1>3, PTL DEF Spec

=============================================================================
