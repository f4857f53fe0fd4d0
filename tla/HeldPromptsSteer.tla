-------------------------- MODULE HeldPromptsSteer --------------------------
(***************************************************************************)
(* What is handed to the mod at a tool boundary: of the prompts sent to    *)
(* wait only those a failed Stop put back among the held, and what Up      *)
(* hands back is unread but for the steered ones such a Stop put back.     *)
(* As long as no Stop comes, a row confirms what it carried.               *)
(***************************************************************************)
EXTENDS HeldPromptsPlaces

USE DEF connVars, listVars, lockVars, cmdVars, fileVars, modVars, claudeVars,
        ghostVars, boundVars

WaitInv ==
    /\ ToSet(waiting) \subseteq asWait
    /\ ToSet(held) \cap (asWait \cup offered) \subseteq putBack
    /\ asWait \cap offered \subseteq putBack
    /\ \A p \in asWait \cup offered \cup ToSet(held) \cup ToSet(stop.took) : told[p] # "unsent"
    /\ cont = "returned" => ToSet(out) \cap offered \subseteq putBack

\* What the person sent stays sent.
LEMMA Asked ==
    ASSUME TypeOK, [Next]_vars, NEW p \in Prompt, told[p] # "unsent"
    PROVE  told'[p] # "unsent"
  <1> told \in [Prompt -> Told]
    BY DEF TypeOK, GhostType
  <1>1. ASSUME NEW S, NEW w, Tell(S, w), w # "unsent" \/ S = {} PROVE told'[p] # "unsent"
    BY <1>1 DEF Tell
  <1>2. CASE told' = told
    BY <1>2
  <1>3. CASE Person
    <2>1. ASSUME NEW q \in Prompt, NEW w \in BOOLEAN, Hold(q, w) PROVE told'[p] # "unsent"
      BY <1>1, <2>1 DEF Hold
    <2>2. ASSUME NEW q \in Prompt, HoldDeclines(q) PROVE told'[p] # "unsent"
      BY <1>1, <2>2 DEF HoldDeclines
    <2> QED
      BY <1>2, <1>3, <2>1, <2>2
         DEF Person, CancelHeld, TakeHeld, StopTakes, StopPlain, StartPaneTurn, ghostVars
  <1>4. CASE Routes
    <2>1. ASSUME NEW q \in Prompt, SendPrompt(q) \/ PromptAccepted(q) \/ PromptNotConfirmed(q)
          PROVE  told'[p] # "unsent"
      BY <1>1, <2>1 DEF SendPrompt, PromptAccepted, PromptNotConfirmed
    <2>2. CASE StopSends \/ StopFails
      BY <1>2, <2>2 DEF StopSends, StopFails, ghostVars
    <2>3. CASE StopSucceeds
      BY <1>1, <2>3 DEF StopSucceeds
    <2>4. ASSUME NEW b \in launched, SubmitBatch(b) PROVE told'[p] # "unsent"
      BY <1>2, <2>4 DEF SubmitBatch, ghostVars
    <2>5. ASSUME NEW b \in submits, SubmitReads(b) \/ SubmitGivesUp(b)
          PROVE  told'[p] # "unsent"
      BY <1>1, <2>5 DEF SubmitReads, SubmitGivesUp
    <2> QED
      BY <1>4, <2>1, <2>2, <2>3, <2>4, <2>5 DEF Routes
  <1>5. CASE Apply
    <2>1. CASE WriteWait
      BY <1>1, <2>1 DEF WriteWait
    <2>2. CASE \E n \in timers : TimerFires(n)
      BY <1>2, <2>2 DEF TimerFires, ghostVars
    <2>3. CASE ApplyFailed
      BY <1>1, <2>3 DEF ApplyFailed
    <2> QED
      BY <1>2, <1>5, <2>1, <2>2, <2>3
         DEF Apply, WriteTexts, ReleaseHeld, ApplyTurn, ApplyAck, ApplyRow, ApplyEnds, ghostVars
  <1>6. CASE Mod
    BY <1>2, <1>6
       DEF Mod, Poll, TakeForSteer, AttachContext, TakeMisses, RunPrompt, RefusePrompt,
           RunAbort, ghostVars
  <1>7. CASE Claude \/ UNCHANGED vars
    BY <1>2, <1>7 DEF Claude, StoreRow, StartTurn, DropPrompt, EndTurn, ghostVars, vars
  <1> QED
    BY <1>3, <1>4, <1>5, <1>6, <1>7 DEF Next

LEMMA WaitInit == ASSUME Init PROVE WaitInv
  BY SortedEmpty DEF Init, NoStop, WaitInv

\* A step that adds nothing to the lists, what was offered or sent to wait.
LEMMA WaitKeeps ==
    ASSUME TypeOK, WaitInv, [Next]_vars, UNCHANGED <<asWait, offered, putBack>>,
           ToSet(stop'.took) \subseteq ToSet(stop.took),
           ToSet(waiting') \subseteq ToSet(waiting), ToSet(held') \subseteq ToSet(held),
           cont' = "returned" => \/ cont = "returned" /\ out' = out
                                 \/ ToSet(out') \subseteq ToSet(held) \cup ToSet(waiting)
    PROVE  WaitInv'
  <1>1. \A p \in asWait \cup offered \cup ToSet(held) \cup ToSet(stop.took) : told'[p] # "unsent"
    <2>1. \A p \in asWait \cup offered \cup ToSet(held) \cup ToSet(stop.took) : p \in Prompt
      BY DEF TypeOK, GhostType, ListType, StopType, ToSet
    <2> QED
      BY <2>1, Asked DEF WaitInv
  <1>2. cont' = "returned" => ToSet(out') \cap offered' \subseteq putBack'
    BY DEF WaitInv
  <1> QED
    BY <1>1, <1>2 DEF WaitInv

LEMMA WaitHold ==
    ASSUME TypeOK, WaitInv, NEW p \in Prompt, NEW w \in BOOLEAN, Hold(p, w), [Next]_vars
    PROVE  WaitInv'
  <1> ListType /\ GhostType /\ StopType
    BY DEF TypeOK
  <1>1. /\ told[p] = "unsent" /\ told'[p] # "unsent"
        /\ UNCHANGED <<stop, offered, putBack>> /\ cont' = "held"
        /\ asWait' = IF w THEN asWait \cup {p} ELSE asWait
    BY DEF Hold, Keep, Tell
  <1>2. p \notin asWait \cup offered
    BY <1>1 DEF WaitInv
  <1>3. \A q \in asWait \cup offered \cup ToSet(held) \cup ToSet(stop.took) \cup {p} :
            told'[q] # "unsent"
    <2>1. \A q \in asWait \cup offered \cup ToSet(held) \cup ToSet(stop.took) : q \in Prompt
      BY DEF GhostType, ListType, StopType, ToSet
    <2> QED
      BY <1>1, <2>1, Asked DEF WaitInv
  <1>4. CASE w
    <2>1. asWait' = asWait \cup {p} /\ held' = held /\ waiting' = Append(waiting, p)
      BY <1>4 DEF Hold
    <2>2. ToSet(Append(waiting, p)) = ToSet(waiting) \cup {p}
      BY SetAppend DEF ListType
    <2>3. p \notin ToSet(held)
      BY <1>1 DEF WaitInv
    <2> QED
      BY <1>1, <1>2, <1>3, <2>1, <2>2, <2>3 DEF WaitInv
  <1>5. CASE ~w
    <2>1. asWait' = asWait /\ held' = Append(held, p) /\ waiting' = waiting
      BY <1>5 DEF Hold
    <2>2. ToSet(Append(held, p)) = ToSet(held) \cup {p}
      BY SetAppend DEF ListType
    <2> QED
      BY <1>1, <1>2, <1>3, <2>1, <2>2 DEF WaitInv
  <1> QED
    BY <1>4, <1>5

LEMMA WaitTaken ==
    ASSUME TypeOK, WaitInv, [Next]_vars,
           TakeHeld \/ ReleaseHeld \/ \E p \in Prompt : CancelHeld(p)
    PROVE  WaitInv'
  <1> ListType
    BY DEF TypeOK
  <1>1. UNCHANGED <<asWait, offered, putBack, stop>>
    BY DEF TakeHeld, ReleaseHeld, CancelHeld, ghostVars
  <1>2. CASE TakeHeld
    <2>1. held' = <<>> /\ waiting' = <<>> /\ out' = held \o waiting
      BY <1>2 DEF TakeHeld, Keep
    <2>2. ToSet(held \o waiting) = ToSet(held) \cup ToSet(waiting)
      BY SetConcat DEF ListType
    <2> QED
      BY <1>1, <2>1, <2>2, SortedEmpty, WaitKeeps
  <1>3. CASE ReleaseHeld
    <2>1. \/ UNCHANGED <<held, waiting, cont, out>>
          \/ held' = <<>> /\ waiting' = <<>> /\ cont' = "submit"
      BY <1>3 DEF ReleaseHeld, Keep, listVars
    <2> QED
      BY <1>1, <2>1, SortedEmpty, WaitKeeps
  <1>4. ASSUME NEW p \in Prompt, CancelHeld(p) PROVE WaitInv'
    <2>1. out' = <<p>> /\ ToSet(<<p>>) = {p}
      BY <1>4, SetOfFew DEF CancelHeld, Keep
    <2>2. /\ \A i \in DOMAIN held : ToSet(RemoveAt(held, i)) \subseteq ToSet(held)
          /\ \A i \in DOMAIN waiting : ToSet(RemoveAt(waiting, i)) \subseteq ToSet(waiting)
      BY RemoveWithin DEF ListType
    <2>3. CASE \E i \in DOMAIN held :
                  held[i] = p /\ held' = RemoveAt(held, i) /\ UNCHANGED waiting
      <3>1. p \in ToSet(held) /\ ToSet(held') \subseteq ToSet(held) /\ waiting' = waiting
        BY <2>2, <2>3 DEF ListType, ToSet
      <3> QED
        BY <1>1, <2>1, <3>1, WaitKeeps
    <2>4. CASE \E i \in DOMAIN waiting :
                  waiting[i] = p /\ waiting' = RemoveAt(waiting, i) /\ UNCHANGED held
      <3>1. p \in ToSet(waiting) /\ ToSet(waiting') \subseteq ToSet(waiting) /\ held' = held
        BY <2>2, <2>4 DEF ListType, ToSet
      <3> QED
        BY <1>1, <2>1, <3>1, WaitKeeps
    <2> QED
      BY <1>4, <2>3, <2>4 DEF CancelHeld
  <1> QED
    BY <1>2, <1>3, <1>4

LEMMA WaitTakeForSteer ==
    ASSUME TypeOK, Places, WaitInv, TakeForSteer, [Next]_vars PROVE WaitInv'
  <1> ListType /\ GhostType
    BY DEF TypeOK
  <1>1. /\ held' = <<>> /\ offered' = offered \cup ToSet(held) /\ told' = told
        /\ UNCHANGED <<asWait, putBack, waiting, stop, cont, out>>
    BY DEF TakeForSteer, lockVars
  \* The holder of applyMu took other prompts off the list than those the mod is handed.
  <1>2. cont = "returned" => ToSet(out) \cap ToSet(held) = {}
    <2>1. PICK at \in [Prompt -> Place] : Placed(at)
      BY DEF Places, PlaceInv
    <2>2. ToSet(held) \subseteq Prompt
      BY DEF ListType, ToSet
    <2> QED
      BY <2>1, <2>2 DEF Placed, ListAt, Taken
  <1> QED
    BY <1>1, <1>2, SortedEmpty DEF WaitInv

LEMMA WaitStop ==
    ASSUME TypeOK, Places, WaitInv, [Next]_vars,
           StopTakes \/ StopPlain \/ StopSends \/ StopSucceeds
    PROVE  WaitInv'
  <1> StopType /\ ListType
    BY DEF TypeOK
  <1>1. CASE StopTakes /\ Pending # <<>>
    <2>1. /\ UNCHANGED <<asWait, offered, putBack, told>> /\ stop'.took = Pending
          /\ steering' = <<>> /\ held' = <<>> /\ waiting' = <<>> /\ cont' = "stop"
      BY <1>1 DEF StopTakes, Keep, ghostVars
    <2>2. ToSet(Pending) = ToSet(steering) \cup ToSet(held) \cup ToSet(waiting)
      <3>1. steering \o held \in Seq(Prompt)
        BY DEF ListType
      <3>2. ToSet((steering \o held) \o waiting) = ToSet(steering \o held) \cup ToSet(waiting)
        BY ZenonT(30), <3>1, SetConcat DEF ListType
      <3> QED
        BY <3>2, SetConcat DEF ListType, Pending
    <2>3. ToSet(steering) \subseteq offered
      BY DEF Places, PlaceInv, OfferedInv
    <2> QED
      BY <2>1, <2>2, <2>3, SortedEmpty DEF WaitInv
  <1>2. CASE ~(StopTakes /\ Pending # <<>>)
    <2>1. /\ UNCHANGED <<asWait, offered, putBack, held, waiting, cont, out>>
          /\ stop'.took = stop.took \/ stop'.took = <<>>
      BY <1>2 DEF StopTakes, StopPlain, StopSends, StopSucceeds, NoStop, StopType, listVars,
                  lockVars, ghostVars
    <2> QED
      BY <2>1, WaitKeeps, SortedEmpty
  <1> QED
    BY <1>1, <1>2

\* A Stop that failed: what it took is held again, and noted as put back.
LEMMA WaitStopFails ==
    ASSUME TypeOK, WaitInv, StopFails PROVE WaitInv'
  <1> StopType /\ ListType
    BY DEF TypeOK
  <1>1. /\ UNCHANGED <<asWait, offered, told, steering, waiting>>
        /\ putBack' = putBack \cup (ToSet(stop.took) \cap (asWait \cup offered))
        /\ stop'.took = <<>>
    BY DEF StopFails, NoStop, listVars
  <1>2. /\ ToSet(held') = ToSet(stop.took) \cup ToSet(held)
        /\ cont' = "returned" => cont = "returned" /\ out' = out
    <2>1. CASE stop.took = <<>>
      BY <2>1, SortedEmpty DEF StopFails, listVars, lockVars
    <2>2. CASE stop.took # <<>>
      <3>1. held' = stop.took \o held /\ cont' = "release"
        BY <2>2 DEF StopFails, Keep
      <3> QED
        BY <3>1, SetConcat DEF StopType, ListType
    <2> QED
      BY <2>1, <2>2
  <1> QED
    BY <1>1, <1>2, SortedEmpty DEF WaitInv

LEMMA WaitNext ==
    ASSUME TypeOK, Places, WaitInv, [Next]_vars PROVE WaitInv'
  <1>1. CASE Person
    BY <1>1, WaitHold, WaitTaken, WaitStop, WaitKeeps
       DEF Person, HoldDeclines, StartPaneTurn, listVars, lockVars, ghostVars
  <1>2. CASE Routes
    BY <1>2, WaitStop, WaitStopFails, WaitKeeps
       DEF Routes, SendPrompt, PromptAccepted, PromptNotConfirmed, SubmitBatch, SubmitReads,
           SubmitGivesUp, listVars, lockVars, ghostVars
  <1>3. CASE Apply
    <2>1. CASE WriteWait
      <3>1. stop'.took = stop.took /\ cont' = "free"
        BY <2>1 DEF WriteWait, TypeOK, StopType
      <3> QED
        BY <2>1, <3>1, WaitKeeps DEF WriteWait, listVars
    <2>2. CASE ApplyRow
      <3>1. cont' = "batch" \/ UNCHANGED <<cont, out>>
        BY <2>2 DEF ApplyRow, Keep
      <3> QED
        BY <2>2, <3>1, WaitKeeps DEF ApplyRow
    <2>3. CASE ApplyFailed
      BY <2>3, WaitKeeps DEF ApplyFailed, listVars
    <2> QED
      BY <1>3, <2>1, <2>2, <2>3, WaitTaken, WaitKeeps
         DEF Apply, WriteTexts, TimerFires, ApplyTurn, ApplyAck, ApplyEnds,
             listVars, ghostVars
  <1>4. CASE Mod
    BY <1>4, WaitTakeForSteer, WaitKeeps
       DEF Mod, Poll, AttachContext, TakeMisses, RunPrompt, RefusePrompt, RunAbort,
           listVars, lockVars, ghostVars
  <1>5. CASE Claude
    BY <1>5, WaitKeeps
       DEF Claude, StoreRow, StartTurn, DropPrompt, EndTurn, listVars, lockVars, ghostVars
  <1>6. CASE UNCHANGED vars
    BY <1>6, WaitKeeps DEF vars, listVars, lockVars, ghostVars
  <1> QED
    BY <1>1, <1>2, <1>3, <1>4, <1>5, <1>6 DEF Next

LEMMA WaitHolds == Spec => []WaitInv
  <1>1. Init => WaitInv
    BY WaitInit
  <1>2. Places /\ WaitInv /\ [Next]_vars => WaitInv'
    BY WaitNext DEF Places
  <1> QED
    BY <1>1, <1>2, PlacesHold, PTL DEF Spec

\* Of the prompts sent to wait for the turn's end, only those a failed Stop put
\* among the held are ever handed to the mod at a tool boundary (takeForSteer
\* reads held alone, putBack fills it).
THEOREM WaitSteered == Spec => []WaitSteersAfterStop
  <1>1. WaitInv => WaitSteersAfterStop
    BY DEF WaitInv, WaitSteersAfterStop
  <1> QED
    BY <1>1, WaitHolds, PTL

\* What Up or a cancel hands back never reached Claude (handleUnqueue), whatever
\* the takes, the Stops and the releases did before, unless the mod was handed it
\* and a failed Stop held it again.
THEOREM HandedBackUnread == Spec => []TakenBackUnread
  <1>1. Places /\ WaitInv => TakenBackUnread
    <2> SUFFICES ASSUME Places, WaitInv, cont = "returned", NEW i \in DOMAIN out,
                        out[i] \notin putBack \cap offered
                 PROVE  reads[out[i]] = 0
      BY DEF TakenBackUnread
    <2>1. out[i] \in Prompt /\ out[i] \in Taken /\ out[i] \notin offered
      BY DEF Places, TypeOK, LockType, Taken, ToSet, WaitInv
    <2> QED
      BY <2>1 DEF Places, PlaceInv, Placed, ListAt, ReadAt
  <1> QED
    BY <1>1, WaitHolds, PlacesHold, PTL

-----------------------------------------------------------------------------
(* Confirming by count.  A row drops as many of the oldest steering        *)
(* prompts as it carried; these are the prompts it carried as long as each *)
(* take rides a tool result of the turn it was taken in.                   *)

\* No Stop comes, what a take hands over lands in the running turn, and no take is
\* served while the last turn's end waits to be applied.
SteeredStep ==
    /\ ~StopTakes /\ ~StopPlain /\ ~TakeMisses
    /\ TakeForSteer => \A i \in DOMAIN events : events[i].type # "turn_end"
AllSteered == [][SteeredStep]_vars

\* What was handed over and has not been read.
Riding == IF answer = <<>> THEN context ELSE answer

\* cut[i] of n prompts were carried by the rows ahead of the i-th event; all were,
\* once their turn ended.
Rows(evs, n, cut) ==
    /\ cut \in [1..(Len(evs) + 1) -> 0..n]
    /\ cut[1] = 0
    /\ \A i, j \in DOMAIN cut : i <= j => cut[i] <= cut[j]
    /\ \A i \in DOMAIN evs :
          /\ cut[i + 1] = IF evs[i].type = "row" THEN cut[i] + Len(evs[i].texts) ELSE cut[i]
          /\ evs[i].type = "turn_end" => cut[i] = n

\* The first l prompts steering were read, each once; the others ride.
Lined(l) ==
    /\ Len(steering) = l + Len(Riding)
    /\ \A j \in DOMAIN Riding : steering[l + j] = Riding[j]
    /\ \A j \in DOMAIN steering : reads[steering[j]] = IF j <= l THEN 1 ELSE 0

Cut ==
    \E cut \in [1..(Len(events) + 1) -> 0..Len(steering)] :
        Rows(events, Len(steering), cut) /\ Lined(cut[Len(events) + 1])

SteerInv ==
    /\ stop.at = "idle" /\ cont # "stop" /\ \A c \in cmds \cup inHand : c.op = "prompt"
    /\ putBack = {}
    /\ (\E i \in DOMAIN events : events[i].type = "turn_end") => Riding = <<>>
    /\ context = <<>> \/ answer = <<>>
    /\ ~turnOpen \/ ~known => steering = <<>>
    /\ \A i \in DOMAIN events : events[i].type = "level" => i = 1 /\ ~known
    /\ offered \subseteq ToSet(steering) \cup confirmed
    /\ \A p \in confirmed : reads[p] = 1
    /\ Cut

\* An event is posted behind the others: m prompts were carried once it is.
LEMMA RowsAppend ==
    ASSUME NEW evs \in Seq(Event), NEW n \in Nat, NEW cut, Rows(evs, n, cut),
           NEW e \in Event, NEW m \in 0..n,
           m = IF e.type = "row" THEN cut[Len(evs) + 1] + Len(e.texts) ELSE cut[Len(evs) + 1],
           e.type = "turn_end" => cut[Len(evs) + 1] = n,
           m >= cut[Len(evs) + 1]
    PROVE  \E cut2 : Rows(Append(evs, e), n, cut2) /\ cut2[Len(Append(evs, e)) + 1] = m
  <1> DEFINE k == Len(evs)
             evs2 == Append(evs, e)
             cut2 == [i \in 1..(k + 2) |-> IF i <= k + 1 THEN cut[i] ELSE m]
  <1>1. /\ k \in Nat /\ DOMAIN evs = 1..k /\ DOMAIN evs2 = 1..(k + 1) /\ Len(evs2) = k + 1
        /\ evs2[k + 1] = e /\ \A i \in 1..k : evs2[i] = evs[i]
    OBVIOUS
  <1>2. /\ cut \in [1..(k + 1) -> 0..n] /\ cut[1] = 0
        /\ \A i, j \in 1..(k + 1) : i <= j => cut[i] <= cut[j]
    BY DEF Rows
  <1>3. \A i \in 1..k :
            /\ cut[i + 1] = IF evs[i].type = "row" THEN cut[i] + Len(evs[i].texts) ELSE cut[i]
            /\ evs[i].type = "turn_end" => cut[i] = n
    BY <1>1 DEF Rows
  <1>4. /\ DOMAIN cut2 = 1..(k + 2) /\ cut2[k + 2] = m
        /\ \A i \in 1..(k + 1) : cut2[i] = cut[i]
    BY <1>1
  <1>5. cut2 \in [1..(k + 2) -> 0..n]
    BY <1>1, <1>2
  <1> HIDE DEF cut2, evs2, k
  <1>6. \A i, j \in 1..(k + 2) : i <= j => cut2[i] <= cut2[j]
    <2> SUFFICES ASSUME NEW i \in 1..(k + 2), NEW j \in 1..(k + 2), i <= j
                 PROVE  cut2[i] <= cut2[j]
      OBVIOUS
    <2>1. CASE j <= k + 1
      BY SMTT(20), <1>1, <1>2, <1>4, <2>1
    <2>2. CASE j = k + 2 /\ i <= k + 1
      <3>1. cut[i] <= cut[k + 1] /\ cut[i] \in Nat /\ cut[k + 1] \in Nat /\ m \in Nat
        BY <1>1, <1>2, <2>2
      <3> QED
        BY <1>1, <1>4, <2>2, <3>1 DEF k
    <2>3. CASE j = k + 2 /\ i = k + 2
      BY <1>4, <2>3
    <2> QED
      BY <1>1, <2>1, <2>2, <2>3
  <1>7. ASSUME NEW i \in 1..(k + 1)
        PROVE  /\ cut2[i + 1] = IF evs2[i].type = "row"
                                THEN cut2[i] + Len(evs2[i].texts) ELSE cut2[i]
               /\ evs2[i].type = "turn_end" => cut2[i] = n
    <2>1. CASE i \in 1..k
      <3>1. i \in 1..(k + 1) /\ i + 1 \in 1..(k + 1)
        BY <1>1, <2>1
      <3>2. evs2[i] = evs[i] /\ cut2[i] = cut[i] /\ cut2[i + 1] = cut[i + 1]
        BY <1>1, <1>4, <2>1, <3>1
      <3> QED
        BY <1>3, <2>1, <3>2
    <2>2. CASE i = k + 1
      <3>1. i + 1 = k + 2 /\ i \in 1..(k + 1)
        BY <1>1, <2>2
      <3>2. evs2[i] = e /\ cut2[i] = cut[k + 1] /\ cut2[i + 1] = m
        BY <1>1, <1>4, <2>2, <3>1
      <3> QED
        BY <3>2 DEF k
    <2> QED
      BY <1>1, <2>1, <2>2
  <1>8. k + 1 + 1 = k + 2 /\ 1 \in 1..(k + 1)
    BY <1>1
  <1>9. Rows(evs2, n, cut2)
    BY <1>1, <1>2, <1>4, <1>5, <1>6, <1>7, <1>8 DEF Rows
  <1> QED
    BY <1>1, <1>4, <1>8, <1>9 DEF evs2

\* The first event is applied, and with a row the prompts it carried are dropped.
LEMMA RowsTail ==
    ASSUME NEW evs \in Seq(Event), evs # <<>>, NEW n \in Nat, NEW cut, Rows(evs, n, cut)
    PROVE  /\ cut[2] \in 0..n /\ cut[Len(evs) + 1] \in cut[2]..n
           /\ cut[2] = IF evs[1].type = "row" THEN Len(evs[1].texts) ELSE 0
           /\ evs[1].type = "turn_end" => n = 0
           /\ \E cut2 : /\ Rows(Tail(evs), n - cut[2], cut2)
                        /\ cut2[Len(Tail(evs)) + 1] = cut[Len(evs) + 1] - cut[2]
  <1> DEFINE k == Len(evs)
             evs2 == Tail(evs)
             cut2 == [i \in 1..k |-> cut[i + 1] - cut[2]]
  <1>1. /\ k \in Nat \ {0} /\ DOMAIN evs = 1..k /\ DOMAIN evs2 = 1..(k - 1) /\ Len(evs2) = k - 1
        /\ \A i \in 1..(k - 1) : evs2[i] = evs[i + 1]
    OBVIOUS
  <1>2. /\ cut \in [1..(k + 1) -> 0..n] /\ cut[1] = 0
        /\ \A i, j \in 1..(k + 1) : i <= j => cut[i] <= cut[j]
    BY DEF Rows
  <1>3. \A i \in 1..k :
            /\ cut[i + 1] = IF evs[i].type = "row" THEN cut[i] + Len(evs[i].texts) ELSE cut[i]
            /\ evs[i].type = "turn_end" => cut[i] = n
    BY <1>1 DEF Rows
  <1> HIDE DEF evs2, k
  <1>4. \A i \in 1..k : i + 1 \in 1..(k + 1) /\ cut[i + 1] \in cut[2]..n /\ cut[2] \in 0..n
    <2> TAKE i \in 1..k
    <2>1. i + 1 \in 1..(k + 1) /\ 2 \in 1..(k + 1) /\ 2 <= i + 1
      BY <1>1
    <2>2. cut[2] <= cut[i + 1] /\ cut[i + 1] \in 0..n /\ cut[2] \in 0..n
      BY <1>2, <2>1
    <2> QED
      BY <2>1, <2>2
  <1>5. /\ cut[2] = IF evs[1].type = "row" THEN Len(evs[1].texts) ELSE 0
        /\ evs[1].type = "turn_end" => n = 0
    <2>1. 1 \in 1..k /\ 1 + 1 = 2
      BY <1>1
    <2>2. CASE evs[1].type = "row"
      <3>1. evs[1] \in Event
        BY <1>1, <2>1
      <3>2. Len(evs[1].texts) \in Nat
        BY <2>2, <3>1 DEF Event
      <3> QED
        BY <1>2, <1>3, <2>1, <2>2, <3>2
    <2> QED
      BY <1>2, <1>3, <2>1, <2>2
  <1>6. cut2 \in [1..k -> 0..(n - cut[2])]
    <2>1. \A i \in 1..k : cut[i + 1] - cut[2] \in 0..(n - cut[2])
      BY <1>4
    <2> QED
      BY <2>1
  <1>7. \A i \in 1..k : cut2[i] = cut[i + 1] - cut[2]
    OBVIOUS
  <1> HIDE DEF cut2
  <1>8. cut2[1] = 0
    BY <1>1, <1>4, <1>7
  <1>9. \A i, j \in 1..k : i <= j => cut2[i] <= cut2[j]
    <2> SUFFICES ASSUME NEW i \in 1..k, NEW j \in 1..k, i <= j PROVE cut2[i] <= cut2[j]
      OBVIOUS
    <2>1. cut[i + 1] <= cut[j + 1]
      BY <1>1, <1>2, <1>4
    <2>2. cut[i + 1] \in Int /\ cut[j + 1] \in Int /\ cut[2] \in Int
      BY <1>4
    <2> QED
      BY <1>7, <2>1, <2>2
  <1>10. ASSUME NEW i \in 1..(k - 1)
         PROVE  /\ cut2[i + 1] = IF evs2[i].type = "row"
                                 THEN cut2[i] + Len(evs2[i].texts) ELSE cut2[i]
                /\ evs2[i].type = "turn_end" => cut2[i] = n - cut[2]
    <2>1. i \in 1..k /\ i + 1 \in 1..k /\ evs2[i] = evs[i + 1]
      BY <1>1
    <2>2. cut2[i] = cut[i + 1] - cut[2] /\ cut2[i + 1] = cut[i + 1 + 1] - cut[2]
      BY <1>7, <2>1
    <2>3. cut[i + 1] \in Int /\ cut[2] \in Int
      BY <1>4, <2>1
    <2>4. /\ cut[i + 1 + 1] = IF evs[i + 1].type = "row"
                              THEN cut[i + 1] + Len(evs[i + 1].texts) ELSE cut[i + 1]
          /\ evs[i + 1].type = "turn_end" => cut[i + 1] = n
      BY <1>3, <2>1
    <2>5. evs[i + 1].type = "row" => Len(evs[i + 1].texts) \in Nat
      <3>1. evs[i + 1] \in Event
        BY <1>1, <2>1
      <3> QED
        BY <3>1 DEF Event
    <2> QED
      BY SMTT(20), <2>1, <2>2, <2>3, <2>4, <2>5
  <1>11. (k - 1) + 1 = k /\ k \in 1..k
    BY <1>1
  <1>12. Rows(evs2, n - cut[2], cut2)
    BY <1>1, <1>6, <1>8, <1>9, <1>10, <1>11 DEF Rows
  <1>13. cut2[Len(evs2) + 1] = cut[k + 1] - cut[2]
    BY <1>1, <1>7, <1>11
  <1> QED
    BY <1>4, <1>5, <1>11, <1>12, <1>13 DEF evs2, k

\* More is steered while no turn's end waits to be applied.
LEMMA RowsGrow ==
    ASSUME NEW evs \in Seq(Event), NEW n \in Nat, NEW cut, Rows(evs, n, cut),
           \A i \in DOMAIN evs : evs[i].type # "turn_end", NEW m \in Nat, n <= m
    PROVE  Rows(evs, m, cut)
  <1>1. cut \in [1..(Len(evs) + 1) -> 0..m]
    <2>1. \A i \in 0..n : i \in 0..m
      OBVIOUS
    <2> QED
      BY <2>1 DEF Rows
  <1> QED
    BY <1>1 DEF Rows

LEMMA SteerInit == ASSUME Init PROVE SteerInv
  <1>1. steering = <<>> /\ Riding = <<>> /\ Len(events) \in {0, 1}
    BY DEF Init, Riding
  <1> DEFINE cut == [i \in 1..(Len(events) + 1) |-> 0]
  <1>2. cut \in [1..(Len(events) + 1) -> 0..Len(steering)]
    BY <1>1
  <1>3. \A i \in DOMAIN events : i = 1 /\ events[i].type = "level" /\ ~known
    BY DEF Init
  <1>4. DOMAIN events = 1..Len(events)
    BY DEF Init
  <1>5. Rows(events, Len(steering), cut) /\ Lined(cut[Len(events) + 1])
    <2>1. \A i \in 1..(Len(events) + 1) : cut[i] = 0
      OBVIOUS
    <2>2. \A i \in DOMAIN events : i \in 1..(Len(events) + 1) /\ i + 1 \in 1..(Len(events) + 1)
      BY <1>1, <1>4
    <2>3. 1 \in 1..(Len(events) + 1) /\ Len(events) + 1 \in 1..(Len(events) + 1)
      BY <1>1
    <2> HIDE DEF cut
    <2> QED
      BY <1>1, <1>2, <1>3, <2>1, <2>2, <2>3 DEF Rows, Lined
  <1>6. Cut
    BY <1>2, <1>5 DEF Cut
  <1>7. ToSet(<<>>) = {}
    BY SortedEmpty
  <1> QED
    BY <1>1, <1>3, <1>6, <1>7 DEF Init, NoStop, SteerInv

\* A step that steers no more and confirms nothing, and posts at most an event that
\* is not a row.
LEMMA SteerKeeps ==
    ASSUME TypeOK, SteerInv,
           stop'.at = "idle", cont' # "stop", \A c \in cmds' \cup inHand' : c.op = "prompt",
           UNCHANGED <<steering, known, turnOpen, offered, confirmed, putBack>>,
           Riding' = Riding, context' = <<>> \/ answer' = <<>>,
           \A p \in ToSet(steering) \cup confirmed : reads'[p] = reads[p],
           \/ events' = events
           \/ \E e \in Event : /\ events' = Append(events, e)
                               /\ e.type \notin {"row", "level"}
                               /\ e.type = "turn_end" => Riding = <<>>
    PROVE  SteerInv'
  <1> events \in Seq(Event) /\ steering \in Seq(Prompt)
    BY DEF TypeOK, ModType, ListType
  <1>1. \A l : Lined(l) => Lined(l)'
    BY DEF Lined, ToSet
  <1>2. CASE events' = events
    <2>1. Cut'
      BY <1>1, <1>2 DEF Cut, SteerInv
    <2> QED
      BY <1>2, <2>1 DEF SteerInv
  <1>3. ASSUME NEW e \in Event, events' = Append(events, e), e.type \notin {"row", "level"},
               e.type = "turn_end" => Riding = <<>>
        PROVE  SteerInv'
    <2>1. PICK cut \in [1..(Len(events) + 1) -> 0..Len(steering)] :
                  Rows(events, Len(steering), cut) /\ Lined(cut[Len(events) + 1])
      BY DEF SteerInv, Cut
    <2>2. Len(events) \in Nat /\ Len(events) + 1 \in 1..(Len(events) + 1) /\ Len(steering) \in Nat
      OBVIOUS
    <2>3. PICK m \in 0..Len(steering) : m = cut[Len(events) + 1]
      BY <2>1, <2>2
    <2>4. Riding = <<>> => m = Len(steering)
      BY <2>1, <2>2, <2>3 DEF Lined
    <2>5. \E cut2 : Rows(Append(events, e), Len(steering), cut2)
                    /\ cut2[Len(Append(events, e)) + 1] = m
      BY <1>3, <2>1, <2>2, <2>3, <2>4, RowsAppend
    <2>6. Lined(m)'
      BY <1>1, <2>1, <2>3
    <2>7. Cut'
      BY <1>3, <2>5, <2>6 DEF Cut, Rows
    <2>8. \A i \in DOMAIN events' :
              \/ i \in DOMAIN events /\ events'[i] = events[i]
              \/ events'[i] = e
      BY <1>3
    <2> QED
      BY <1>3, <2>7, <2>8 DEF SteerInv
  <1> QED
    BY <1>2, <1>3

\* No two of the prompts steering are the same.
LEMMA SteeringOnce ==
    ASSUME Places
    PROVE  \A i, j \in DOMAIN steering : steering[i] = steering[j] => i = j
  BY DEF Places, PlaceInv, OnceEach, IsInjective

\* A prompt elsewhere on its way to Claude is neither steering nor confirmed.
LEMMA NotSteering ==
    ASSUME Places, NEW p \in ToSet(steering) \cup confirmed
    PROVE  /\ p \in Prompt
           /\ p \notin ToSet(held) \cup ToSet(claudeQ)
           /\ \A c \in inHand : c.op = "prompt" => c.text # p
  <1>1. PICK at \in [Prompt -> Place] : Placed(at)
    BY DEF Places, PlaceInv
  <1>2. p \in Prompt
    BY DEF Places, TypeOK, ListType, GhostType, ToSet
  <1>3. at[p] \in {"steering", "gone"}
    BY <1>1, <1>2 DEF Placed, ListAt, ToldAt
  <1> QED
    BY <1>1, <1>2, <1>3 DEF Placed, ListAt, CmdPlaces

LEMMA SteeringApart == ASSUME Places PROVE ToSet(steering) \cap confirmed = {}
  <1>1. PICK at \in [Prompt -> Place] : Placed(at)
    BY DEF Places, PlaceInv
  <1>2. confirmed \subseteq Prompt
    BY DEF Places, TypeOK, GhostType
  <1> QED
    BY <1>1, <1>2 DEF Placed, ListAt, ToldAt

\* Claude stores the row: what rode on the tool result is read.
LEMMA SteerStoreRow ==
    ASSUME TypeOK, Places, SteerInv, StoreRow PROVE SteerInv'
  <1> /\ events \in Seq(Event) /\ steering \in Seq(Prompt) /\ context \in Seq(Prompt)
      /\ reads \in [Prompt -> Nat]
    BY DEF TypeOK, ModType, ListType, ClaudeType, GhostType
  <1>1. /\ context # <<>> /\ answer = <<>> /\ Riding = context /\ Riding' = <<>>
        /\ context' = <<>> /\ answer' = answer
        /\ UNCHANGED <<steering, stop, cont, cmds, inHand, known, turnOpen, offered, confirmed,
                       putBack>>
        /\ reads' = [p \in Prompt |-> IF p \in ToSet(context) THEN reads[p] + 1 ELSE reads[p]]
    BY DEF StoreRow, Riding, SteerInv, Reads
  <1> DEFINE e == [type |-> "row", texts |-> context]
  <1>2. /\ e \in Event /\ e.type = "row" /\ e.texts = context /\ events' = Append(events, e)
    BY DEF StoreRow, Event
  <1>3. PICK cut \in [1..(Len(events) + 1) -> 0..Len(steering)] :
                Rows(events, Len(steering), cut) /\ Lined(cut[Len(events) + 1])
    BY DEF SteerInv, Cut
  <1>4. /\ Len(events) \in Nat /\ Len(events) + 1 \in 1..(Len(events) + 1)
        /\ Len(steering) \in Nat /\ Len(context) \in Nat \ {0}
    BY <1>1
  <1>5. PICK l \in 0..Len(steering) : l = cut[Len(events) + 1]
    BY <1>3, <1>4
  <1>6. /\ Len(steering) = l + Len(context)
        /\ \A j \in DOMAIN context : steering[l + j] = context[j]
        /\ \A j \in DOMAIN steering : reads[steering[j]] = IF j <= l THEN 1 ELSE 0
    BY <1>1, <1>3, <1>5 DEF Lined
  <1> HIDE DEF e
  <1>7. \E cut2 : Rows(Append(events, e), Len(steering), cut2)
                  /\ cut2[Len(Append(events, e)) + 1] = Len(steering)
    <2>1. Len(steering) \in 0..Len(steering) /\ Len(steering) >= l /\ e.type # "turn_end"
      BY <1>2, <1>4, <1>5
    <2>2. Len(steering) = IF e.type = "row"
                          THEN cut[Len(events) + 1] + Len(e.texts) ELSE cut[Len(events) + 1]
      BY <1>2, <1>5, <1>6
    <2>3. e \in Event /\ Rows(events, Len(steering), cut) /\ Len(steering) \in Nat
      BY <1>2, <1>3, <1>4
    <2>4. Len(steering) >= cut[Len(events) + 1]
      BY <1>5, <2>1
    <2> QED
      BY <2>1, <2>2, <2>3, <2>4, RowsAppend
  <1>8. \A j \in DOMAIN steering : reads'[steering[j]] = 1
    <2> TAKE j \in DOMAIN steering
    <2>1. steering[j] \in Prompt
      OBVIOUS
    <2>2. CASE j <= l
      <3>1. \A i \in DOMAIN context : l + i \in DOMAIN steering /\ l + i # j
        BY SMTT(20), <1>4, <1>6, <2>2
      <3>2. steering[j] \notin ToSet(context)
        BY <1>6, <3>1, SteeringOnce DEF ToSet
      <3>3. reads[steering[j]] = 1
        BY <1>6, <2>2
      <3>4. reads'[steering[j]] = reads[steering[j]]
        BY <1>1, <2>1, <3>2
      <3> QED
        BY <3>3, <3>4
    <2>3. CASE ~(j <= l)
      <3>1. j - l \in DOMAIN context /\ l + (j - l) = j
        BY <1>4, <1>6, <2>3
      <3>2. steering[j] \in ToSet(context)
        BY <1>6, <3>1 DEF ToSet
      <3>3. reads[steering[j]] = 0
        BY <1>6, <2>3
      <3>4. reads'[steering[j]] = reads[steering[j]] + 1
        BY <1>1, <2>1, <3>2
      <3> QED
        BY <3>3, <3>4
    <2> QED
      BY <2>2, <2>3
  <1>9. Lined(Len(steering))'
    <2>1. \A j \in DOMAIN steering : j <= Len(steering)
      OBVIOUS
    <2>2. Len(Riding') = 0 /\ DOMAIN Riding' = {} /\ Len(steering) = Len(steering) + 0
      BY <1>1, <1>4
    <2> QED
      BY <1>1, <1>4, <1>8, <2>1, <2>2 DEF Lined
  <1>10. Cut'
    BY <1>1, <1>2, <1>7, <1>9 DEF Cut, Rows
  <1>11. \A p \in confirmed : reads'[p] = reads[p]
    <2>1. ToSet(context) \subseteq ToSet(steering)
      <3>1. \A j \in DOMAIN context : l + j \in DOMAIN steering
        BY SMTT(20), <1>4, <1>6
      <3> QED
        BY <1>6, <3>1 DEF ToSet
    <2>2. ToSet(steering) \cap confirmed = {}
      BY SteeringApart
    <2>3. confirmed \subseteq Prompt
      BY DEF TypeOK, GhostType
    <2> QED
      BY <1>1, <2>1, <2>2, <2>3
  <1>12. \A i \in DOMAIN events' :
             \/ i \in DOMAIN events /\ events'[i] = events[i]
             \/ events'[i] = e
    BY <1>2
  <1> QED
    BY <1>1, <1>2, <1>10, <1>11, <1>12 DEF SteerInv

\* The mod is handed what is held: nothing of it was read.
LEMMA SteerTake ==
    ASSUME TypeOK, Places, WaitInv, SteerInv, TakeForSteer, SteeredStep PROVE SteerInv'
  <1> /\ events \in Seq(Event) /\ steering \in Seq(Prompt) /\ held \in Seq(Prompt)
    BY DEF TypeOK, ModType, ListType
  <1>1. /\ answer = <<>> /\ context = <<>> /\ Riding = <<>> /\ Riding' = held
        /\ context' = <<>> /\ answer' = held /\ steering' = steering \o held
        /\ offered' = offered \cup ToSet(held) /\ known /\ turnOpen
        /\ UNCHANGED <<stop, cont, cmds, inHand, known, turnOpen, confirmed, events, reads,
                       putBack>>
        /\ \A i \in DOMAIN events : events[i].type # "turn_end"
    BY DEF TakeForSteer, Riding, SteeredStep, lockVars
  <1>2. PICK cut \in [1..(Len(events) + 1) -> 0..Len(steering)] :
                Rows(events, Len(steering), cut) /\ Lined(cut[Len(events) + 1])
    BY DEF SteerInv, Cut
  <1>3. /\ Len(events) \in Nat /\ Len(events) + 1 \in 1..(Len(events) + 1)
        /\ Len(steering) \in Nat /\ Len(held) \in Nat
    OBVIOUS
  <1>4. PICK l \in 0..Len(steering) : l = cut[Len(events) + 1]
    BY <1>2, <1>3
  <1>5. l = Len(steering) /\ \A j \in DOMAIN steering : reads[steering[j]] = 1
    <2>1. Len(steering) = l
      BY <1>1, <1>2, <1>3, <1>4 DEF Lined
    <2>2. \A j \in DOMAIN steering : j <= l
      BY <2>1
    <2> QED
      BY <1>2, <1>4, <2>1, <2>2 DEF Lined
  <1>6. \A p \in ToSet(held) : reads[p] = 0
    <2>1. PICK at \in [Prompt -> Place] : Placed(at)
      BY DEF Places, PlaceInv
    <2>2. \A p \in ToSet(held) : p \in Prompt /\ p \notin offered
      BY DEF WaitInv, SteerInv, ToSet
    <2> QED
      BY <2>1, <2>2 DEF Placed, ListAt, ReadAt
  <1>7. /\ Len(steering') = l + Len(held) /\ Len(steering') \in Nat
        /\ DOMAIN steering' = 1..(l + Len(held))
        /\ \A j \in DOMAIN steering : steering'[j] = steering[j]
        /\ \A j \in DOMAIN held : steering'[l + j] = held[j]
    BY <1>1, <1>3, <1>5
  <1>8. Lined(l)'
    <2>1. ASSUME NEW j \in DOMAIN steering'
          PROVE  reads[steering'[j]] = IF j <= l THEN 1 ELSE 0
      <3>1. CASE j <= l
        <4>1. j \in DOMAIN steering
          BY <1>3, <1>5, <1>7, <3>1
        <4> QED
          BY <1>5, <1>7, <3>1, <4>1
      <3>2. CASE ~(j <= l)
        <4>1. j - l \in DOMAIN held /\ l + (j - l) = j
          BY <1>3, <1>5, <1>7, <3>2
        <4>2. steering'[j] \in ToSet(held)
          BY <1>7, <4>1 DEF ToSet
        <4> QED
          BY <1>6, <3>2, <4>2
      <3> QED
        BY <3>1, <3>2
    <2> QED
      BY <1>1, <1>7, <2>1 DEF Lined
  <1>9. Rows(events, Len(steering'), cut)
    <2>1. Len(steering) <= Len(steering')
      BY <1>3, <1>5, <1>7
    <2> QED
      BY <1>1, <1>2, <1>3, <1>7, <2>1, RowsGrow
  <1>10. Cut'
    BY <1>1, <1>4, <1>8, <1>9 DEF Cut, Rows
  <1>11. ToSet(steering') = ToSet(steering) \cup ToSet(held)
    BY <1>1, SetConcat
  <1> QED
    BY <1>1, <1>10, <1>11 DEF SteerInv

\* What the events ahead say of those that are left.
LEMMA SteerLeft ==
    ASSUME TypeOK, SteerInv, events # <<>>, events' = Tail(events)
    PROVE  /\ \A i \in DOMAIN events' : events'[i].type # "level"
           /\ (\E i \in DOMAIN events' : events'[i].type = "turn_end") => Riding = <<>>
  <1>1. events \in Seq(Event)
    BY DEF TypeOK, ModType
  <1>2. \A i \in DOMAIN events' :
            i \in Nat /\ i + 1 \in DOMAIN events /\ i + 1 # 1 /\ events'[i] = events[i + 1]
    BY <1>1
  <1> QED
    BY <1>2 DEF SteerInv

\* An event that is not a row takes nothing off the prompts steering.
LEMMA CutTail ==
    ASSUME TypeOK, SteerInv, events # <<>>, events' = Tail(events), events[1].type # "row",
           UNCHANGED <<steering, context, answer, reads>>
    PROVE  Cut' /\ (events[1].type = "turn_end" => steering = <<>>)
  <1> events \in Seq(Event) /\ steering \in Seq(Prompt)
    BY DEF TypeOK, ModType, ListType
  <1>1. PICK cut \in [1..(Len(events) + 1) -> 0..Len(steering)] :
                Rows(events, Len(steering), cut) /\ Lined(cut[Len(events) + 1])
    BY DEF SteerInv, Cut
  <1>2. Len(events) \in Nat /\ Len(events) + 1 \in 1..(Len(events) + 1) /\ Len(steering) \in Nat
    OBVIOUS
  <1>3. PICK l \in 0..Len(steering) : l = cut[Len(events) + 1]
    BY <1>1, <1>2
  <1>4. /\ cut[2] = 0
        /\ events[1].type = "turn_end" => Len(steering) = 0
        /\ \E cut2 : /\ Rows(Tail(events), Len(steering) - cut[2], cut2)
                     /\ cut2[Len(Tail(events)) + 1] = cut[Len(events) + 1] - cut[2]
    BY <1>1, <1>2, RowsTail
  <1>5. Len(steering) - cut[2] = Len(steering) /\ cut[Len(events) + 1] - cut[2] = l
    BY <1>2, <1>3, <1>4
  <1>6. Lined(l)'
    BY <1>1, <1>3 DEF Lined, Riding
  <1>7. Cut'
    BY <1>4, <1>5, <1>6 DEF Cut, Rows
  <1> QED
    BY <1>4, <1>7

LEMMA SteerApplyTurn ==
    ASSUME TypeOK, SteerInv, ApplyTurn PROVE SteerInv'
  <1>1. /\ events # <<>> /\ events' = Tail(events) /\ Head(events) = events[1]
        /\ UNCHANGED <<steering, stop, cont, cmds, inHand, offered, confirmed, context, answer,
                       reads, putBack>>
    <2>1. events # <<>> /\ events' = Tail(events)
      BY DEF ApplyTurn, TakeEvent
    <2>2. Head(events) = events[1]
      BY <2>1 DEF TypeOK, ModType
    <2> QED
      BY <2>1, <2>2 DEF ApplyTurn
  <1>2. \/ events[1].type = "turn_start" /\ turnOpen' = TRUE /\ known' = known
        \/ events[1].type = "turn_end" /\ turnOpen' = FALSE /\ known' = known
        \/ events[1].type = "level" /\ known' = TRUE
    BY <1>1 DEF ApplyTurn, TakeEvent, Fold
  <1>3. Cut' /\ (events[1].type = "turn_end" => steering = <<>>)
    BY <1>1, <1>2, CutTail
  <1>4. 1 \in DOMAIN events
    BY <1>1 DEF TypeOK, ModType
  <1>5. ~turnOpen' \/ ~known' => steering = <<>>
    BY <1>2, <1>3, <1>4 DEF SteerInv
  <1>6. Riding' = Riding
    BY <1>1 DEF Riding
  <1> QED
    BY <1>1, <1>3, <1>5, <1>6, SteerLeft DEF SteerInv

LEMMA SteerApplyAck ==
    ASSUME TypeOK, SteerInv, ApplyAck \/ ApplyFailed PROVE SteerInv'
  <1>1. /\ events # <<>> /\ events' = Tail(events) /\ Head(events) = events[1]
        /\ UNCHANGED <<steering, stop, cont, cmds, inHand, offered, confirmed, context, answer,
                       reads, known, turnOpen, putBack>>
        /\ events[1].type # "row"
    BY DEF ApplyAck, ApplyFailed, TakeEvent, Fold, TypeOK, ModType
  <1>2. Cut'
    BY <1>1, CutTail
  <1>3. Riding' = Riding
    BY <1>1 DEF Riding
  <1> QED
    BY <1>1, <1>2, <1>3, SteerLeft DEF SteerInv

\* A list in two, by position.
LEMMA DropFirst ==
    ASSUME NEW s \in Seq(Prompt), NEW n \in 0..Len(s)
    PROVE  /\ Len(SubSeq(s, n + 1, Len(s))) = Len(s) - n
           /\ DOMAIN SubSeq(s, n + 1, Len(s)) = 1..(Len(s) - n)
           /\ \A j \in 1..(Len(s) - n) :
                 SubSeq(s, n + 1, Len(s))[j] = s[n + j] /\ n + j \in DOMAIN s
           /\ DOMAIN SubSeq(s, 1, n) = 1..n
           /\ \A j \in 1..n : SubSeq(s, 1, n)[j] = s[j] /\ j \in DOMAIN s
  <1> DEFINE t == SubSeq(s, n + 1, Len(s))
  <1>1. /\ Len(t) = Len(s) - n /\ DOMAIN t = 1..(Len(s) - n)
        /\ \A j \in 1..(Len(s) - n) : n + j \in DOMAIN s
    OBVIOUS
  <1>2. \A j \in 1..(Len(s) - n) : t[j] = s[n + j]
    OBVIOUS
  <1>3. DOMAIN SubSeq(s, 1, n) = 1..n /\ \A j \in 1..n : SubSeq(s, 1, n)[j] = s[j] /\ j \in DOMAIN s
    OBVIOUS
  <1> QED
    BY <1>1, <1>2, <1>3

\* A row is applied: what is dropped as delivered is what it carried.
LEMMA SteerApplyRow ==
    ASSUME TypeOK, SteerInv, ApplyRow PROVE SteerInv'
  <1> events \in Seq(Event) /\ steering \in Seq(Prompt)
    BY DEF TypeOK, ModType, ListType
  <1>1. PICK cut \in [1..(Len(events) + 1) -> 0..Len(steering)] :
                Rows(events, Len(steering), cut) /\ Lined(cut[Len(events) + 1])
    BY DEF SteerInv, Cut
  <1>2. /\ events # <<>> /\ events' = Tail(events) /\ Head(events) = events[1]
        /\ UNCHANGED <<stop, cmds, inHand, offered, context, answer, reads, known, turnOpen, putBack>>
        /\ events[1].type = "row"
    BY DEF ApplyRow, TakeEvent, Fold
  <1>3. Len(events) \in Nat /\ Len(events) + 1 \in 1..(Len(events) + 1) /\ Len(steering) \in Nat
    OBVIOUS
  <1>4. PICK l \in 0..Len(steering) : l = cut[Len(events) + 1]
    BY <1>1, <1>3
  <1>5. /\ cut[2] \in 0..Len(steering) /\ cut[Len(events) + 1] \in cut[2]..Len(steering)
        /\ cut[2] = Len(events[1].texts)
        /\ \E cut2 : /\ Rows(Tail(events), Len(steering) - cut[2], cut2)
                     /\ cut2[Len(Tail(events)) + 1] = cut[Len(events) + 1] - cut[2]
    BY <1>1, <1>2, <1>3, RowsTail
  <1>6. PICK n \in 0..Len(steering) : n = cut[2]
    BY <1>5
  <1>7. /\ steering' = SubSeq(steering, n + 1, Len(steering))
        /\ confirmed' = confirmed \cup ToSet(SubSeq(steering, 1, n))
        /\ cont' \in {cont, "batch"}
    <2>1. (IF Len(events[1].texts) < Len(steering) THEN Len(events[1].texts)
           ELSE Len(steering)) = n
      BY <1>3, <1>5, <1>6
    <2> QED
      BY <1>2, <2>1 DEF ApplyRow, Keep
  <1>8. /\ Len(steering') = Len(steering) - n
        /\ DOMAIN steering' = 1..(Len(steering) - n)
        /\ \A j \in DOMAIN steering' : steering'[j] = steering[n + j] /\ n + j \in DOMAIN steering
    <2>1. /\ Len(SubSeq(steering, n + 1, Len(steering))) = Len(steering) - n
          /\ DOMAIN SubSeq(steering, n + 1, Len(steering)) = 1..(Len(steering) - n)
          /\ \A j \in 1..(Len(steering) - n) :
                /\ SubSeq(steering, n + 1, Len(steering))[j] = steering[n + j]
                /\ n + j \in DOMAIN steering
      BY ZenonT(30), <1>6, DropFirst
    <2>2. steering' = SubSeq(steering, n + 1, Len(steering))
      BY <1>7
    <2> QED
      BY <2>1, <2>2
  <1>9. n <= l
    BY <1>4, <1>5, <1>6
  <1>10. /\ Len(steering) = l + Len(Riding)
         /\ \A j \in DOMAIN Riding : steering[l + j] = Riding[j]
         /\ \A j \in DOMAIN steering : reads[steering[j]] = IF j <= l THEN 1 ELSE 0
    BY <1>1, <1>4 DEF Lined
  <1>11. Riding' = Riding /\ Riding \in Seq(Prompt)
    BY <1>2 DEF Riding, TypeOK, ModType, ClaudeType
  <1>12. PICK m \in 0..(Len(steering) - n) : m = l - n
    BY <1>3, <1>6, <1>9
  <1>13. Lined(m)'
    <2>1. Len(steering') = m + Len(Riding')
      BY <1>3, <1>8, <1>10, <1>11, <1>12
    <2>2. \A j \in DOMAIN Riding' : steering'[m + j] = Riding'[j]
      <3> TAKE j \in DOMAIN Riding'
      <3>1. m + j \in DOMAIN steering' /\ n + (m + j) = l + j
        BY <1>3, <1>8, <1>10, <1>11, <1>12
      <3> QED
        BY <1>8, <1>10, <1>11, <3>1
    <2>3. \A j \in DOMAIN steering' : reads[steering'[j]] = IF j <= m THEN 1 ELSE 0
      <3> TAKE j \in DOMAIN steering'
      <3>1. n + j <= l <=> j <= m
        BY <1>3, <1>8, <1>12
      <3> QED
        BY <1>8, <1>10, <3>1
    <2> QED
      BY <1>2, <2>1, <2>2, <2>3 DEF Lined
  <1>14. Cut'
    <2>1. PICK cut2 : Rows(events', Len(steering'), cut2) /\ cut2[Len(events') + 1] = m
      BY <1>2, <1>4, <1>5, <1>6, <1>8, <1>12
    <2> QED
      BY <1>13, <2>1 DEF Cut, Rows
  <1>15. /\ ToSet(steering) = ToSet(SubSeq(steering, 1, n)) \cup ToSet(steering')
         /\ \A p \in ToSet(SubSeq(steering, 1, n)) : reads[p] = 1
    <2> DEFINE s == SubSeq(steering, 1, n)
    <2>1. DOMAIN s = 1..n /\ \A j \in 1..n : s[j] = steering[j] /\ j \in DOMAIN steering
      BY <1>6, DropFirst
    <2> HIDE DEF s
    <2>2. \A j \in DOMAIN s : j <= l
      BY <1>6, <1>9, <2>1
    <2>3. ASSUME NEW j \in DOMAIN steering
          PROVE  j \in DOMAIN s \/ (j - n \in DOMAIN steering' /\ n + (j - n) = j)
      BY SMTT(20), <1>3, <1>6, <1>8, <2>1
    <2>4. \A p \in ToSet(s) : reads[p] = 1
      BY <1>10, <2>1, <2>2 DEF ToSet
    <2>5. ToSet(steering) = ToSet(s) \cup ToSet(steering')
      BY <1>8, <2>1, <2>3 DEF ToSet
    <2> QED
      BY <2>4, <2>5 DEF s
  <1>16. ~turnOpen \/ ~known => steering' = <<>>
    <2>1. steering = <<>> => steering' = <<>>
      BY <1>3, <1>7, <1>8
    <2> QED
      BY <2>1 DEF SteerInv
  <1> QED
    BY <1>2, <1>7, <1>11, <1>14, <1>15, <1>16, SteerLeft DEF SteerInv

\* The mod runs a prompt, Claude starts or ends a turn: at most an event more.
LEMMA SteerPosts ==
    ASSUME TypeOK, Places, SteerInv,
           \/ \E cmd \in inHand : RunPrompt(cmd) \/ RefusePrompt(cmd)
           \/ StartTurn \/ DropPrompt \/ StartPaneTurn \/ EndTurn \/ AttachContext
    PROVE  SteerInv'
  <1>1. /\ UNCHANGED <<stop, cont, cmds, steering, known, turnOpen, offered, confirmed, putBack>>
        /\ inHand' \subseteq inHand
    BY DEF RunPrompt, RefusePrompt, RunOne, StartTurn, DropPrompt, StartPaneTurn, EndTurn,
           AttachContext
  <1>2. context' = <<>> \/ answer' = <<>>
    BY DEF RunPrompt, RefusePrompt, StartTurn, DropPrompt, StartPaneTurn, EndTurn,
           AttachContext, SteerInv
  <1>3. Riding' = Riding
    <2>1. CASE AttachContext
      BY <2>1 DEF AttachContext, Riding, SteerInv
    <2>2. CASE ~AttachContext
      <3>1. UNCHANGED <<context, answer>>
        BY <2>2 DEF RunPrompt, RefusePrompt, StartTurn, DropPrompt, StartPaneTurn, EndTurn
      <3> QED
        BY <3>1 DEF Riding
    <2> QED
      BY <2>1, <2>2
  <1>4. ASSUME NEW p \in ToSet(steering) \cup confirmed PROVE reads'[p] = reads[p]
    <2>1. /\ p \in Prompt /\ p \notin ToSet(claudeQ)
          /\ \A c \in inHand : c.op = "prompt" => c.text # p
      BY NotSteering
    <2>2. reads \in [Prompt -> Nat]
      BY DEF TypeOK, GhostType
    <2>3. CASE \E cmd \in inHand : RunPrompt(cmd)
      BY <2>1, <2>2, <2>3 DEF RunPrompt
    <2>4. CASE StartTurn
      BY <2>1, <2>4 DEF StartTurn, Reads
    <2> QED
      BY <2>3, <2>4 DEF RefusePrompt, DropPrompt, StartPaneTurn, EndTurn, AttachContext
  <1>5. \/ events' = events
        \/ \E e \in Event : /\ events' = Append(events, e)
                            /\ e.type \notin {"row", "level"}
                            /\ e.type = "turn_end" => Riding = <<>>
    <2>1. \A c \in Command, ok \in BOOLEAN : Ack(c, ok) \in Event /\ Ack(c, ok).type = "ack"
      BY DEF Ack, Event
    <2>2. [type |-> "turn_start"] \in Event /\ [type |-> "turn_end"] \in Event
      BY DEF Event
    <2>3. inHand \subseteq Command
      BY DEF TypeOK, ModType
    <2>4. CASE \E cmd \in inHand : RunPrompt(cmd) \/ RefusePrompt(cmd)
      <3>1. PICK cmd \in inHand, ok \in BOOLEAN : events' = Append(events, Ack(cmd, ok))
        BY <2>4 DEF RunPrompt, RefusePrompt
      <3> QED
        BY <2>1, <2>3, <3>1
    <2>5. CASE StartTurn \/ StartPaneTurn
      <3>1. events' = Append(events, [type |-> "turn_start"])
        BY <2>5 DEF StartTurn, StartPaneTurn
      <3> QED
        BY <2>2, <3>1
    <2>6. CASE EndTurn
      <3>1. events' = Append(events, [type |-> "turn_end"]) /\ Riding = <<>>
        BY <2>6 DEF EndTurn, Riding
      <3> QED
        BY <2>2, <3>1
    <2>7. CASE AttachContext
      BY <2>7 DEF AttachContext
    <2>8. CASE DropPrompt
      <3>1. claudeQ \in Seq(Prompt)
        BY DEF TypeOK, ClaudeType
      <3> QED
        BY <2>8, <3>1 DEF DropPrompt, Event
    <2> QED
      BY <2>4, <2>5, <2>6, <2>7, <2>8
  <1> QED
    BY <1>1, <1>2, <1>3, <1>4, <1>5, SteerKeeps DEF SteerInv

\* What neither the mod nor Claude nor the stream sees.
LEMMA SteerSame ==
    ASSUME TypeOK, SteerInv, stop'.at = "idle", cont' # "stop",
           \A c \in cmds' \cup inHand' : c.op = "prompt",
           UNCHANGED <<steering, known, turnOpen, offered, confirmed, context, answer, events,
                       reads, putBack>>
    PROVE  SteerInv'
  <1>1. Riding' = Riding
    BY DEF Riding
  <1> QED
    BY <1>1, SteerKeeps DEF SteerInv

LEMMA SteerNext ==
    ASSUME TypeOK, Places, WaitInv, SteerInv, [Next]_vars, [SteeredStep]_vars
    PROVE  SteerInv'
  <1>1. CASE Person
    <2>1. CASE \E p \in Prompt : Hold(p, TRUE) \/ Hold(p, FALSE)
      BY <2>1, SteerSame DEF Hold, Keep, SteerInv
    <2>2. CASE \E p \in Prompt : HoldDeclines(p) \/ CancelHeld(p)
      BY <2>2, SteerSame DEF HoldDeclines, CancelHeld, Keep, SteerInv
    <2>3. CASE TakeHeld
      BY <2>3, SteerSame DEF TakeHeld, Keep, SteerInv
    <2>4. CASE StopTakes \/ StopPlain
      <3>1. UNCHANGED vars
        BY <2>4 DEF SteeredStep
      <3> QED
        BY <3>1, SteerSame DEF vars, SteerInv
    <2> QED
      BY <1>1, <2>1, <2>2, <2>3, <2>4, SteerPosts DEF Person
  <1>2. CASE Routes
    <2>1. ASSUME NEW p \in Prompt, SendPrompt(p) PROVE SteerInv'
      <3>1. \A c \in cmds' : c \in cmds \/ c.op = "prompt"
        BY <2>1 DEF SendPrompt, PromptCmd
      <3> QED
        BY <2>1, <3>1, SteerSame DEF SendPrompt, SteerInv
    <2>2. ASSUME NEW p \in Prompt, PromptAccepted(p) \/ PromptNotConfirmed(p) PROVE SteerInv'
      <3>1. /\ cmds' \subseteq cmds
            /\ UNCHANGED <<stop, cont, inHand, steering, known, turnOpen, offered, confirmed,
                           context, answer, events, reads, putBack>>
        BY <2>2 DEF PromptAccepted, PromptNotConfirmed, Forget, StartingTurn
      <3> QED
        BY <3>1, SteerSame DEF SteerInv
    <2>3. ASSUME NEW b \in launched, SubmitBatch(b) PROVE SteerInv'
      <3>1. \A c \in cmds' : c \in cmds \/ c.op = "prompt"
        <4>1. b \in Seq(Prompt)
          BY DEF TypeOK, CmdType
        <4>2. cmds' = cmds \cup ToSet([i \in 1..Len(b) |-> PromptCmd(nextID + i, b[i])])
          BY <2>3 DEF SubmitBatch
        <4> QED
          BY <4>1, <4>2 DEF ToSet, PromptCmd
      <3> QED
        BY <2>3, <3>1, SteerSame DEF SubmitBatch, SteerInv
    <2>4. ASSUME NEW b \in submits, SubmitReads(b) \/ SubmitGivesUp(b) PROVE SteerInv'
      <3>1. /\ cmds' \subseteq cmds
            /\ UNCHANGED <<stop, cont, inHand, steering, known, turnOpen, offered, confirmed,
                           context, answer, events, reads, putBack>>
        BY <2>4 DEF SubmitReads, SubmitGivesUp, Forget
      <3> QED
        BY <3>1, SteerSame DEF SteerInv
    <2> QED
      BY <1>2, <2>1, <2>2, <2>3, <2>4
         DEF Routes, StopSends, StopSucceeds, StopFails, SteerInv
  <1>3. CASE Apply
    <2>1. CASE WriteTexts \/ WriteWait \/ ApplyEnds
      BY <2>1, SteerSame DEF WriteTexts, WriteWait, ApplyEnds, SteerInv
    <2>2. CASE ReleaseHeld
      <3>1. steering' = steering
        BY <2>2 DEF ReleaseHeld, TurnAhead, SteerInv
      <3>2. cont' # "stop"
        BY <2>2 DEF ReleaseHeld, Keep, SteerInv
      <3> QED
        BY <2>2, <3>1, <3>2, SteerSame DEF ReleaseHeld, SteerInv
    <2>3. ASSUME NEW n \in timers, TimerFires(n) PROVE SteerInv'
      BY <2>3, SteerSame DEF TimerFires, SteerInv
    <2> QED
      BY <1>3, <2>1, <2>2, <2>3, SteerApplyTurn, SteerApplyAck, SteerApplyRow DEF Apply
  <1>4. CASE Mod
    <2>1. CASE Poll
      BY <2>1, SteerSame DEF Poll, SteerInv
    <2>2. CASE TakeForSteer
      <3>1. CASE SteeredStep
        BY <2>2, <3>1, SteerTake
      <3>2. CASE UNCHANGED vars
        BY <3>2, SteerSame DEF vars, SteerInv
      <3> QED
        BY <3>1, <3>2
    <2>3. CASE TakeMisses
      <3>1. UNCHANGED vars
        BY <2>3 DEF SteeredStep
      <3> QED
        BY <3>1, SteerSame DEF vars, SteerInv
    <2>4. ASSUME NEW cmd \in inHand, RunAbort(cmd) PROVE SteerInv'
      BY <2>4 DEF RunAbort, SteerInv
    <2> QED
      BY <1>4, <2>1, <2>2, <2>3, <2>4, SteerPosts DEF Mod
  <1>5. CASE Claude
    BY <1>5, SteerStoreRow, SteerPosts DEF Claude
  <1>6. CASE UNCHANGED vars
    BY <1>6, SteerSame DEF vars, SteerInv
  <1> QED
    BY <1>1, <1>2, <1>3, <1>4, <1>5, <1>6 DEF Next

\* Both, as long as all that was taken is steered.
Steered == Places /\ WaitInv /\ SteerInv

LEMMA SteeredHolds == Spec /\ AllSteered => []Steered
  <1>1. Init => WaitInv /\ SteerInv
    BY WaitInit, SteerInit
  <1>2. Places /\ WaitInv /\ SteerInv /\ [Next]_vars /\ [SteeredStep]_vars =>
            WaitInv' /\ SteerInv'
    BY WaitNext, SteerNext DEF Places
  <1>3. Places /\ WaitInv /\ SteerInv => Steered
    BY DEF Steered
  <1> QED
    BY <1>1, <1>2, <1>3, PlacesHold, PTL DEF Spec, AllSteered

\* A prompt dropped as delivered was read (confirmSteered goes by count).
THEOREM ConfirmedRead == Spec /\ AllSteered => []ConfirmedWasRead
  <1>1. Steered => ConfirmedWasRead
    BY DEF Steered, SteerInv, ConfirmedWasRead
  <1> QED
    BY <1>1, SteeredHolds, PTL

\* Where each prompt is that was ever handed to the mod.
LEMMA OfferedRead ==
    ASSUME Steered, NEW p \in offered
    PROVE  reads[p] = 1 \/ (reads[p] = 0 /\ p \in ToSet(steering))
  <1>1. CASE p \in confirmed
    BY <1>1 DEF Steered, SteerInv
  <1>2. CASE p \in ToSet(steering)
    <2>1. PICK l : Lined(l)
      BY DEF Steered, SteerInv, Cut
    <2> QED
      BY <1>2, <2>1 DEF Lined, ToSet
  <1> QED
    BY <1>1, <1>2 DEF Steered, SteerInv

\* Claude reads no prompt twice: the turn's end sends none that was steered.
THEOREM ReadsOnce == Spec /\ AllSteered => []ReadOnce
  <1>1. Steered /\ (\A p \in Prompt \ offered : reads[p] <= 1) => ReadOnce
    BY OfferedRead DEF ReadOnce
  <1> QED
    BY <1>1, SteeredHolds, UnofferedReadOnce, PTL

\* No prompt the person was told is held is lost, steered ones too.
THEOREM NotLost == Spec /\ AllSteered => []HeldNotLost
  <1>1. ASSUME Steered, NEW p \in offered PROVE Accounted(p)
    <2>1. CASE p \in ToSet(steering)
      <3>1. ListType
        BY <1>1 DEF Steered, Places, TypeOK
      <3>2. ToSet(steering \o held) = ToSet(steering) \cup ToSet(held)
        BY <3>1, SetConcat DEF ListType
      <3>3. ToSet((steering \o held) \o waiting) = ToSet(steering \o held) \cup ToSet(waiting)
        <4>1. steering \o held \in Seq(Prompt) /\ waiting \in Seq(Prompt)
          BY <3>1 DEF ListType
        <4> QED
          BY ZenonT(30), <4>1, SetConcat
      <3> QED
        BY <2>1, <3>2, <3>3 DEF Accounted, Kept, Pending
    <2>2. CASE p \notin ToSet(steering)
      BY <1>1, <2>2, OfferedRead DEF Accounted
    <2> QED
      BY <2>1, <2>2
  <1>2. Steered /\ (\A p \in Prompt \ offered : Accounted(p)) => HeldNotLost
    BY <1>1 DEF HeldNotLost
  <1> QED
    BY <1>2, SteeredHolds, UnofferedKept, PTL

=============================================================================
