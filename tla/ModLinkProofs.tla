----------------------------- MODULE ModLinkProofs -----------------------------
(***************************************************************************)
(* What ModLink's runs check on small instances, proved for every scope.   *)
(***************************************************************************)
EXTENDS ModLink, FiniteSetTheorems, SequenceTheorems, TLAPS

-----------------------------------------------------------------------------
(* Sequences of events.                                                    *)

\* h takes the places of Kept(q, K) to those of q they are filled from.
Placed(q, K, h) ==
    /\ h \in [1..Cardinality(K) -> K]
    /\ \A i \in 1..Cardinality(K) : Kept(q, K)[i] = q[h[i]]
    /\ \A i, j \in 1..Cardinality(K) : i < j => h[i] < h[j]
    /\ \A k \in K : \E i \in 1..Cardinality(K) : h[i] = k

\* The places kept stand in a row, in their order.
LEMMA KeptPlaces ==
    ASSUME NEW n \in Nat, NEW K \in SUBSET (1..n), NEW q
    PROVE  Cardinality(K) \in Nat /\ \E h : Placed(q, K, h)
  <1> DEFINE Upto(k) == {j \in K : j <= k}
             c == Cardinality(K)
             rank == [k \in K |-> Cardinality(Upto(k))]
             h == [i \in 1..c |-> CHOOSE k \in K : Cardinality(Upto(k)) = i]
  <1>1. IsFiniteSet(K) /\ c \in Nat
    <2>1. IsFiniteSet(1..n)
      BY FS_Interval
    <2> QED BY <2>1, FS_Subset, FS_CardinalityType
  <1>2. \A k \in K : rank[k] \in 1..c
    <2> SUFFICES ASSUME NEW k \in K PROVE Cardinality(Upto(k)) \in 1..c
      OBVIOUS
    <2>1. IsFiniteSet(Upto(k)) /\ Cardinality(Upto(k)) <= c
      BY <1>1, FS_Subset, Upto(k) \in SUBSET K
    <2>2. k \in Upto(k)
      OBVIOUS
    <2>3. Cardinality(Upto(k)) # 0
      BY <2>1, <2>2, FS_EmptySet
    <2>4. Cardinality(Upto(k)) \in Nat
      BY <2>1, FS_CardinalityType
    <2> QED BY <1>1, <2>1, <2>3, <2>4
  <1>3. \A k, m \in K : k < m => rank[k] < rank[m]
    <2> SUFFICES ASSUME NEW k \in K, NEW m \in K, k < m
                 PROVE  Cardinality(Upto(k)) < Cardinality(Upto(m))
      OBVIOUS
    <2>1. IsFiniteSet(Upto(m))
      BY <1>1, FS_Subset, Upto(m) \in SUBSET K
    <2>2. Upto(k) \in SUBSET Upto(m)
      <3>1. \A j \in K : j <= k => j <= m
        OBVIOUS
      <3> QED BY <3>1
    <2>3. Upto(k) # Upto(m)
      <3>1. m \in Upto(m) /\ m \notin Upto(k)
        OBVIOUS
      <3> QED BY <3>1
    <2>4. IsFiniteSet(Upto(k)) /\ Cardinality(Upto(k)) <= Cardinality(Upto(m))
      BY <2>1, <2>2, FS_Subset
    <2>5. Cardinality(Upto(m)) # Cardinality(Upto(k))
      BY <2>1, <2>2, <2>3, FS_Subset
    <2>6. Cardinality(Upto(k)) \in Nat /\ Cardinality(Upto(m)) \in Nat
      BY <2>1, <2>4, FS_CardinalityType
    <2> HIDE DEF Upto
    <2> QED BY <2>4, <2>5, <2>6
  <1>4. \A k, m \in K : rank[k] = rank[m] => k = m
    <2> HIDE DEF rank
    <2> SUFFICES ASSUME NEW k \in K, NEW m \in K, k # m PROVE rank[k] # rank[m]
      OBVIOUS
    <2>1. rank[k] \in Nat /\ rank[m] \in Nat
      BY <1>1, <1>2
    <2>2. k < m \/ m < k
      OBVIOUS
    <2> QED BY <1>3, <2>1, <2>2
  <1>5. rank \in Injection(K, 1..c)
    BY <1>2, <1>4 DEF Injection, IsInjective
  <1>6. rank \in Surjection(K, 1..c)
    <2>1. IsFiniteSet(1..c) /\ Cardinality(1..c) = c
      BY <1>1, FS_Interval
    <2> QED BY <1>5, <2>1, FS_Injection
  <1>7. \A i \in 1..c : \E k \in K : Cardinality(Upto(k)) = i
    BY <1>6 DEF Surjection
  <1>8. \A i \in 1..c : h[i] \in K /\ rank[h[i]] = i
    BY <1>7
  <1>9. \A i \in 1..c : Kept(q, K)[i] = q[h[i]]
    BY DEF Kept
  <1> HIDE DEF rank, h
  <1>10. h \in [1..c -> K]
    BY <1>8 DEF h
  <1>11. \A i, j \in 1..c : i < j => h[i] < h[j]
    <2> SUFFICES ASSUME NEW i \in 1..c, NEW j \in 1..c, i < j PROVE h[i] < h[j]
      OBVIOUS
    <2>1. h[i] \in K /\ h[j] \in K /\ rank[h[i]] = i /\ rank[h[j]] = j
      BY <1>8
    <2>2. ~(h[j] < h[i])
      <3> SUFFICES ASSUME h[j] < h[i] PROVE FALSE
        OBVIOUS
      <3>1. rank[h[j]] < rank[h[i]]
        BY <1>3, <2>1
      <3> QED BY <1>1, <2>1, <3>1
    <2>3. h[i] # h[j]
      BY <2>1
    <2>4. K \subseteq Int
      OBVIOUS
    <2>5. h[i] \in Int /\ h[j] \in Int
      BY ONLY <2>1, <2>4
    <2> QED BY <2>2, <2>3, <2>5
  <1>12. \A k \in K : \E i \in 1..c : h[i] = k
    <2> SUFFICES ASSUME NEW k \in K PROVE h[rank[k]] = k
      BY <1>2
    <2> QED BY <1>2, <1>4, <1>8
  <1>13. Placed(q, K, h)
    BY <1>9, <1>10, <1>11, <1>12 DEF Placed
  <1> QED BY <1>1, <1>13

LEMMA KeptEvents ==
    ASSUME NEW q \in Seq(Event), NEW K \in SUBSET (DOMAIN q)
    PROVE  /\ Kept(q, K) \in Seq(Event)
           /\ DOMAIN Kept(q, K) = 1..Cardinality(K)
           /\ Len(Kept(q, K)) = Cardinality(K)
           /\ \E h : Placed(q, K, h)
  <1> DEFINE c == Cardinality(K)
  <1>1. Len(q) \in Nat /\ K \in SUBSET (1..Len(q))
    BY LenProperties
  <1>2. c \in Nat /\ \E h : Placed(q, K, h)
    BY <1>1, KeptPlaces
  <1>3. PICK h : Placed(q, K, h)
    BY <1>2
  <1>4. DOMAIN Kept(q, K) = 1..c /\ Kept(q, K) = [i \in 1..c |-> Kept(q, K)[i]]
    BY DEF Kept
  <1>5. \A i \in 1..c : Kept(q, K)[i] \in Event
    BY <1>3 DEF Placed
  <1> HIDE DEF c
  <1>6. Kept(q, K) \in [1..c -> Event]
    BY <1>4, <1>5
  <1>7. Kept(q, K) \in Seq(Event)
    BY <1>2, <1>6, SeqDef
  <1>8. Len(Kept(q, K)) = c
    BY <1>2, <1>4, <1>7, LenProperties
  <1> QED BY <1>2, <1>4, <1>7, <1>8 DEF c

\* The rows among evs.
RowsOf(evs) == {evs[i].n : i \in {j \in DOMAIN evs : evs[j].type = "row"}}

\* Rows stand in the order Claude stored them.
Sorted(evs) ==
    \A i, j \in DOMAIN evs :
        i < j /\ evs[i].type = "row" /\ evs[j].type = "row" => evs[i].n < evs[j].n

\* Place i holds the last event of evs that says whether the turn runs.
LastTold(evs, i) ==
    /\ i \in DOMAIN evs /\ Telling(evs[i])
    /\ \A j \in DOMAIN evs : Telling(evs[j]) => j <= i

\* The last event of evs to say so says b.
Tells(evs, b) == \A i \in DOMAIN evs : LastTold(evs, i) => evs[i].on = b

Silent(evs) == \A i \in DOMAIN evs : ~Telling(evs[i])

LEMMA RowsIn ==
    ASSUME NEW s \in Seq(Event), NEW n
    PROVE  n \in RowsOf(s) <=> \E i \in 1..Len(s) : s[i].type = "row" /\ s[i].n = n
  <1>1. DOMAIN s = 1..Len(s)
    BY LenProperties
  <1> QED BY <1>1 DEF RowsOf

LEMMA RowsNat ==
    ASSUME NEW s \in Seq(Event)
    PROVE  RowsOf(s) \subseteq Nat
  <1>1. \A i \in DOMAIN s : s[i] \in Event
    BY LenProperties
  <1> QED BY <1>1 DEF RowsOf, Event

LEMMA RowsConcat ==
    ASSUME NEW s \in Seq(Event), NEW t \in Seq(Event)
    PROVE  RowsOf(s \o t) = RowsOf(s) \cup RowsOf(t)
  <1> DEFINE u == s \o t
  <1>1. /\ u \in Seq(Event) /\ Len(u) = Len(s) + Len(t)
        /\ \A i \in 1..Len(s) + Len(t) : u[i] = IF i <= Len(s) THEN s[i] ELSE t[i - Len(s)]
    BY ConcatProperties
  <1>2. Len(s) \in Nat /\ Len(t) \in Nat
    BY LenProperties
  <1> HIDE DEF u
  <1>3. ASSUME NEW n \in RowsOf(u) PROVE n \in RowsOf(s) \cup RowsOf(t)
    <2>1. PICK i \in 1..Len(u) : u[i].type = "row" /\ u[i].n = n
      BY <1>1, <1>3, RowsIn
    <2>2. CASE i <= Len(s)
      <3>1. i \in 1..Len(s) /\ u[i] = s[i]
        BY <1>1, <1>2, <2>1, <2>2
      <3> QED BY <2>1, <3>1, RowsIn
    <2>3. CASE ~(i <= Len(s))
      <3>1. i - Len(s) \in 1..Len(t) /\ u[i] = t[i - Len(s)]
        BY <1>1, <1>2, <2>1, <2>3
      <3> QED BY <2>1, <3>1, RowsIn
    <2> QED BY <2>2, <2>3
  <1>4. ASSUME NEW n \in RowsOf(s) PROVE n \in RowsOf(u)
    <2>1. PICK i \in 1..Len(s) : s[i].type = "row" /\ s[i].n = n
      BY <1>4, RowsIn
    <2>2. i \in 1..Len(u) /\ u[i] = s[i]
      BY <1>1, <1>2, <2>1
    <2> QED BY <1>1, <2>1, <2>2, RowsIn
  <1>5. ASSUME NEW n \in RowsOf(t) PROVE n \in RowsOf(u)
    <2>1. PICK i \in 1..Len(t) : t[i].type = "row" /\ t[i].n = n
      BY <1>5, RowsIn
    <2>2. /\ i + Len(s) \in 1..Len(s) + Len(t) /\ ~(i + Len(s) <= Len(s))
          /\ (i + Len(s)) - Len(s) = i
      BY <1>2, <2>1
    <2>3. i + Len(s) \in 1..Len(u) /\ u[i + Len(s)] = t[i]
      BY <1>1, <2>2
    <2> QED BY <1>1, <2>1, <2>3, RowsIn
  <1>6. RowsOf(u) = RowsOf(s) \cup RowsOf(t)
    BY <1>3, <1>4, <1>5
  <1> QED BY <1>6 DEF u

LEMMA RowsAppend ==
    ASSUME NEW s \in Seq(Event), NEW e \in Event
    PROVE  RowsOf(Append(s, e)) = RowsOf(s) \cup (IF e.type = "row" THEN {e.n} ELSE {})
  <1>1. Append(s, e) = s \o <<e>> /\ <<e>> \in Seq(Event)
    BY AppendIsConcat
  <1>2. RowsOf(<<e>>) = IF e.type = "row" THEN {e.n} ELSE {}
    BY DEF RowsOf
  <1> QED BY <1>1, <1>2, RowsConcat

\* Dropping events of other kinds leaves the rows.
LEMMA RowsKept ==
    ASSUME NEW q \in Seq(Event), NEW K \in SUBSET (DOMAIN q)
    PROVE  /\ RowsOf(Kept(q, K)) \subseteq RowsOf(q)
           /\ (\A i \in DOMAIN q : q[i].type = "row" => i \in K) => RowsOf(Kept(q, K)) = RowsOf(q)
  <1> DEFINE s == Kept(q, K)
  <1>0. PICK h : Placed(q, K, h)
    BY KeptEvents
  <1>1. /\ h \in [DOMAIN s -> K]
        /\ \A i \in DOMAIN s : s[i] = q[h[i]]
        /\ \A k \in K : \E i \in DOMAIN s : h[i] = k
    <2>1. DOMAIN s = 1..Cardinality(K)
      BY KeptEvents
    <2> QED BY <1>0, <2>1 DEF Placed
  <1> HIDE DEF s
  <1>2. RowsOf(s) \subseteq RowsOf(q)
    BY <1>1 DEF RowsOf
  <1>3. ASSUME \A i \in DOMAIN q : q[i].type = "row" => i \in K
        PROVE  RowsOf(q) \subseteq RowsOf(s)
    BY <1>1, <1>3 DEF RowsOf
  <1> QED BY <1>2, <1>3 DEF s

LEMMA SortedEmpty == Sorted(<<>>) /\ RowsOf(<<>>) = {}
  BY DEF Sorted, RowsOf

LEMMA SortedKept ==
    ASSUME NEW q \in Seq(Event), NEW K \in SUBSET (DOMAIN q), Sorted(q)
    PROVE  Sorted(Kept(q, K))
  <1> DEFINE s == Kept(q, K)
  <1>0. PICK h : Placed(q, K, h)
    BY KeptEvents
  <1>1. /\ h \in [DOMAIN s -> K]
        /\ \A i \in DOMAIN s : s[i] = q[h[i]]
        /\ \A i, j \in DOMAIN s : i < j => h[i] < h[j]
    <2>1. DOMAIN s = 1..Cardinality(K)
      BY KeptEvents
    <2> QED BY <1>0, <2>1 DEF Placed
  <1> HIDE DEF s
  <1>2. \A i \in DOMAIN s : h[i] \in DOMAIN q
    BY <1>1
  <1>3. Sorted(s)
    BY <1>1, <1>2 DEF Sorted
  <1> QED BY <1>3 DEF s

\* Events before others are sorted when each part is, and rows of the second
\* come after those of the first.
LEMMA SortedConcat ==
    ASSUME NEW s \in Seq(Event), NEW t \in Seq(Event)
    PROVE  Sorted(s \o t) <=>
             /\ Sorted(s) /\ Sorted(t)
             /\ \A m \in RowsOf(s), n \in RowsOf(t) : m < n
  <1> DEFINE u == s \o t
  <1>1. /\ u \in Seq(Event) /\ Len(u) = Len(s) + Len(t)
        /\ \A i \in 1..Len(s) + Len(t) : u[i] = IF i <= Len(s) THEN s[i] ELSE t[i - Len(s)]
    BY ConcatProperties
  <1>2. /\ Len(s) \in Nat /\ Len(t) \in Nat
        /\ DOMAIN s = 1..Len(s) /\ DOMAIN t = 1..Len(t) /\ DOMAIN u = 1..Len(s) + Len(t)
    BY <1>1, LenProperties
  <1> HIDE DEF u
  <1>3. \A i \in 1..Len(s) : i \in DOMAIN u /\ u[i] = s[i]
    BY <1>1, <1>2
  <1>4. \A i \in 1..Len(t) : i + Len(s) \in DOMAIN u /\ u[i + Len(s)] = t[i]
    BY <1>1, <1>2
  <1>5. ASSUME Sorted(u)
        PROVE  Sorted(s) /\ Sorted(t) /\ \A m \in RowsOf(s), n \in RowsOf(t) : m < n
    <2>1. Sorted(s)
      BY <1>2, <1>3, <1>5 DEF Sorted
    <2>2. Sorted(t)
      <3> SUFFICES ASSUME NEW i \in 1..Len(t), NEW j \in 1..Len(t), i < j,
                          t[i].type = "row", t[j].type = "row"
                   PROVE  t[i].n < t[j].n
        BY <1>2 DEF Sorted
      <3>1. i + Len(s) < j + Len(s)
        BY <1>2
      <3> QED BY <1>4, <1>5, <3>1 DEF Sorted
    <2>3. ASSUME NEW m \in RowsOf(s), NEW n \in RowsOf(t) PROVE m < n
      <3>1. PICK i \in 1..Len(s) : s[i].type = "row" /\ s[i].n = m
        BY <2>3, RowsIn
      <3>2. PICK j \in 1..Len(t) : t[j].type = "row" /\ t[j].n = n
        BY <2>3, RowsIn
      <3>3. i < j + Len(s)
        BY <1>2, <3>1, <3>2
      <3> QED BY <1>3, <1>4, <1>5, <3>1, <3>2, <3>3 DEF Sorted
    <2> QED BY <2>1, <2>2, <2>3
  <1>6. ASSUME Sorted(s), Sorted(t), \A m \in RowsOf(s), n \in RowsOf(t) : m < n
        PROVE  Sorted(u)
    <2> SUFFICES ASSUME NEW i \in DOMAIN u, NEW j \in DOMAIN u, i < j,
                        u[i].type = "row", u[j].type = "row"
                 PROVE  u[i].n < u[j].n
      BY DEF Sorted
    <2>1. CASE j <= Len(s)
      <3>1. i \in 1..Len(s) /\ j \in 1..Len(s)
        BY <1>2, <2>1
      <3> QED BY <1>2, <1>3, <1>6, <3>1 DEF Sorted
    <2>2. CASE i <= Len(s) /\ ~(j <= Len(s))
      <3>1. i \in 1..Len(s) /\ j - Len(s) \in 1..Len(t)
        BY <1>2, <2>2
      <3>2. u[i] = s[i] /\ u[j] = t[j - Len(s)]
        BY <1>1, <1>2, <2>2
      <3>3. u[i].n \in RowsOf(s) /\ u[j].n \in RowsOf(t)
        BY <3>1, <3>2, RowsIn
      <3> QED BY <1>6, <3>3
    <2>3. CASE ~(i <= Len(s))
      <3>1. i - Len(s) \in 1..Len(t) /\ j - Len(s) \in 1..Len(t) /\ i - Len(s) < j - Len(s)
        BY <1>2, <2>3
      <3>2. u[i] = t[i - Len(s)] /\ u[j] = t[j - Len(s)]
        BY <1>1, <1>2, <2>3
      <3> QED BY <1>2, <1>6, <3>1, <3>2 DEF Sorted
    <2> QED BY <1>2, <2>1, <2>2, <2>3
  <1>7. Sorted(u) <=> Sorted(s) /\ Sorted(t) /\ \A m \in RowsOf(s), n \in RowsOf(t) : m < n
    BY <1>5, <1>6
  <1> QED BY <1>7 DEF u

LEMMA SortedAppend ==
    ASSUME NEW s \in Seq(Event), NEW e \in Event, Sorted(s),
           e.type = "row" => \A n \in RowsOf(s) : n < e.n
    PROVE  Sorted(Append(s, e))
  <1>1. Append(s, e) = s \o <<e>> /\ <<e>> \in Seq(Event)
    BY AppendIsConcat
  <1>2. Sorted(<<e>>) /\ RowsOf(<<e>>) = IF e.type = "row" THEN {e.n} ELSE {}
    BY DEF RowsOf, Sorted
  <1>3. \A m \in RowsOf(s), n \in RowsOf(<<e>>) : m < n
    BY <1>2
  <1> QED BY <1>1, <1>2, <1>3, SortedConcat

LEMMA LastToldIn ==
    ASSUME NEW s \in Seq(Event), ~Silent(s)
    PROVE  \E i : LastTold(s, i)
  <1> DEFINE K == {i \in DOMAIN s : Telling(s[i])}
             c == Cardinality(K)
  <1>1. Len(s) \in Nat /\ DOMAIN s = 1..Len(s)
    BY LenProperties
  <1>2. K \in SUBSET (1..Len(s))
    BY <1>1
  <1>3. c \in Nat /\ IsFiniteSet(K)
    <2> HIDE DEF K
    <2>1. IsFiniteSet(1..Len(s))
      BY <1>1, FS_Interval
    <2> QED BY <1>2, <2>1, FS_Subset, FS_CardinalityType
  <1>4. PICK h : Placed(s, K, h)
    <2> HIDE DEF K
    <2> QED BY <1>1, <1>2, KeptPlaces
  <1>5. K # {}
    BY DEF Silent
  <1>6. c # 0
    BY <1>3, <1>5, FS_EmptySet
  <1>7. K \subseteq Nat
    BY <1>2
  <1> HIDE DEF K, c
  <1>8. /\ h \in [1..c -> K]
        /\ \A i, j \in 1..c : i < j => h[i] < h[j]
        /\ \A k \in K : \E i \in 1..c : h[i] = k
    BY <1>4 DEF Placed, c
  <1>9. c \in 1..c /\ h[c] \in K
    BY <1>3, <1>6, <1>8
  <1>10. \A k \in K : k <= h[c]
    <2> SUFFICES ASSUME NEW k \in K PROVE k <= h[c]
      OBVIOUS
    <2>1. PICK i \in 1..c : h[i] = k
      BY <1>8
    <2>2. i = c \/ i < c
      BY <1>3
    <2>3. k \in Nat /\ h[c] \in Nat
      BY <1>7, <1>9
    <2> QED BY <1>8, <1>9, <2>1, <2>2, <2>3
  <1>11. LastTold(s, h[c])
    BY <1>9, <1>10 DEF K, LastTold
  <1> QED BY <1>11

LEMMA SilentConcat ==
    ASSUME NEW s \in Seq(Event), NEW t \in Seq(Event)
    PROVE  Silent(s \o t) <=> Silent(s) /\ Silent(t)
  <1> DEFINE u == s \o t
  <1>1. /\ u \in Seq(Event) /\ Len(u) = Len(s) + Len(t)
        /\ \A i \in 1..Len(s) + Len(t) : u[i] = IF i <= Len(s) THEN s[i] ELSE t[i - Len(s)]
    BY ConcatProperties
  <1>2. /\ Len(s) \in Nat /\ Len(t) \in Nat
        /\ DOMAIN s = 1..Len(s) /\ DOMAIN t = 1..Len(t) /\ DOMAIN u = 1..Len(s) + Len(t)
    BY <1>1, LenProperties
  <1> HIDE DEF u
  <1>3. \A i \in 1..Len(s) : i \in DOMAIN u /\ u[i] = s[i]
    BY <1>1, <1>2
  <1>4. \A i \in 1..Len(t) : i + Len(s) \in DOMAIN u /\ u[i + Len(s)] = t[i]
    BY <1>1, <1>2
  <1>5. \A i \in DOMAIN u : i \in 1..Len(s) \/ (i - Len(s) \in 1..Len(t) /\ u[i] = t[i - Len(s)])
    BY <1>1, <1>2
  <1>6. Silent(u) <=> Silent(s) /\ Silent(t)
    BY <1>2, <1>3, <1>4, <1>5 DEF Silent
  <1> QED BY <1>6 DEF u

\* What events say is what the last of them to say it says.
LEMMA TellsConcat ==
    ASSUME NEW s \in Seq(Event), NEW t \in Seq(Event), NEW b
    PROVE  Tells(s \o t, b) <=> Tells(t, b) /\ (Silent(t) => Tells(s, b))
  <1> DEFINE u == s \o t
  <1>1. /\ u \in Seq(Event) /\ Len(u) = Len(s) + Len(t)
        /\ \A i \in 1..Len(s) + Len(t) : u[i] = IF i <= Len(s) THEN s[i] ELSE t[i - Len(s)]
    BY ConcatProperties
  <1>2. /\ Len(s) \in Nat /\ Len(t) \in Nat
        /\ DOMAIN s = 1..Len(s) /\ DOMAIN t = 1..Len(t) /\ DOMAIN u = 1..Len(s) + Len(t)
    BY <1>1, LenProperties
  <1> HIDE DEF u
  <1>3. \A i \in 1..Len(s) : i \in DOMAIN u /\ u[i] = s[i]
    BY <1>1, <1>2
  <1>4. \A i \in 1..Len(t) : i + Len(s) \in DOMAIN u /\ u[i + Len(s)] = t[i]
    BY <1>1, <1>2
  <1>5. \A i \in DOMAIN u : \/ i \in 1..Len(s) /\ u[i] = s[i]
                            \/ i - Len(s) \in 1..Len(t) /\ u[i] = t[i - Len(s)]
    BY <1>1, <1>2
  <1>6. \A i : LastTold(t, i) <=> i \in 1..Len(t) /\ LastTold(u, i + Len(s))
    <2> SUFFICES ASSUME NEW i \in 1..Len(t) PROVE LastTold(t, i) <=> LastTold(u, i + Len(s))
      BY <1>2 DEF LastTold
    <2>1. ASSUME LastTold(t, i) PROVE LastTold(u, i + Len(s))
      <3>1. ASSUME NEW j \in DOMAIN u, Telling(u[j]) PROVE j <= i + Len(s)
        <4>1. CASE j \in 1..Len(s)
          BY <1>2, <4>1
        <4>2. CASE j - Len(s) \in 1..Len(t) /\ u[j] = t[j - Len(s)]
          <5>1. j - Len(s) <= i
            BY <1>2, <2>1, <3>1, <4>2 DEF LastTold
          <5> QED BY <1>2, <5>1
        <4> QED BY <1>5, <4>1, <4>2
      <3> QED BY <1>4, <2>1, <3>1 DEF LastTold
    <2>2. ASSUME LastTold(u, i + Len(s)) PROVE LastTold(t, i)
      <3>1. ASSUME NEW j \in 1..Len(t), Telling(t[j]) PROVE j <= i
        <4>1. j + Len(s) <= i + Len(s)
          BY <1>4, <2>2, <3>1 DEF LastTold
        <4> QED BY <1>2, <4>1
      <3> QED BY <1>2, <1>4, <2>2, <3>1 DEF LastTold
    <2> QED BY <2>1, <2>2
  <1>7. ASSUME Silent(t), NEW i PROVE LastTold(s, i) <=> LastTold(u, i)
    <2>1. \A j \in DOMAIN u : Telling(u[j]) => j \in 1..Len(s) /\ u[j] = s[j]
      BY <1>2, <1>5, <1>7 DEF Silent
    <2> QED BY <1>2, <1>3, <2>1 DEF LastTold
  <1>8. ASSUME ~Silent(t), NEW i, LastTold(u, i) PROVE i - Len(s) \in 1..Len(t)
    <2>1. PICK j \in 1..Len(t) : Telling(t[j])
      BY <1>2, <1>8 DEF Silent
    <2>2. j + Len(s) <= i
      BY <1>4, <1>8, <2>1 DEF LastTold
    <2>3. i \in DOMAIN u
      BY <1>8 DEF LastTold
    <2> QED BY <1>2, <2>1, <2>2, <2>3
  <1>9. ASSUME Tells(u, b) PROVE Tells(t, b) /\ (Silent(t) => Tells(s, b))
    <2>1. Tells(t, b)
      BY <1>2, <1>4, <1>6, <1>9 DEF Tells
    <2>2. ASSUME Silent(t) PROVE Tells(s, b)
      BY <1>2, <1>3, <1>7, <1>9, <2>2 DEF Tells
    <2> QED BY <2>1, <2>2
  <1>10. ASSUME Tells(t, b), Silent(t) => Tells(s, b) PROVE Tells(u, b)
    <2> SUFFICES ASSUME NEW i \in DOMAIN u, LastTold(u, i) PROVE u[i].on = b
      BY DEF Tells
    <2>1. CASE Silent(t)
      <3>1. LastTold(s, i) /\ i \in DOMAIN s
        BY <1>7, <2>1 DEF LastTold
      <3> QED BY <1>2, <1>3, <1>10, <2>1, <3>1 DEF Tells
    <2>2. CASE ~Silent(t)
      <3>1. i - Len(s) \in 1..Len(t) /\ (i - Len(s)) + Len(s) = i
        BY <1>2, <1>8, <2>2
      <3>2. LastTold(t, i - Len(s)) /\ u[i] = t[i - Len(s)]
        BY <1>4, <1>6, <3>1
      <3> QED BY <1>2, <1>10, <3>1, <3>2 DEF Tells
    <2> QED BY <2>1, <2>2
  <1>11. Tells(u, b) <=> Tells(t, b) /\ (Silent(t) => Tells(s, b))
    BY <1>9, <1>10
  <1> QED BY <1>11 DEF u

LEMMA TellsOne ==
    ASSUME NEW e, NEW b
    PROVE  /\ Tells(<<>>, b) /\ Silent(<<>>)
           /\ Silent(<<e>>) <=> ~Telling(e)
           /\ Telling(e) => (Tells(<<e>>, b) <=> e.on = b)
           /\ ~Telling(e) => Tells(<<e>>, b)
  BY DEF Tells, Silent, LastTold

LEMMA TellsAppend ==
    ASSUME NEW s \in Seq(Event), NEW e \in Event, NEW b
    PROVE  /\ Telling(e) => (Tells(Append(s, e), b) <=> e.on = b)
           /\ ~Telling(e) => (Tells(Append(s, e), b) <=> Tells(s, b))
           /\ Silent(Append(s, e)) <=> Silent(s) /\ ~Telling(e)
  <1>1. Append(s, e) = s \o <<e>> /\ <<e>> \in Seq(Event)
    BY AppendIsConcat
  <1>2. Tells(s \o <<e>>, b) <=> Tells(<<e>>, b) /\ (Silent(<<e>>) => Tells(s, b))
    BY <1>1, TellsConcat
  <1>3. Silent(s \o <<e>>) <=> Silent(s) /\ Silent(<<e>>)
    BY <1>1, SilentConcat
  <1> QED BY <1>1, <1>2, <1>3, TellsOne

\* Dropping what comes first takes nothing from what the rest says.
LEMMA TellsKept ==
    ASSUME NEW q \in Seq(Event), NEW K \in SUBSET (DOMAIN q), NEW b, Tells(q, b),
           \A i \in K, j \in DOMAIN q : i < j => j \in K
    PROVE  Tells(Kept(q, K), b)
  <1> DEFINE s == Kept(q, K)
  <1>0. PICK h : Placed(q, K, h)
    BY KeptEvents
  <1>1. /\ h \in [DOMAIN s -> K]
        /\ \A i \in DOMAIN s : s[i] = q[h[i]]
        /\ \A i, j \in DOMAIN s : i < j => h[i] < h[j]
        /\ \A k \in K : \E i \in DOMAIN s : h[i] = k
    <2>1. DOMAIN s = 1..Cardinality(K)
      BY KeptEvents
    <2> QED BY <1>0, <2>1 DEF Placed
  <1>2. DOMAIN s \subseteq Nat /\ DOMAIN q \subseteq Nat
    BY KeptEvents, LenProperties
  <1> HIDE DEF s
  <1>3. ASSUME NEW i \in DOMAIN s, LastTold(s, i) PROVE LastTold(q, h[i])
    <2>1. h[i] \in DOMAIN q /\ Telling(q[h[i]])
      BY <1>1, <1>3 DEF LastTold
    <2>2. ASSUME NEW j \in DOMAIN q, Telling(q[j]), h[i] < j PROVE FALSE
      <3>1. j \in K
        BY <1>1, <2>2
      <3>2. PICK k \in DOMAIN s : h[k] = j
        BY <1>1, <3>1
      <3>3. k <= i
        BY <1>1, <1>3, <2>2, <3>2 DEF LastTold
      <3>4. k = i \/ k < i
        BY <1>2, <3>3
      <3>5. h[k] <= h[i]
        BY <1>1, <1>2, <2>1, <3>4
      <3> QED BY <1>2, <2>1, <2>2, <3>2, <3>5
    <2> QED BY <1>2, <2>1, <2>2 DEF LastTold
  <1>4. Tells(s, b)
    BY <1>1, <1>3 DEF Tells
  <1> QED BY <1>4 DEF s

\* The rows no snapshot being read covers.
FreshRows(q) == {q[i].n : i \in {j \in DOMAIN q : q[j].type = "row" /\ ~q[j].covered}}

\* What is covered stands first.
CoveredFirst(q) == \A i, j \in DOMAIN q : i < j /\ q[j].covered => q[i].covered

NonLevels(q) == {i \in DOMAIN q : q[i].type # "level"}
Uncovered(q) == {i \in DOMAIN q : ~q[i].covered}
Covered(q) == [i \in DOMAIN q |-> [q[i] EXCEPT !.covered = TRUE]]

HistoryFirst(evs) == evs # <<>> /\ evs[1].type = "history"

LEMMA KeptFirst ==
    ASSUME NEW q \in Seq(Event), NEW K \in SUBSET (DOMAIN q), 1 \in K
    PROVE  Kept(q, K) # <<>> /\ Kept(q, K)[1] = q[1]
  <1> DEFINE s == Kept(q, K)
  <1>0. PICK h : Placed(q, K, h)
    BY KeptEvents
  <1>1. /\ h \in [DOMAIN s -> K]
        /\ \A i \in DOMAIN s : s[i] = q[h[i]]
        /\ \A i, j \in DOMAIN s : i < j => h[i] < h[j]
        /\ \A k \in K : \E i \in DOMAIN s : h[i] = k
    <2>1. DOMAIN s = 1..Cardinality(K)
      BY KeptEvents
    <2> QED BY <1>0, <2>1 DEF Placed
  <1>2. s \in Seq(Event) /\ DOMAIN s = 1..Len(s) /\ Len(s) \in Nat /\ DOMAIN q = 1..Len(q)
    BY KeptEvents, LenProperties
  <1> HIDE DEF s
  <1>3. PICK i \in DOMAIN s : h[i] = 1
    BY <1>1
  <1>4. \A j \in DOMAIN s : h[j] \in 1..Len(q)
    BY <1>1, <1>2
  <1>5. 1 \in DOMAIN s
    BY <1>2, <1>3
  <1>6. ~(1 < i)
    BY <1>1, <1>3, <1>4, <1>5
  <1>7. i = 1
    BY <1>2, <1>3, <1>6
  <1>8. s # <<>> /\ s[1] = q[1]
    BY <1>1, <1>2, <1>3, <1>5, <1>7
  <1> QED BY <1>8 DEF s

LEMMA KeptFresh ==
    ASSUME NEW q \in Seq(Event), NEW K \in SUBSET (DOMAIN q)
    PROVE  /\ (\A i \in DOMAIN q : q[i].type = "row" => i \in K) =>
                FreshRows(Kept(q, K)) = FreshRows(q)
           /\ K = Uncovered(q) => RowsOf(Kept(q, K)) = FreshRows(q)
           /\ CoveredFirst(q) => CoveredFirst(Kept(q, K))
  <1> DEFINE s == Kept(q, K)
  <1>0. PICK h : Placed(q, K, h)
    BY KeptEvents
  <1>1. /\ h \in [DOMAIN s -> K]
        /\ \A i \in DOMAIN s : s[i] = q[h[i]]
        /\ \A i, j \in DOMAIN s : i < j => h[i] < h[j]
        /\ \A k \in K : \E i \in DOMAIN s : h[i] = k
    <2>1. DOMAIN s = 1..Cardinality(K)
      BY KeptEvents
    <2> QED BY <1>0, <2>1 DEF Placed
  <1> HIDE DEF s
  <1>2. \A i \in DOMAIN s : h[i] \in DOMAIN q
    BY <1>1
  <1>3. ASSUME \A i \in DOMAIN q : q[i].type = "row" => i \in K PROVE FreshRows(s) = FreshRows(q)
    <2>1. FreshRows(s) \subseteq FreshRows(q)
      BY <1>1, <1>2 DEF FreshRows
    <2>2. FreshRows(q) \subseteq FreshRows(s)
      BY <1>1, <1>3 DEF FreshRows
    <2> QED BY <2>1, <2>2
  <1>4. ASSUME K = Uncovered(q) PROVE RowsOf(s) = FreshRows(q)
    <2>1. RowsOf(s) \subseteq FreshRows(q)
      <3>1. \A i \in DOMAIN s : ~q[h[i]].covered
        BY <1>1, <1>4 DEF Uncovered
      <3> QED BY <1>1, <1>2, <3>1 DEF FreshRows, RowsOf
    <2>2. FreshRows(q) \subseteq RowsOf(s)
      <3>1. \A i \in DOMAIN q : ~q[i].covered => i \in K
        BY <1>4 DEF Uncovered
      <3> QED BY <1>1, <3>1 DEF FreshRows, RowsOf
    <2> QED BY <2>1, <2>2
  <1>5. CoveredFirst(q) => CoveredFirst(s)
    BY <1>1, <1>2 DEF CoveredFirst
  <1> QED BY <1>3, <1>4, <1>5 DEF s

LEMMA FreshAppend ==
    ASSUME NEW q \in Seq(Event), NEW e \in Event, ~e.covered
    PROVE  /\ FreshRows(Append(q, e)) = FreshRows(q) \cup (IF e.type = "row" THEN {e.n} ELSE {})
           /\ CoveredFirst(q) => CoveredFirst(Append(q, e))
  <1> DEFINE s == Append(q, e)
  <1>1. /\ DOMAIN s = 1..Len(q) + 1 /\ DOMAIN q = 1..Len(q) /\ Len(q) \in Nat
        /\ \A i \in 1..Len(q) : s[i] = q[i]
        /\ s[Len(q) + 1] = e
    BY AppendProperties, LenProperties
  <1> HIDE DEF s
  <1>2. \A i \in DOMAIN s : (i \in DOMAIN q /\ s[i] = q[i]) \/ (i = Len(q) + 1 /\ s[i] = e)
    BY <1>1
  <1>3. \A i \in DOMAIN q : i \in DOMAIN s /\ s[i] = q[i]
    BY <1>1
  <1>4. Len(q) + 1 \in DOMAIN s
    BY <1>1
  <1>5. FreshRows(s) \subseteq FreshRows(q) \cup (IF e.type = "row" THEN {e.n} ELSE {})
    BY <1>2 DEF FreshRows
  <1>6. FreshRows(q) \subseteq FreshRows(s)
    BY <1>3 DEF FreshRows
  <1>7. e.type = "row" => e.n \in FreshRows(s)
    BY <1>1, <1>4 DEF FreshRows
  <1>8. CoveredFirst(q) => CoveredFirst(s)
    <2> SUFFICES ASSUME CoveredFirst(q), NEW i \in DOMAIN s, NEW j \in DOMAIN s, i < j, s[j].covered
                 PROVE  s[i].covered
      BY DEF CoveredFirst
    <2>1. j \in DOMAIN q /\ s[j] = q[j]
      BY <1>1, <1>2
    <2>2. i \in DOMAIN q /\ s[i] = q[i]
      BY <1>1, <1>3, <2>1
    <2> QED BY <2>1, <2>2 DEF CoveredFirst
  <1> QED BY <1>5, <1>6, <1>7, <1>8 DEF s

LEMMA CoveredKeeps ==
    ASSUME NEW q \in Seq(Event), NEW b
    PROVE  /\ Covered(q) \in Seq(Event) /\ Len(Covered(q)) = Len(q)
           /\ RowsOf(Covered(q)) = RowsOf(q)
           /\ Sorted(Covered(q)) <=> Sorted(q)
           /\ Tells(Covered(q), b) <=> Tells(q, b)
           /\ Silent(Covered(q)) <=> Silent(q)
           /\ CoveredFirst(Covered(q)) /\ FreshRows(Covered(q)) = {}
  <1> DEFINE s == Covered(q)
  <1>1. /\ DOMAIN s = DOMAIN q /\ DOMAIN q = 1..Len(q) /\ Len(q) \in Nat
        /\ \A i \in DOMAIN q : q[i] \in Event
    BY LenProperties DEF Covered
  <1>2. \A i \in DOMAIN q : /\ s[i] \in Event /\ s[i].type = q[i].type /\ s[i].n = q[i].n
                            /\ s[i].on = q[i].on /\ s[i].covered
    BY <1>1 DEF Covered, Event
  <1>3. s = [i \in DOMAIN q |-> s[i]]
    BY DEF Covered
  <1> HIDE DEF s
  <1>4. s \in [1..Len(q) -> Event]
    BY <1>1, <1>2, <1>3
  <1>5. s \in Seq(Event)
    BY <1>1, <1>4, SeqDef
  <1>6. Len(s) = Len(q)
    BY <1>1, <1>5, LenProperties
  <1>7. \A i \in DOMAIN q : Telling(s[i]) <=> Telling(q[i])
    BY <1>2 DEF Telling
  <1>8. \A i : LastTold(s, i) <=> LastTold(q, i)
    BY <1>1, <1>7 DEF LastTold
  <1>9. (Tells(s, b) <=> Tells(q, b)) /\ (Silent(s) <=> Silent(q))
    BY <1>1, <1>2, <1>7, <1>8 DEF Tells, Silent
  <1>10. RowsOf(s) = RowsOf(q) /\ (Sorted(s) <=> Sorted(q))
    BY <1>1, <1>2 DEF RowsOf, Sorted
  <1>11. CoveredFirst(s) /\ FreshRows(s) = {}
    BY <1>1, <1>2 DEF CoveredFirst, FreshRows
  <1> QED BY <1>5, <1>6, <1>9, <1>10, <1>11 DEF s

LEMMA NonLevelsKeep ==
    ASSUME NEW q \in Seq(Event)
    PROVE  /\ Kept(q, NonLevels(q)) \in Seq(Event)
           /\ RowsOf(Kept(q, NonLevels(q))) = RowsOf(q)
           /\ FreshRows(Kept(q, NonLevels(q))) = FreshRows(q)
           /\ CoveredFirst(q) => CoveredFirst(Kept(q, NonLevels(q)))
           /\ Sorted(q) => Sorted(Kept(q, NonLevels(q)))
           /\ HistoryFirst(q) => HistoryFirst(Kept(q, NonLevels(q))) /\ Kept(q, NonLevels(q))[1] = q[1]
  <1> DEFINE K == NonLevels(q)
  <1>1. K \in SUBSET (DOMAIN q) /\ \A i \in DOMAIN q : q[i].type = "row" => i \in K
    BY DEF NonLevels
  <1>2. HistoryFirst(q) => 1 \in K
    <2>1. DOMAIN q = 1..Len(q) /\ (q # <<>> => Len(q) \in Nat \ {0})
      BY LenProperties, EmptySeq
    <2> QED BY <2>1 DEF NonLevels, HistoryFirst
  <1> HIDE DEF K
  <1>3. HistoryFirst(q) => HistoryFirst(Kept(q, K)) /\ Kept(q, K)[1] = q[1]
    BY <1>1, <1>2, KeptFirst DEF HistoryFirst
  <1>4. /\ Kept(q, K) \in Seq(Event)
        /\ RowsOf(Kept(q, K)) = RowsOf(q)
        /\ FreshRows(Kept(q, K)) = FreshRows(q)
        /\ CoveredFirst(q) => CoveredFirst(Kept(q, K))
    BY <1>1, KeptEvents, RowsKept, KeptFresh
  <1>5. Sorted(q) => Sorted(Kept(q, K))
    BY <1>1, SortedKept
  <1> QED BY <1>3, <1>4, <1>5 DEF K

LEMMA PushKeeps ==
    ASSUME NEW q \in Seq(Event), NEW e \in Event, ~e.covered
    PROVE  /\ Push(q, e) \in Seq(Event) /\ Push(q, e) # <<>>
           /\ RowsOf(Push(q, e)) = RowsOf(q) \cup (IF e.type = "row" THEN {e.n} ELSE {})
           /\ FreshRows(Push(q, e)) = FreshRows(q) \cup (IF e.type = "row" THEN {e.n} ELSE {})
           /\ CoveredFirst(q) => CoveredFirst(Push(q, e))
           /\ HistoryFirst(q) => HistoryFirst(Push(q, e)) /\ Push(q, e)[1] = q[1]
  <1> DEFINE s == IF e.type = "level" THEN Kept(q, NonLevels(q)) ELSE q
  <1>1. Push(q, e) = Append(s, e)
    BY DEF Push, NonLevels
  <1>2. /\ s \in Seq(Event) /\ RowsOf(s) = RowsOf(q) /\ FreshRows(s) = FreshRows(q)
        /\ CoveredFirst(q) => CoveredFirst(s)
        /\ HistoryFirst(q) => HistoryFirst(s) /\ s[1] = q[1]
    BY NonLevelsKeep
  <1> HIDE DEF s
  <1>3. Append(s, e) \in Seq(Event) /\ Append(s, e) # <<>>
    BY <1>2, AppendProperties
  <1>4. HistoryFirst(s) => HistoryFirst(Append(s, e)) /\ Append(s, e)[1] = s[1]
    <2>1. s # <<>> => 1 \in 1..Len(s)
      BY <1>2, EmptySeq
    <2>2. \A i \in 1..Len(s) : Append(s, e)[i] = s[i]
      BY <1>2, AppendProperties
    <2> QED BY <1>3, <2>1, <2>2 DEF HistoryFirst
  <1> QED BY <1>1, <1>2, <1>3, <1>4, RowsAppend, FreshAppend

\* An event pushed behind what is on its way.
LEMMA PushBehind ==
    ASSUME NEW p \in Seq(Event), NEW q \in Seq(Event), NEW e \in Event, ~e.covered, NEW b
    PROVE  /\ Telling(e) => ((e.on = b => Tells(p \o Push(q, e), b)) /\ ~Silent(p \o Push(q, e)))
           /\ ~Telling(e) => /\ Tells(p \o q, b) => Tells(p \o Push(q, e), b)
                             /\ Silent(p \o Push(q, e)) => Silent(p \o q)
           /\ Sorted(p \o q) /\ (e.type = "row" => \A n \in RowsOf(p \o q) : n < e.n) =>
                Sorted(p \o Push(q, e))
  <1> DEFINE s == IF e.type = "level" THEN Kept(q, NonLevels(q)) ELSE q
  <1>1. Push(q, e) = Append(s, e) /\ s \in Seq(Event)
    BY NonLevelsKeep DEF Push, NonLevels
  <1>2. e.type # "level" => s = q
    OBVIOUS
  <1>3. RowsOf(s) = RowsOf(q) /\ (Sorted(q) => Sorted(s))
    BY NonLevelsKeep
  <1> HIDE DEF s
  <1>4. Append(s, e) \in Seq(Event)
    BY <1>1, AppendProperties
  <1>5. /\ Tells(p \o Append(s, e), b) <=>
             Tells(Append(s, e), b) /\ (Silent(Append(s, e)) => Tells(p, b))
        /\ Tells(p \o q, b) <=> Tells(q, b) /\ (Silent(q) => Tells(p, b))
        /\ Silent(p \o Append(s, e)) <=> Silent(p) /\ Silent(Append(s, e))
        /\ Silent(p \o q) <=> Silent(p) /\ Silent(q)
    BY <1>4, TellsConcat, SilentConcat
  <1>6. /\ Telling(e) => (Tells(Append(s, e), b) <=> e.on = b)
        /\ ~Telling(e) => (Tells(Append(s, e), b) <=> Tells(s, b))
        /\ Silent(Append(s, e)) <=> Silent(s) /\ ~Telling(e)
    BY <1>1, TellsAppend
  <1>7. ~Telling(e) => s = q
    BY <1>2 DEF Telling
  <1>8. ASSUME Sorted(p \o q), e.type = "row" => \A n \in RowsOf(p \o q) : n < e.n
        PROVE  Sorted(p \o Append(s, e))
    <2>1. /\ Sorted(p) /\ Sorted(q) /\ \A m \in RowsOf(p), n \in RowsOf(q) : m < n
      BY <1>8, SortedConcat
    <2>2. RowsOf(p \o q) = RowsOf(p) \cup RowsOf(q)
      BY RowsConcat
    <2>3. Sorted(Append(s, e))
      BY <1>1, <1>3, <1>8, <2>1, <2>2, SortedAppend
    <2>4. RowsOf(Append(s, e)) = RowsOf(q) \cup (IF e.type = "row" THEN {e.n} ELSE {})
      BY <1>1, <1>3, RowsAppend
    <2>5. \A m \in RowsOf(p), n \in RowsOf(Append(s, e)) : m < n
      BY <1>8, <2>1, <2>2, <2>4
    <2> QED BY <1>4, <2>1, <2>3, <2>5, SortedConcat
  <1> QED BY <1>1, <1>5, <1>6, <1>7, <1>8

LEMMA PrependKeeps ==
    ASSUME NEW q \in Seq(Event), NEW history, NEW level \in Event, NEW b,
           level.type = "level", level.on = b,
           history = <<>> \/ \E h \in Event : h.type = "history" /\ history = <<h>>
    PROVE  LET s == Prepend(q, history, level) IN
             /\ s \in Seq(Event) /\ s # <<>>
             /\ history # <<>> => s[1] = history[1]
             /\ RowsOf(s) = RowsOf(q)
             /\ Sorted(q) => Sorted(s)
             /\ Tells(q, b) => Tells(s, b)
             /\ ~Silent(s)
  <1> DEFINE lv == \E i \in DOMAIN q : q[i].type = "level"
             pre == IF lv THEN history ELSE Append(history, level)
             s == pre \o q
  <1>1. Prepend(q, history, level) = s
    BY DEF Prepend
  <1>2. history \in Seq(Event)
    <2>1. <<>> \in Seq(Event) /\ \A h \in Event : <<h>> \in Seq(Event)
      OBVIOUS
    <2> QED BY <2>1
  <1>3. pre \in Seq(Event)
    BY <1>2, AppendProperties
  <1>4. RowsOf(history) = {} /\ Sorted(history) /\ Silent(history) /\ Tells(history, b)
    <2>1. CASE history = <<>>
      BY <2>1 DEF RowsOf, Sorted, Silent, Tells
    <2>2. ASSUME NEW h \in Event, h.type = "history", history = <<h>>
          PROVE  RowsOf(history) = {} /\ Sorted(history) /\ Silent(history) /\ Tells(history, b)
      <3>1. ~Telling(h)
        BY <2>2 DEF Telling
      <3> QED BY <2>2, <3>1, TellsOne DEF RowsOf, Sorted
    <2> QED BY <2>1, <2>2
  <1>5. lv => ~Silent(q)
    BY DEF Silent, Telling
  <1>6. Telling(level)
    BY DEF Telling
  <1>7. RowsOf(pre) = {} /\ Sorted(pre) /\ Tells(pre, b) /\ (~lv => ~Silent(pre))
    BY <1>2, <1>4, <1>6, RowsAppend, SortedAppend, TellsAppend
  <1>8. history # <<>> => pre # <<>> /\ pre[1] = history[1]
    <2>1. history # <<>> => 1 \in 1..Len(history)
      OBVIOUS
    <2>2. Append(history, level) # <<>>
          /\ \A i \in 1..Len(history) : Append(history, level)[i] = history[i]
      BY <1>2, AppendProperties
    <2> QED BY <2>1, <2>2
  <1>9. pre # <<>> \/ q # <<>>
    <2>1. q = <<>> => ~lv
      <3>1. DOMAIN (<<>>) = {}
        OBVIOUS
      <3> QED BY <3>1
    <2>2. Append(history, level) # <<>>
      BY <1>2, AppendProperties
    <2> HIDE DEF lv
    <2> QED BY <2>1, <2>2
  <1> HIDE DEF pre
  <1>10. s \in Seq(Event) /\ RowsOf(s) = RowsOf(q)
    <2>1. s \in Seq(Event)
      BY <1>3, ConcatProperties
    <2>2. RowsOf(s) = RowsOf(pre) \cup RowsOf(q)
      BY <1>3, RowsConcat
    <2> QED BY <1>7, <2>1, <2>2
  <1>11. s # <<>>
    BY <1>3, <1>9, ConcatEqualIffEmpty
  <1>12. Sorted(q) => Sorted(s)
    BY <1>3, <1>7, SortedConcat
  <1>13. (Tells(q, b) => Tells(s, b)) /\ ~Silent(s)
    BY <1>3, <1>5, <1>7, TellsConcat, SilentConcat
  <1>14. history # <<>> => s[1] = history[1]
    <2>1. pre # <<>> => 1 \in 1..Len(pre) /\ Len(pre) \in Nat /\ Len(q) \in Nat
      BY <1>3, EmptySeq, LenProperties
    <2>2. pre # <<>> => s[1] = pre[1]
      BY <1>3, <2>1, ConcatProperties
    <2> QED BY <1>8, <2>2
  <1> QED BY <1>1, <1>10, <1>11, <1>12, <1>13, <1>14

-----------------------------------------------------------------------------
(* Types.                                                                  *)

Flags ==
    /\ running \in BOOLEAN /\ stampOwed \in BOOLEAN /\ registered \in BOOLEAN /\ path \in BOOLEAN
    /\ owed \in BOOLEAN /\ full \in BOOLEAN /\ turnOpen \in BOOLEAN
Values ==
    /\ stored \in Nat /\ fileRows \in Nat /\ tmuxName \in Nat
    /\ instance \in Nat /\ token \in Nat /\ asks \in Nat /\ lastRow \in Nat
    /\ queue \in Seq(Event) /\ posted \in Seq(Event)
    /\ pump \in {"idle", "hello", "messages", "last", "level", "post"}
    /\ hello \in [asked : Nat, token : Nat, covers : BOOLEAN, n : Nat, last : Nat, on : BOOLEAN]
    /\ tmuxSession \in Nat
    /\ connToken \in Nat /\ connInstance \in Nat /\ connName \in Nat
    /\ log \in Seq(Nat) /\ logRows \subseteq Nat

\* A rebuild is of the history at the head of the batch.
RebuildInv ==
    applying.at = "rebuild" => applying.batch # <<>> /\ Head(applying.batch).type = "history"

TypeInv == Flags /\ Values /\ CallType /\ ApplyType /\ CountType /\ RebuildInv

LEMMA TypeParts == TypeInv => TypeOK
  BY DEF TypeInv, TypeOK, ClaudeType, ModType, ConnType, Flags, Values

LEMMA EventTypes ==
    ASSUME NEW type \in {"row", "turn", "level", "history"}, NEW n \in Nat, NEW last \in Nat,
           NEW on \in BOOLEAN
    PROVE  /\ Ev(type, n, last, on) \in Event /\ ~Ev(type, n, last, on).covered
           /\ Ev(type, n, last, on).type = type /\ Ev(type, n, last, on).n = n
           /\ Ev(type, n, last, on).last = last /\ Ev(type, n, last, on).on = on
  BY DEF Ev, Event

LEMMA TypeInit == Init => TypeInv
  <1> SUFFICES ASSUME Init PROVE TypeInv
    OBVIOUS
  <1>1. Flags
    BY DEF Init, Flags
  <1>2. CallType
    BY DEF Init, CallType, NoReply
  <1>3. CountType
    BY DEF Init, CountType
  <1>4. applying = NoApply
    BY DEF Init
  <1>5. ApplyType /\ RebuildInv
    BY <1>4 DEF NoApply, ApplyType, RebuildInv
  <1>6. Values
    BY DEF Init, Values, NoHello
  <1> QED BY <1>1, <1>2, <1>3, <1>5, <1>6 DEF TypeInv

LEMMA TypeStoreRow ==
    ASSUME TypeInv, StoreRow
    PROVE  TypeInv'
  <1>0. Flags /\ Values /\ CallType /\ ApplyType /\ CountType /\ RebuildInv
    BY DEF TypeInv
  <1>1. PICK prompt \in BOOLEAN : queue' = Push(queue, Ev("row", stored + 1, 0, prompt))
    BY DEF StoreRow
  <1>2. stored + 1 \in Nat /\ queue \in Seq(Event)
    BY <1>0 DEF Values
  <1>3. Ev("row", stored + 1, 0, prompt) \in Event /\ ~Ev("row", stored + 1, 0, prompt).covered
    BY <1>2, EventTypes
  <1>4. queue' \in Seq(Event)
    BY <1>1, <1>2, <1>3, PushKeeps
  <1>5. fileRows' \in Nat
    BY <1>0 DEF StoreRow, Values
  <1>6. asks' \in Nat /\ token' \in Nat
    BY <1>0, SMTT(30) DEF StoreRow, Values, Rehello
  <1>7. Flags'
    BY <1>0, <1>1, <1>2, <1>3, <1>4, <1>5, <1>6 DEF StoreRow, Flags, claudeVars, modVars, connVars, countVars
  <1>8. CallType'
    BY <1>0, <1>1, <1>2, <1>3, <1>4, <1>5, <1>6 DEF StoreRow, CallType, Answer, claudeVars, modVars, connVars, countVars
  <1>9. ApplyType'
    BY <1>0, <1>1, <1>2, <1>3, <1>4, <1>5, <1>6 DEF StoreRow, ApplyType, NoApply, claudeVars, modVars, connVars, countVars
  <1>10. CountType'
    BY <1>0, <1>1, <1>2, <1>3, <1>4, <1>5, <1>6 DEF StoreRow, CountType, claudeVars, modVars, connVars, countVars
  <1>11. RebuildInv'
    BY <1>0, <1>1, <1>2, <1>3, <1>4, <1>5, <1>6 DEF StoreRow, RebuildInv, NoApply, claudeVars, modVars, connVars, countVars
  <1>12. Values'
    BY <1>0, <1>1, <1>2, <1>3, <1>4, <1>5, <1>6 DEF StoreRow, Values, claudeVars, modVars, connVars, countVars
  <1> QED BY <1>1, <1>2, <1>3, <1>4, <1>5, <1>6, <1>7, <1>8, <1>9, <1>10, <1>11, <1>12 DEF TypeInv

LEMMA TypeWriteFile ==
    ASSUME TypeInv, WriteFile
    PROVE  TypeInv'
  <1>0. Flags /\ Values /\ CallType /\ ApplyType /\ CountType /\ RebuildInv
    BY DEF TypeInv
  <1>1. Flags'
    BY <1>0 DEF WriteFile, Flags, claudeVars, modVars, connVars, countVars
  <1>2. CallType'
    BY <1>0 DEF WriteFile, CallType, Answer, claudeVars, modVars, connVars, countVars
  <1>3. ApplyType'
    BY <1>0 DEF WriteFile, ApplyType, NoApply, claudeVars, modVars, connVars, countVars
  <1>4. CountType'
    BY <1>0 DEF WriteFile, CountType, claudeVars, modVars, connVars, countVars
  <1>5. RebuildInv'
    BY <1>0 DEF WriteFile, RebuildInv, NoApply, claudeVars, modVars, connVars, countVars
  <1>6. Values'
    BY <1>0 DEF WriteFile, Values, claudeVars, modVars, connVars, countVars
  <1> QED BY <1>1, <1>2, <1>3, <1>4, <1>5, <1>6 DEF TypeInv

LEMMA TypeStartTurn ==
    ASSUME TypeInv, StartTurn
    PROVE  TypeInv'
  <1>0. Flags /\ Values /\ CallType /\ ApplyType /\ CountType /\ RebuildInv
    BY DEF TypeInv
  <1>1. Ev("turn", 0, 0, TRUE) \in Event /\ ~Ev("turn", 0, 0, TRUE).covered
    BY <1>0, EventTypes DEF Flags, Values
  <1>2. queue' \in Seq(Event)
    BY <1>0, <1>1, PushKeeps DEF StartTurn, Values
  <1>3. asks' \in Nat /\ token' \in Nat
    BY <1>0 DEF StartTurn, Values, Rehello
  <1>4. Flags'
    BY <1>0, <1>1, <1>2, <1>3 DEF StartTurn, Flags, claudeVars, modVars, connVars, countVars
  <1>5. CallType'
    BY <1>0, <1>1, <1>2, <1>3 DEF StartTurn, CallType, Answer, claudeVars, modVars, connVars, countVars
  <1>6. ApplyType'
    BY <1>0, <1>1, <1>2, <1>3 DEF StartTurn, ApplyType, NoApply, claudeVars, modVars, connVars, countVars
  <1>7. CountType'
    BY <1>0, <1>1, <1>2, <1>3 DEF StartTurn, CountType, claudeVars, modVars, connVars, countVars
  <1>8. RebuildInv'
    BY <1>0, <1>1, <1>2, <1>3 DEF StartTurn, RebuildInv, NoApply, claudeVars, modVars, connVars, countVars
  <1>9. Values'
    BY <1>0, <1>1, <1>2, <1>3 DEF StartTurn, Values, claudeVars, modVars, connVars, countVars
  <1> QED BY <1>1, <1>2, <1>3, <1>4, <1>5, <1>6, <1>7, <1>8, <1>9 DEF TypeInv

LEMMA TypeEndTurn ==
    ASSUME TypeInv, EndTurn
    PROVE  TypeInv'
  <1>0. Flags /\ Values /\ CallType /\ ApplyType /\ CountType /\ RebuildInv
    BY DEF TypeInv
  <1>1. Ev("turn", 0, 0, FALSE) \in Event /\ ~Ev("turn", 0, 0, FALSE).covered
    BY <1>0, EventTypes DEF Flags, Values
  <1>2. queue' \in Seq(Event)
    BY <1>0, <1>1, PushKeeps DEF EndTurn, Values
  <1>3. Flags'
    BY <1>0, <1>1, <1>2 DEF EndTurn, Flags, claudeVars, modVars, connVars, countVars
  <1>4. CallType'
    BY <1>0, <1>1, <1>2 DEF EndTurn, CallType, Answer, claudeVars, modVars, connVars, countVars
  <1>5. ApplyType'
    BY <1>0, <1>1, <1>2 DEF EndTurn, ApplyType, NoApply, claudeVars, modVars, connVars, countVars
  <1>6. CountType'
    BY <1>0, <1>1, <1>2 DEF EndTurn, CountType, claudeVars, modVars, connVars, countVars
  <1>7. RebuildInv'
    BY <1>0, <1>1, <1>2 DEF EndTurn, RebuildInv, NoApply, claudeVars, modVars, connVars, countVars
  <1>8. Values'
    BY <1>0, <1>1, <1>2 DEF EndTurn, Values, claudeVars, modVars, connVars, countVars
  <1> QED BY <1>1, <1>2, <1>3, <1>4, <1>5, <1>6, <1>7, <1>8 DEF TypeInv

LEMMA TypeSendLevel ==
    ASSUME TypeInv, SendLevel
    PROVE  TypeInv'
  <1>0. Flags /\ Values /\ CallType /\ ApplyType /\ CountType /\ RebuildInv
    BY DEF TypeInv
  <1>1. Ev("level", 0, 0, running) \in Event /\ ~Ev("level", 0, 0, running).covered
    BY <1>0, EventTypes DEF Flags, Values
  <1>2. queue' \in Seq(Event)
    BY <1>0, <1>1, PushKeeps DEF SendLevel, Values
  <1>3. Flags'
    BY <1>0, <1>1, <1>2 DEF SendLevel, Flags, claudeVars, modVars, connVars, countVars
  <1>4. CallType'
    BY <1>0, <1>1, <1>2 DEF SendLevel, CallType, Answer, claudeVars, modVars, connVars, countVars
  <1>5. ApplyType'
    BY <1>0, <1>1, <1>2 DEF SendLevel, ApplyType, NoApply, claudeVars, modVars, connVars, countVars
  <1>6. CountType'
    BY <1>0, <1>1, <1>2 DEF SendLevel, CountType, claudeVars, modVars, connVars, countVars
  <1>7. RebuildInv'
    BY <1>0, <1>1, <1>2 DEF SendLevel, RebuildInv, NoApply, claudeVars, modVars, connVars, countVars
  <1>8. Values'
    BY <1>0, <1>1, <1>2 DEF SendLevel, Values, claudeVars, modVars, connVars, countVars
  <1> QED BY <1>1, <1>2, <1>3, <1>4, <1>5, <1>6, <1>7, <1>8 DEF TypeInv

LEMMA TypeRename ==
    ASSUME TypeInv, Rename
    PROVE  TypeInv'
  <1>0. Flags /\ Values /\ CallType /\ ApplyType /\ CountType /\ RebuildInv
    BY DEF TypeInv
  <1>1. Flags'
    BY <1>0 DEF Rename, Flags, claudeVars, modVars, connVars, countVars
  <1>2. CallType'
    BY <1>0 DEF Rename, CallType, Answer, claudeVars, modVars, connVars, countVars
  <1>3. ApplyType'
    BY <1>0 DEF Rename, ApplyType, NoApply, claudeVars, modVars, connVars, countVars
  <1>4. CountType'
    BY <1>0 DEF Rename, CountType, claudeVars, modVars, connVars, countVars
  <1>5. RebuildInv'
    BY <1>0 DEF Rename, RebuildInv, NoApply, claudeVars, modVars, connVars, countVars
  <1>6. Values'
    BY <1>0 DEF Rename, Values, claudeVars, modVars, connVars, countVars
  <1> QED BY <1>1, <1>2, <1>3, <1>4, <1>5, <1>6 DEF TypeInv

LEMMA TypePollRefused ==
    ASSUME TypeInv, PollRefused
    PROVE  TypeInv'
  <1>0. Flags /\ Values /\ CallType /\ ApplyType /\ CountType /\ RebuildInv
    BY DEF TypeInv
  <1>1. Flags'
    BY <1>0 DEF PollRefused, Rehello, Flags, claudeVars, modVars, connVars, countVars
  <1>2. CallType'
    BY <1>0 DEF PollRefused, Rehello, CallType, Answer, claudeVars, modVars, connVars, countVars
  <1>3. ApplyType'
    BY <1>0 DEF PollRefused, Rehello, ApplyType, NoApply, claudeVars, modVars, connVars, countVars
  <1>4. CountType'
    BY <1>0 DEF PollRefused, Rehello, CountType, claudeVars, modVars, connVars, countVars
  <1>5. RebuildInv'
    BY <1>0 DEF PollRefused, Rehello, RebuildInv, NoApply, claudeVars, modVars, connVars, countVars
  <1>6. Values'
    BY <1>0 DEF PollRefused, Rehello, Values, claudeVars, modVars, connVars, countVars
  <1> QED BY <1>1, <1>2, <1>3, <1>4, <1>5, <1>6 DEF TypeInv

LEMMA TypeSendHello ==
    ASSUME TypeInv, SendHello
    PROVE  TypeInv'
  <1>0. Flags /\ Values /\ CallType /\ ApplyType /\ CountType /\ RebuildInv
    BY DEF TypeInv
  <1>1. HelloCall \in Call
    BY <1>0 DEF HelloCall, Call, Values
  <1>2. calls' \subseteq Call
    BY <1>0, <1>1 DEF SendHello, CallType
  <1>3. hello' \in [asked : Nat, token : Nat, covers : BOOLEAN, n : Nat, last : Nat, on : BOOLEAN]
    BY <1>0 DEF SendHello, NoHello, Values
  <1>4. Flags'
    BY <1>0, <1>1, <1>2, <1>3 DEF SendHello, Flags, claudeVars, modVars, connVars, countVars
  <1>5. CallType'
    BY <1>0, <1>1, <1>2, <1>3 DEF SendHello, CallType, Answer, claudeVars, modVars, connVars, countVars
  <1>6. ApplyType'
    BY <1>0, <1>1, <1>2, <1>3 DEF SendHello, ApplyType, NoApply, claudeVars, modVars, connVars, countVars
  <1>7. CountType'
    BY <1>0, <1>1, <1>2, <1>3 DEF SendHello, CountType, claudeVars, modVars, connVars, countVars
  <1>8. RebuildInv'
    BY <1>0, <1>1, <1>2, <1>3 DEF SendHello, RebuildInv, NoApply, claudeVars, modVars, connVars, countVars
  <1>9. Values'
    BY <1>0, <1>1, <1>2, <1>3 DEF SendHello, Values, claudeVars, modVars, connVars, countVars
  <1> QED BY <1>1, <1>2, <1>3, <1>4, <1>5, <1>6, <1>7, <1>8, <1>9 DEF TypeInv

LEMMA TypeHelloAnswered ==
    ASSUME TypeInv, HelloAnswered
    PROVE  TypeInv'
  <1>0. Flags /\ Values /\ CallType /\ ApplyType /\ CountType /\ RebuildInv
    BY DEF TypeInv
  <1>1. reply \in Reply
    BY <1>0 DEF HelloAnswered, CallType
  <1>2. hello' = NoHello \/ hello' = [hello EXCEPT !.token = reply.token, !.covers = reply.history]
    BY DEF HelloAnswered
  <1>3. hello' \in [asked : Nat, token : Nat, covers : BOOLEAN, n : Nat, last : Nat, on : BOOLEAN]
    <2>1. hello \in [asked : Nat, token : Nat, covers : BOOLEAN, n : Nat, last : Nat, on : BOOLEAN]
      BY <1>0 DEF Values
    <2>2. <<>> \in Seq(Nat) /\ <<>> \in Seq(Event) /\ {} \subseteq Nat
      OBVIOUS
    <2>3. reply.token \in Nat /\ reply.history \in BOOLEAN
      BY <1>1 DEF Reply
    <2>4. NoHello \in [asked : Nat, token : Nat, covers : BOOLEAN, n : Nat, last : Nat, on : BOOLEAN]
      BY DEF NoHello
    <2> QED BY <2>1, <2>3, <2>4, <1>2
  <1>4. pump' \in {"idle", "hello", "messages", "last", "level", "post"}
    BY DEF HelloAnswered
  <1>5. queue' = queue \/ queue' = Covered(queue)
    BY DEF HelloAnswered, Covered
  <1>6. queue' \in Seq(Event)
    BY <1>0, <1>5, CoveredKeeps DEF Values
  <1>7. Flags'
    BY <1>0, <1>1, <1>2, <1>3, <1>4, <1>5, <1>6 DEF HelloAnswered, Flags, claudeVars, modVars, connVars, countVars
  <1>8. CallType'
    BY <1>0, <1>1, <1>2, <1>3, <1>4, <1>5, <1>6 DEF HelloAnswered, CallType, Answer, claudeVars, modVars, connVars, countVars
  <1>9. ApplyType'
    BY <1>0, <1>1, <1>2, <1>3, <1>4, <1>5, <1>6 DEF HelloAnswered, ApplyType, NoApply, claudeVars, modVars, connVars, countVars
  <1>10. CountType'
    BY <1>0, <1>1, <1>2, <1>3, <1>4, <1>5, <1>6 DEF HelloAnswered, CountType, claudeVars, modVars, connVars, countVars
  <1>11. RebuildInv'
    BY <1>0, <1>1, <1>2, <1>3, <1>4, <1>5, <1>6 DEF HelloAnswered, RebuildInv, NoApply, claudeVars, modVars, connVars, countVars
  <1>12. Values'
    BY <1>0, <1>1, <1>2, <1>3, <1>4, <1>5, <1>6 DEF HelloAnswered, Values, claudeVars, modVars, connVars, countVars
  <1> QED BY <1>1, <1>2, <1>3, <1>4, <1>5, <1>6, <1>7, <1>8, <1>9, <1>10, <1>11, <1>12 DEF TypeInv

LEMMA TypeReadMessages ==
    ASSUME TypeInv, ReadMessages
    PROVE  TypeInv'
  <1>0. Flags /\ Values /\ CallType /\ ApplyType /\ CountType /\ RebuildInv
    BY DEF TypeInv
  <1>1. Flags'
    BY <1>0 DEF ReadMessages, Flags, claudeVars, modVars, connVars, countVars
  <1>2. CallType'
    BY <1>0 DEF ReadMessages, CallType, Answer, claudeVars, modVars, connVars, countVars
  <1>3. ApplyType'
    BY <1>0 DEF ReadMessages, ApplyType, NoApply, claudeVars, modVars, connVars, countVars
  <1>4. CountType'
    BY <1>0 DEF ReadMessages, CountType, claudeVars, modVars, connVars, countVars
  <1>5. RebuildInv'
    BY <1>0 DEF ReadMessages, RebuildInv, NoApply, claudeVars, modVars, connVars, countVars
  <1>6. Values'
    BY <1>0 DEF ReadMessages, Values, claudeVars, modVars, connVars, countVars
  <1> QED BY <1>1, <1>2, <1>3, <1>4, <1>5, <1>6 DEF TypeInv

LEMMA TypeReadLast ==
    ASSUME TypeInv, ReadLast
    PROVE  TypeInv'
  <1>0. Flags /\ Values /\ CallType /\ ApplyType /\ CountType /\ RebuildInv
    BY DEF TypeInv
  <1>1. hello' \in [asked : Nat, token : Nat, covers : BOOLEAN, n : Nat, last : Nat, on : BOOLEAN]
    BY <1>0 DEF ReadLast, Flags, Values
  <1>2. Flags'
    BY <1>0, <1>1 DEF ReadLast, Flags, claudeVars, modVars, connVars, countVars
  <1>3. CallType'
    BY <1>0, <1>1 DEF ReadLast, CallType, Answer, claudeVars, modVars, connVars, countVars
  <1>4. ApplyType'
    BY <1>0, <1>1 DEF ReadLast, ApplyType, NoApply, claudeVars, modVars, connVars, countVars
  <1>5. CountType'
    BY <1>0, <1>1 DEF ReadLast, CountType, claudeVars, modVars, connVars, countVars
  <1>6. RebuildInv'
    BY <1>0, <1>1 DEF ReadLast, RebuildInv, NoApply, claudeVars, modVars, connVars, countVars
  <1>7. Values'
    BY <1>0, <1>1 DEF ReadLast, Values, claudeVars, modVars, connVars, countVars
  <1> QED BY <1>1, <1>2, <1>3, <1>4, <1>5, <1>6, <1>7 DEF TypeInv

LEMMA TypeFinishHello ==
    ASSUME TypeInv, FinishHello
    PROVE  TypeInv'
  <1>0. Flags /\ Values /\ CallType /\ ApplyType /\ CountType /\ RebuildInv
    BY DEF TypeInv
  <1>1. queue' \in Seq(Event) /\ token' \in Nat
    <2>1. CASE asks # hello.asked
      BY <1>0, <2>1 DEF FinishHello, Values
    <2>2. CASE asks = hello.asked
      <3> DEFINE left == IF hello.covers THEN Kept(queue, Uncovered(queue)) ELSE queue
                 h == Ev("history", hello.n, hello.last, hello.on)
                 history == IF hello.covers THEN <<h>> ELSE <<>>
                 level == Ev("level", 0, 0, running)
      <3>1. Uncovered(queue) \in SUBSET (DOMAIN queue) /\ queue \in Seq(Event)
        BY <1>0 DEF Uncovered, Values
      <3>2. left \in Seq(Event)
        BY <3>1, KeptEvents
      <3>3. hello.n \in Nat /\ hello.last \in Nat /\ hello.on \in BOOLEAN /\ hello.token \in Nat
        BY <1>0 DEF Values
      <3>4. h \in Event /\ h.type = "history"
        BY <3>3, EventTypes
      <3>5. history = <<>> \/ \E e \in Event : e.type = "history" /\ history = <<e>>
        BY <3>4
      <3>6. level \in Event /\ level.type = "level"
        BY <1>0, EventTypes DEF Flags
      <3>7. queue' = Prepend(left, history, level) /\ token' = hello.token
        BY <2>2 DEF FinishHello, Uncovered
      <3> HIDE DEF left, history, h, level
      <3> QED BY <3>2, <3>3, <3>5, <3>6, <3>7, PrependKeeps
    <2> QED BY <2>1, <2>2
  <1>2. hello' = NoHello /\ pump' = "idle"
    BY DEF FinishHello
  <1>3. hello' \in [asked : Nat, token : Nat, covers : BOOLEAN, n : Nat, last : Nat, on : BOOLEAN]
    BY <1>2 DEF NoHello
  <1>4. Flags'
    BY <1>0, <1>1, <1>2, <1>3 DEF FinishHello, Flags, claudeVars, modVars, connVars, countVars
  <1>5. CallType'
    BY <1>0, <1>1, <1>2, <1>3 DEF FinishHello, CallType, Answer, claudeVars, modVars, connVars, countVars
  <1>6. ApplyType'
    BY <1>0, <1>1, <1>2, <1>3 DEF FinishHello, ApplyType, NoApply, claudeVars, modVars, connVars, countVars
  <1>7. CountType'
    BY <1>0, <1>1, <1>2, <1>3 DEF FinishHello, CountType, claudeVars, modVars, connVars, countVars
  <1>8. RebuildInv'
    BY <1>0, <1>1, <1>2, <1>3 DEF FinishHello, RebuildInv, NoApply, claudeVars, modVars, connVars, countVars
  <1>9. Values'
    BY <1>0, <1>1, <1>2, <1>3 DEF FinishHello, Values, claudeVars, modVars, connVars, countVars
  <1> QED BY <1>1, <1>2, <1>3, <1>4, <1>5, <1>6, <1>7, <1>8, <1>9 DEF TypeInv

LEMMA TypeHistoryFails ==
    ASSUME TypeInv, HistoryFails
    PROVE  TypeInv'
  <1>0. Flags /\ Values /\ CallType /\ ApplyType /\ CountType /\ RebuildInv
    BY DEF TypeInv
  <1>1. NoHello \in [asked : Nat, token : Nat, covers : BOOLEAN, n : Nat, last : Nat, on : BOOLEAN]
    BY DEF NoHello
  <1>2. Flags'
    BY <1>0, <1>1 DEF HistoryFails, Flags, claudeVars, modVars, connVars, countVars
  <1>3. CallType'
    BY <1>0, <1>1 DEF HistoryFails, CallType, Answer, claudeVars, modVars, connVars, countVars
  <1>4. ApplyType'
    BY <1>0, <1>1 DEF HistoryFails, ApplyType, NoApply, claudeVars, modVars, connVars, countVars
  <1>5. CountType'
    BY <1>0, <1>1 DEF HistoryFails, CountType, claudeVars, modVars, connVars, countVars
  <1>6. RebuildInv'
    BY <1>0, <1>1 DEF HistoryFails, RebuildInv, NoApply, claudeVars, modVars, connVars, countVars
  <1>7. Values'
    BY <1>0, <1>1 DEF HistoryFails, Values, claudeVars, modVars, connVars, countVars
  <1> QED BY <1>1, <1>2, <1>3, <1>4, <1>5, <1>6, <1>7 DEF TypeInv

LEMMA TypeFlush ==
    ASSUME TypeInv, Flush
    PROVE  TypeInv'
  <1>0. Flags /\ Values /\ CallType /\ ApplyType /\ CountType /\ RebuildInv
    BY DEF TypeInv
  <1>1. EventsCall(queue) \in Call
    BY <1>0 DEF EventsCall, Call, Values
  <1>2. calls' \subseteq Call
    BY <1>0, <1>1 DEF Flush, CallType
  <1>3. hello' \in [asked : Nat, token : Nat, covers : BOOLEAN, n : Nat, last : Nat, on : BOOLEAN]
    BY <1>0 DEF Flush, NoHello, Values
  <1>4. <<>> \in Seq(Event)
    OBVIOUS
  <1>5. Flags'
    BY <1>0, <1>1, <1>2, <1>3, <1>4 DEF Flush, Flags, claudeVars, modVars, connVars, countVars
  <1>6. CallType'
    BY <1>0, <1>1, <1>2, <1>3, <1>4 DEF Flush, CallType, Answer, claudeVars, modVars, connVars, countVars
  <1>7. ApplyType'
    BY <1>0, <1>1, <1>2, <1>3, <1>4 DEF Flush, ApplyType, NoApply, claudeVars, modVars, connVars, countVars
  <1>8. CountType'
    BY <1>0, <1>1, <1>2, <1>3, <1>4 DEF Flush, CountType, claudeVars, modVars, connVars, countVars
  <1>9. RebuildInv'
    BY <1>0, <1>1, <1>2, <1>3, <1>4 DEF Flush, RebuildInv, NoApply, claudeVars, modVars, connVars, countVars
  <1>10. Values'
    BY <1>0, <1>1, <1>2, <1>3, <1>4 DEF Flush, Values, claudeVars, modVars, connVars, countVars
  <1> QED BY <1>1, <1>2, <1>3, <1>4, <1>5, <1>6, <1>7, <1>8, <1>9, <1>10 DEF TypeInv

LEMMA TypeFlushAnswered ==
    ASSUME TypeInv, FlushAnswered
    PROVE  TypeInv'
  <1>0. Flags /\ Values /\ CallType /\ ApplyType /\ CountType /\ RebuildInv
    BY DEF TypeInv
  <1>1. NoHello \in [asked : Nat, token : Nat, covers : BOOLEAN, n : Nat, last : Nat, on : BOOLEAN]
    BY DEF NoHello
  <1>2. queue' = queue \/ queue' = posted \o queue
    BY DEF FlushAnswered
  <1>3. queue' \in Seq(Event)
    <2>1. queue \in Seq(Event) /\ posted \in Seq(Event)
      BY <1>0 DEF Values
    <2>2. <<>> \in Seq(Nat) /\ <<>> \in Seq(Event) /\ {} \subseteq Nat
      OBVIOUS
    <2> QED BY <2>1, <2>2, <1>2, ConcatProperties
  <1>4. token' \in Nat
    BY <1>0 DEF FlushAnswered, Values
  <1>5. <<>> \in Seq(Event)
    OBVIOUS
  <1>6. Flags'
    BY <1>0, <1>1, <1>2, <1>3, <1>4, <1>5 DEF FlushAnswered, Flags, claudeVars, modVars, connVars, countVars
  <1>7. CallType'
    BY <1>0, <1>1, <1>2, <1>3, <1>4, <1>5 DEF FlushAnswered, CallType, Answer, claudeVars, modVars, connVars, countVars
  <1>8. ApplyType'
    BY <1>0, <1>1, <1>2, <1>3, <1>4, <1>5 DEF FlushAnswered, ApplyType, NoApply, claudeVars, modVars, connVars, countVars
  <1>9. CountType'
    BY <1>0, <1>1, <1>2, <1>3, <1>4, <1>5 DEF FlushAnswered, CountType, claudeVars, modVars, connVars, countVars
  <1>10. RebuildInv'
    BY <1>0, <1>1, <1>2, <1>3, <1>4, <1>5 DEF FlushAnswered, RebuildInv, NoApply, claudeVars, modVars, connVars, countVars
  <1>11. Values'
    BY <1>0, <1>1, <1>2, <1>3, <1>4, <1>5 DEF FlushAnswered, Values, claudeVars, modVars, connVars, countVars
  <1> QED BY <1>1, <1>2, <1>3, <1>4, <1>5, <1>6, <1>7, <1>8, <1>9, <1>10, <1>11 DEF TypeInv

LEMMA TypeRequestDies ==
    ASSUME TypeInv, RequestDies
    PROVE  TypeInv'
  <1>0. Flags /\ Values /\ CallType /\ ApplyType /\ CountType /\ RebuildInv
    BY DEF TypeInv
  <1>1. NoHello \in [asked : Nat, token : Nat, covers : BOOLEAN, n : Nat, last : Nat, on : BOOLEAN]
    BY DEF NoHello
  <1>2. queue' \in Seq(Event)
    BY <1>0, ConcatProperties DEF RequestDies, RequestFails, Values
  <1>3. <<>> \in Seq(Event)
    OBVIOUS
  <1>4. Flags'
    BY <1>0, <1>1, <1>2, <1>3 DEF RequestDies, RequestFails, Flags, claudeVars, modVars, connVars, countVars
  <1>5. CallType'
    BY <1>0, <1>1, <1>2, <1>3 DEF RequestDies, RequestFails, CallType, Answer, claudeVars, modVars, connVars, countVars
  <1>6. ApplyType'
    BY <1>0, <1>1, <1>2, <1>3 DEF RequestDies, RequestFails, ApplyType, NoApply, claudeVars, modVars, connVars, countVars
  <1>7. CountType'
    BY <1>0, <1>1, <1>2, <1>3 DEF RequestDies, RequestFails, CountType, claudeVars, modVars, connVars, countVars
  <1>8. RebuildInv'
    BY <1>0, <1>1, <1>2, <1>3 DEF RequestDies, RequestFails, RebuildInv, NoApply, claudeVars, modVars, connVars, countVars
  <1>9. Values'
    BY <1>0, <1>1, <1>2, <1>3 DEF RequestDies, RequestFails, Values, claudeVars, modVars, connVars, countVars
  <1> QED BY <1>1, <1>2, <1>3, <1>4, <1>5, <1>6, <1>7, <1>8, <1>9 DEF TypeInv

LEMMA TypeReplyLost ==
    ASSUME TypeInv, ReplyLost
    PROVE  TypeInv'
  <1>0. Flags /\ Values /\ CallType /\ ApplyType /\ CountType /\ RebuildInv
    BY DEF TypeInv
  <1>1. NoHello \in [asked : Nat, token : Nat, covers : BOOLEAN, n : Nat, last : Nat, on : BOOLEAN]
    BY DEF NoHello
  <1>2. queue' \in Seq(Event)
    BY <1>0, ConcatProperties DEF ReplyLost, RequestFails, Values
  <1>3. <<>> \in Seq(Event)
    OBVIOUS
  <1>4. Flags'
    BY <1>0, <1>1, <1>2, <1>3 DEF ReplyLost, RequestFails, Flags, claudeVars, modVars, connVars, countVars
  <1>5. CallType'
    BY <1>0, <1>1, <1>2, <1>3 DEF ReplyLost, RequestFails, CallType, Answer, claudeVars, modVars, connVars, countVars
  <1>6. ApplyType'
    BY <1>0, <1>1, <1>2, <1>3 DEF ReplyLost, RequestFails, ApplyType, NoApply, claudeVars, modVars, connVars, countVars
  <1>7. CountType'
    BY <1>0, <1>1, <1>2, <1>3 DEF ReplyLost, RequestFails, CountType, claudeVars, modVars, connVars, countVars
  <1>8. RebuildInv'
    BY <1>0, <1>1, <1>2, <1>3 DEF ReplyLost, RequestFails, RebuildInv, NoApply, claudeVars, modVars, connVars, countVars
  <1>9. Values'
    BY <1>0, <1>1, <1>2, <1>3 DEF ReplyLost, RequestFails, Values, claudeVars, modVars, connVars, countVars
  <1> QED BY <1>1, <1>2, <1>3, <1>4, <1>5, <1>6, <1>7, <1>8, <1>9 DEF TypeInv

LEMMA TypeGiveUp ==
    ASSUME TypeInv, GiveUp
    PROVE  TypeInv'
  <1>0. Flags /\ Values /\ CallType /\ ApplyType /\ CountType /\ RebuildInv
    BY DEF TypeInv
  <1>1. NoHello \in [asked : Nat, token : Nat, covers : BOOLEAN, n : Nat, last : Nat, on : BOOLEAN]
    BY DEF NoHello
  <1>2. queue' \in Seq(Event)
    BY <1>0, ConcatProperties DEF GiveUp, RequestFails, Values
  <1>3. <<>> \in Seq(Event)
    OBVIOUS
  <1>4. \A c \in Call : [c EXCEPT !.waited = FALSE] \in Call
    BY DEF Call
  <1>5. calls' \subseteq Call
    BY <1>0, <1>4 DEF GiveUp, CallType
  <1>6. /\ applying' \in [batch : Seq(Event), at : {"free", "fold", "rebuild"}, live : BOOLEAN,
                          waited : BOOLEAN, state : BOOLEAN]
        /\ applying'.at = applying.at /\ applying'.batch = applying.batch
    BY <1>0 DEF GiveUp, ApplyType
  <1>7. Flags'
    BY <1>0, <1>1, <1>2, <1>3, <1>4, <1>5, <1>6 DEF GiveUp, RequestFails, Flags, claudeVars, modVars, connVars, countVars
  <1>8. CallType'
    BY <1>0, <1>1, <1>2, <1>3, <1>4, <1>5, <1>6 DEF GiveUp, RequestFails, CallType, Answer, claudeVars, modVars, connVars, countVars
  <1>9. ApplyType'
    BY <1>0, <1>1, <1>2, <1>3, <1>4, <1>5, <1>6 DEF GiveUp, RequestFails, ApplyType, NoApply, claudeVars, modVars, connVars, countVars
  <1>10. CountType'
    BY <1>0, <1>1, <1>2, <1>3, <1>4, <1>5, <1>6 DEF GiveUp, RequestFails, CountType, claudeVars, modVars, connVars, countVars
  <1>11. RebuildInv'
    BY <1>0, <1>1, <1>2, <1>3, <1>4, <1>5, <1>6 DEF GiveUp, RequestFails, RebuildInv, NoApply, claudeVars, modVars, connVars, countVars
  <1>12. Values'
    BY <1>0, <1>1, <1>2, <1>3, <1>4, <1>5, <1>6 DEF GiveUp, RequestFails, Values, claudeVars, modVars, connVars, countVars
  <1> QED BY <1>1, <1>2, <1>3, <1>4, <1>5, <1>6, <1>7, <1>8, <1>9, <1>10, <1>11, <1>12 DEF TypeInv

LEMMA TypeReload ==
    ASSUME TypeInv, Reload
    PROVE  TypeInv'
  <1>0. Flags /\ Values /\ CallType /\ ApplyType /\ CountType /\ RebuildInv
    BY DEF TypeInv
  <1>1. NoHello \in [asked : Nat, token : Nat, covers : BOOLEAN, n : Nat, last : Nat, on : BOOLEAN]
    BY DEF NoHello
  <1>2. \A c \in Call : [c EXCEPT !.waited = FALSE] \in Call
    BY DEF Call
  <1>3. calls' \subseteq Call
    BY <1>0, <1>2 DEF Reload, CallType
  <1>4. /\ applying' \in [batch : Seq(Event), at : {"free", "fold", "rebuild"}, live : BOOLEAN,
                          waited : BOOLEAN, state : BOOLEAN]
        /\ applying'.at = applying.at /\ applying'.batch = applying.batch
    BY <1>0 DEF Reload, ApplyType
  <1>5. <<>> \in Seq(Event)
    OBVIOUS
  <1>6. instance' \in Nat /\ tmuxSession' \in Nat
    <2>1. instance \in Nat /\ tmuxName \in Nat
      BY <1>0 DEF Values
    <2> QED BY <2>1 DEF Reload
  <1>7. token' = 0 /\ asks' = 0 /\ lastRow' = 0 /\ pump' = "idle"
    BY DEF Reload
  <1>8. queue' = <<>> /\ posted' = <<>> /\ hello' = NoHello
    BY DEF Reload
  <1>9. Flags'
    BY <1>0, <1>1, <1>2, <1>3, <1>4, <1>5, <1>6, <1>7, <1>8 DEF Reload, Flags, claudeVars, modVars, connVars, countVars
  <1>10. CallType'
    BY <1>0, <1>1, <1>2, <1>3, <1>4, <1>5, <1>6, <1>7, <1>8 DEF Reload, CallType, Answer, claudeVars, modVars, connVars, countVars
  <1>11. ApplyType'
    BY <1>0, <1>1, <1>2, <1>3, <1>4, <1>5, <1>6, <1>7, <1>8 DEF Reload, ApplyType, NoApply, claudeVars, modVars, connVars, countVars
  <1>12. CountType'
    BY <1>0, <1>1, <1>2, <1>3, <1>4, <1>5, <1>6, <1>7, <1>8 DEF Reload, CountType, claudeVars, modVars, connVars, countVars
  <1>13. RebuildInv'
    BY <1>0, <1>1, <1>2, <1>3, <1>4, <1>5, <1>6, <1>7, <1>8 DEF Reload, RebuildInv, NoApply, claudeVars, modVars, connVars, countVars
  <1>14. Values'
    BY <1>0, <1>1, <1>2, <1>3, <1>4, <1>5, <1>6, <1>7, <1>8 DEF Reload, Values, claudeVars, modVars, connVars, countVars
  <1> QED BY <1>1, <1>2, <1>3, <1>4, <1>5, <1>6, <1>7, <1>8, <1>9, <1>10, <1>11, <1>12, <1>13, <1>14 DEF TypeInv

LEMMA TypeServeHello ==
    ASSUME TypeInv, NEW c \in calls, ServeHello(c)
    PROVE  TypeInv'
  <1>0. Flags /\ Values /\ CallType /\ ApplyType /\ CountType /\ RebuildInv
    BY DEF TypeInv
  <1>1. c.instance \in Nat /\ c.name \in Nat /\ c.file \in BOOLEAN
    BY <1>0 DEF CallType, Call
  <1>2. turnOpen' \in BOOLEAN /\ path' \in BOOLEAN /\ owed' \in BOOLEAN
    <2>1. Stamped(c) \in BOOLEAN
      BY DEF Stamped
    <2> QED BY <1>0, <1>1, <2>1 DEF ServeHello, Flags
  <1>3. (log' = <<>> /\ logRows' = {}) \/ (log' = log /\ logRows' = logRows)
    BY DEF ServeHello
  <1>4. log' \in Seq(Nat) /\ logRows' \subseteq Nat
    <2>1. log \in Seq(Nat) /\ logRows \subseteq Nat
      BY <1>0 DEF Values
    <2>2. <<>> \in Seq(Nat) /\ <<>> \in Seq(Event) /\ {} \subseteq Nat
      OBVIOUS
    <2> QED BY <2>1, <2>2, <1>3
  <1>5. tokens + 1 \in Nat
    BY <1>0 DEF CountType
  <1>6. [status |-> 200, token |-> tokens + 1, history |-> owed'] \in Reply
    BY <1>2, <1>5 DEF Reply
  <1>7. reply' \in Reply \cup {NoReply}
    BY <1>0, <1>6 DEF ServeHello, Answer, CallType
  <1>8. /\ applying' \in [batch : Seq(Event), at : {"free", "fold", "rebuild"}, live : BOOLEAN,
                          waited : BOOLEAN, state : BOOLEAN]
        /\ applying'.at = applying.at /\ applying'.batch = applying.batch
    BY <1>0 DEF ServeHello, ApplyType
  <1>9. Flags'
    BY <1>0, <1>1, <1>2, <1>3, <1>4, <1>5, <1>6, <1>7, <1>8 DEF ServeHello, Flags, claudeVars, modVars, connVars, countVars
  <1>10. CallType'
    BY <1>0, <1>1, <1>2, <1>3, <1>4, <1>5, <1>6, <1>7, <1>8 DEF ServeHello, CallType, Answer, claudeVars, modVars, connVars, countVars
  <1>11. ApplyType'
    BY <1>0, <1>1, <1>2, <1>3, <1>4, <1>5, <1>6, <1>7, <1>8 DEF ServeHello, ApplyType, NoApply, claudeVars, modVars, connVars, countVars
  <1>12. CountType'
    BY <1>0, <1>1, <1>2, <1>3, <1>4, <1>5, <1>6, <1>7, <1>8 DEF ServeHello, CountType, claudeVars, modVars, connVars, countVars
  <1>13. RebuildInv'
    BY <1>0, <1>1, <1>2, <1>3, <1>4, <1>5, <1>6, <1>7, <1>8 DEF ServeHello, RebuildInv, NoApply, claudeVars, modVars, connVars, countVars
  <1>14. Values'
    BY <1>0, <1>1, <1>2, <1>3, <1>4, <1>5, <1>6, <1>7, <1>8 DEF ServeHello, Values, claudeVars, modVars, connVars, countVars
  <1> QED BY <1>1, <1>2, <1>3, <1>4, <1>5, <1>6, <1>7, <1>8, <1>9, <1>10, <1>11, <1>12, <1>13, <1>14 DEF TypeInv

LEMMA TypeAdmit ==
    ASSUME TypeInv, NEW c \in calls, Admit(c)
    PROVE  TypeInv'
  <1>0. Flags /\ Values /\ CallType /\ ApplyType /\ CountType /\ RebuildInv
    BY DEF TypeInv
  <1>1. [c EXCEPT !.at = "admitted"] \in Call
    BY <1>0 DEF CallType, Call
  <1>2. [status |-> 409, token |-> 0, history |-> FALSE] \in Reply
    BY DEF Reply
  <1>3. calls' \subseteq Call
    BY <1>0, <1>1 DEF Admit, CallType
  <1>4. reply' \in Reply \cup {NoReply}
    BY <1>0, <1>2 DEF Admit, Answer, CallType
  <1>5. Flags'
    BY <1>0, <1>1, <1>2, <1>3, <1>4 DEF Admit, Flags, claudeVars, modVars, connVars, countVars
  <1>6. CallType'
    BY <1>0, <1>1, <1>2, <1>3, <1>4 DEF Admit, CallType, Answer, claudeVars, modVars, connVars, countVars
  <1>7. ApplyType'
    BY <1>0, <1>1, <1>2, <1>3, <1>4 DEF Admit, ApplyType, NoApply, claudeVars, modVars, connVars, countVars
  <1>8. CountType'
    BY <1>0, <1>1, <1>2, <1>3, <1>4 DEF Admit, CountType, claudeVars, modVars, connVars, countVars
  <1>9. RebuildInv'
    BY <1>0, <1>1, <1>2, <1>3, <1>4 DEF Admit, RebuildInv, NoApply, claudeVars, modVars, connVars, countVars
  <1>10. Values'
    BY <1>0, <1>1, <1>2, <1>3, <1>4 DEF Admit, Values, claudeVars, modVars, connVars, countVars
  <1> QED BY <1>1, <1>2, <1>3, <1>4, <1>5, <1>6, <1>7, <1>8, <1>9, <1>10 DEF TypeInv

LEMMA TypeBeginApply ==
    ASSUME TypeInv, NEW c \in calls, BeginApply(c)
    PROVE  TypeInv'
  <1>0. Flags /\ Values /\ CallType /\ ApplyType /\ CountType /\ RebuildInv
    BY DEF TypeInv
  <1>1. c.batch \in Seq(Event) /\ c.waited \in BOOLEAN
    BY <1>0 DEF CallType, Call
  <1>2. Flags'
    BY <1>0, <1>1 DEF BeginApply, Flags, claudeVars, modVars, connVars, countVars
  <1>3. CallType'
    BY <1>0, <1>1 DEF BeginApply, CallType, Answer, claudeVars, modVars, connVars, countVars
  <1>4. ApplyType'
    BY <1>0, <1>1 DEF BeginApply, ApplyType, NoApply, claudeVars, modVars, connVars, countVars
  <1>5. CountType'
    BY <1>0, <1>1 DEF BeginApply, CountType, claudeVars, modVars, connVars, countVars
  <1>6. RebuildInv'
    BY <1>0, <1>1 DEF BeginApply, RebuildInv, NoApply, claudeVars, modVars, connVars, countVars
  <1>7. Values'
    BY <1>0, <1>1 DEF BeginApply, Values, claudeVars, modVars, connVars, countVars
  <1> QED BY <1>1, <1>2, <1>3, <1>4, <1>5, <1>6, <1>7 DEF TypeInv

LEMMA TypeApplyRow ==
    ASSUME TypeInv, ApplyRow
    PROVE  TypeInv'
  <1>0. Flags /\ Values /\ CallType /\ ApplyType /\ CountType /\ RebuildInv
    BY DEF TypeInv
  <1>1. Head(applying.batch) \in Event /\ Tail(applying.batch) \in Seq(Event)
    BY <1>0, HeadTailProperties DEF ApplyRow, TakeEvent, ApplyType, RebuildInv
  <1>2. Head(applying.batch).n \in Nat /\ Head(applying.batch).on \in BOOLEAN
    BY <1>1 DEF Event
  <1>3. \/ log' = log /\ logRows' = logRows
        \/ log' = Append(log, Head(applying.batch).n) /\ logRows' = logRows \cup {Head(applying.batch).n}
    BY DEF ApplyRow
  <1>4. log' \in Seq(Nat) /\ logRows' \subseteq Nat
    <2>1. log \in Seq(Nat) /\ logRows \subseteq Nat
      BY <1>0 DEF Values
    <2>2. <<>> \in Seq(Nat) /\ <<>> \in Seq(Event) /\ {} \subseteq Nat
      OBVIOUS
    <2>3. Append(log, Head(applying.batch).n) \in Seq(Nat)
      BY <1>2, <2>1, AppendProperties
    <2>4. logRows \cup {Head(applying.batch).n} \subseteq Nat
      BY <1>2, <2>1
    <2> QED BY <1>3, <2>1, <2>3, <2>4
  <1>5. /\ applying' \in [batch : Seq(Event), at : {"free", "fold", "rebuild"}, live : BOOLEAN,
                          waited : BOOLEAN, state : BOOLEAN]
        /\ applying'.at # "rebuild"
    BY <1>0, <1>1 DEF ApplyRow, TakeEvent, ApplyType
  <1>6. Flags'
    BY <1>0, <1>1, <1>2, <1>3, <1>4, <1>5 DEF ApplyRow, Flags, claudeVars, modVars, connVars, countVars
  <1>7. CallType'
    BY <1>0, <1>1, <1>2, <1>3, <1>4, <1>5 DEF ApplyRow, CallType, Answer, claudeVars, modVars, connVars, countVars
  <1>8. ApplyType'
    BY <1>0, <1>1, <1>2, <1>3, <1>4, <1>5 DEF ApplyRow, ApplyType, NoApply, claudeVars, modVars, connVars, countVars
  <1>9. CountType'
    BY <1>0, <1>1, <1>2, <1>3, <1>4, <1>5 DEF ApplyRow, CountType, claudeVars, modVars, connVars, countVars
  <1>10. RebuildInv'
    BY <1>0, <1>1, <1>2, <1>3, <1>4, <1>5 DEF ApplyRow, RebuildInv, NoApply, claudeVars, modVars, connVars, countVars
  <1>11. Values'
    BY <1>0, <1>1, <1>2, <1>3, <1>4, <1>5 DEF ApplyRow, Values, claudeVars, modVars, connVars, countVars
  <1> QED BY <1>1, <1>2, <1>3, <1>4, <1>5, <1>6, <1>7, <1>8, <1>9, <1>10, <1>11 DEF TypeInv

LEMMA TypeApplyTurn ==
    ASSUME TypeInv, ApplyTurn
    PROVE  TypeInv'
  <1>0. Flags /\ Values /\ CallType /\ ApplyType /\ CountType /\ RebuildInv
    BY DEF TypeInv
  <1>1. Head(applying.batch) \in Event /\ Tail(applying.batch) \in Seq(Event)
    BY <1>0, HeadTailProperties DEF ApplyTurn, TakeEvent, ApplyType, RebuildInv
  <1>2. Head(applying.batch).on \in BOOLEAN
    BY <1>1 DEF Event
  <1>3. /\ applying' \in [batch : Seq(Event), at : {"free", "fold", "rebuild"}, live : BOOLEAN,
                          waited : BOOLEAN, state : BOOLEAN]
        /\ applying'.at # "rebuild"
    BY <1>0, <1>1 DEF ApplyTurn, TakeEvent, ApplyType
  <1>4. Flags'
    BY <1>0, <1>1, <1>2, <1>3 DEF ApplyTurn, TakeEvent, Flags, claudeVars, modVars, connVars, countVars
  <1>5. CallType'
    BY <1>0, <1>1, <1>2, <1>3 DEF ApplyTurn, TakeEvent, CallType, Answer, claudeVars, modVars, connVars, countVars
  <1>6. ApplyType'
    BY <1>0, <1>1, <1>2, <1>3 DEF ApplyTurn, TakeEvent, ApplyType, NoApply, claudeVars, modVars, connVars, countVars
  <1>7. CountType'
    BY <1>0, <1>1, <1>2, <1>3 DEF ApplyTurn, TakeEvent, CountType, claudeVars, modVars, connVars, countVars
  <1>8. RebuildInv'
    BY <1>0, <1>1, <1>2, <1>3 DEF ApplyTurn, TakeEvent, RebuildInv, NoApply, claudeVars, modVars, connVars, countVars
  <1>9. Values'
    BY <1>0, <1>1, <1>2, <1>3 DEF ApplyTurn, TakeEvent, Values, claudeVars, modVars, connVars, countVars
  <1> QED BY <1>1, <1>2, <1>3, <1>4, <1>5, <1>6, <1>7, <1>8, <1>9 DEF TypeInv

LEMMA TypeApplyHistory ==
    ASSUME TypeInv, ApplyHistory
    PROVE  TypeInv'
  <1>0. Flags /\ Values /\ CallType /\ ApplyType /\ CountType /\ RebuildInv
    BY DEF TypeInv
  <1>1. Head(applying.batch) \in Event /\ Tail(applying.batch) \in Seq(Event)
    BY <1>0, HeadTailProperties DEF ApplyHistory, TakeEvent, ApplyType, RebuildInv
  <1>2. Flags'
    BY <1>0, <1>1 DEF ApplyHistory, TakeEvent, Flags, claudeVars, modVars, connVars, countVars
  <1>3. CallType'
    BY <1>0, <1>1 DEF ApplyHistory, TakeEvent, CallType, Answer, claudeVars, modVars, connVars, countVars
  <1>4. ApplyType'
    BY <1>0, <1>1 DEF ApplyHistory, TakeEvent, ApplyType, NoApply, claudeVars, modVars, connVars, countVars
  <1>5. CountType'
    BY <1>0, <1>1 DEF ApplyHistory, TakeEvent, CountType, claudeVars, modVars, connVars, countVars
  <1>6. RebuildInv'
    BY <1>0, <1>1 DEF ApplyHistory, TakeEvent, RebuildInv, NoApply, claudeVars, modVars, connVars, countVars
  <1>7. Values'
    BY <1>0, <1>1 DEF ApplyHistory, TakeEvent, Values, claudeVars, modVars, connVars, countVars
  <1> QED BY <1>1, <1>2, <1>3, <1>4, <1>5, <1>6, <1>7 DEF TypeInv

LEMMA TypeRebuild ==
    ASSUME TypeInv, Rebuild
    PROVE  TypeInv'
  <1>0. Flags /\ Values /\ CallType /\ ApplyType /\ CountType /\ RebuildInv
    BY DEF TypeInv
  <1>1. Head(applying.batch) \in Event /\ Tail(applying.batch) \in Seq(Event)
    BY <1>0, HeadTailProperties DEF Rebuild, TakeEvent, ApplyType, RebuildInv
  <1>2. /\ Head(applying.batch).n \in Nat /\ Head(applying.batch).last \in Nat
        /\ Head(applying.batch).on \in BOOLEAN
    BY <1>1 DEF Event
  <1>3. \A n \in Nat : Rows(n) \in Seq(Nat)
    <2> SUFFICES ASSUME NEW n \in Nat PROVE Rows(n) \in Seq(Nat)
      OBVIOUS
    <2>1. Rows(n) \in [1..n -> Nat]
      BY DEF Rows
    <2> QED BY <2>1, SeqDef
  <1>4. log' \in Seq(Nat) /\ logRows' \subseteq Nat
    <2>1. fileRows \in Nat /\ log \in Seq(Nat) /\ logRows \subseteq Nat
      BY <1>0 DEF Values
    <2>2. \A n \in Nat : log \o Rows(n) \in Seq(Nat) /\ 1..n \subseteq Nat
      BY <1>3, <2>1, ConcatProperties
    <2> QED BY <1>2, <2>1, <2>2 DEF Rebuild
  <1>5. /\ applying' \in [batch : Seq(Event), at : {"free", "fold", "rebuild"}, live : BOOLEAN,
                          waited : BOOLEAN, state : BOOLEAN]
        /\ applying'.at # "rebuild"
    BY <1>0, <1>1 DEF Rebuild, TakeEvent, ApplyType
  <1>6. Flags'
    BY <1>0, <1>1, <1>2, <1>3, <1>4, <1>5 DEF Rebuild, Flags, claudeVars, modVars, connVars, countVars
  <1>7. CallType'
    BY <1>0, <1>1, <1>2, <1>3, <1>4, <1>5 DEF Rebuild, CallType, Answer, claudeVars, modVars, connVars, countVars
  <1>8. ApplyType'
    BY <1>0, <1>1, <1>2, <1>3, <1>4, <1>5 DEF Rebuild, ApplyType, NoApply, claudeVars, modVars, connVars, countVars
  <1>9. CountType'
    BY <1>0, <1>1, <1>2, <1>3, <1>4, <1>5 DEF Rebuild, CountType, claudeVars, modVars, connVars, countVars
  <1>10. RebuildInv'
    BY <1>0, <1>1, <1>2, <1>3, <1>4, <1>5 DEF Rebuild, RebuildInv, NoApply, claudeVars, modVars, connVars, countVars
  <1>11. Values'
    BY <1>0, <1>1, <1>2, <1>3, <1>4, <1>5 DEF Rebuild, Values, claudeVars, modVars, connVars, countVars
  <1> QED BY <1>1, <1>2, <1>3, <1>4, <1>5, <1>6, <1>7, <1>8, <1>9, <1>10, <1>11 DEF TypeInv

LEMMA TypeEndApply ==
    ASSUME TypeInv, EndApply
    PROVE  TypeInv'
  <1>0. Flags /\ Values /\ CallType /\ ApplyType /\ CountType /\ RebuildInv
    BY DEF TypeInv
  <1>1. [status |-> 200, token |-> 0, history |-> FALSE] \in Reply
    BY DEF Reply
  <1>2. reply' \in Reply \cup {NoReply}
    BY <1>0, <1>1 DEF EndApply, CallType
  <1>3. connToken' \in Nat
    BY <1>0 DEF EndApply, Values
  <1>4. full' \in BOOLEAN
    BY <1>0 DEF EndApply, Flags, ApplyType
  <1>5. Flags'
    BY <1>0, <1>1, <1>2, <1>3, <1>4 DEF EndApply, Flags, claudeVars, modVars, connVars, countVars
  <1>6. CallType'
    BY <1>0, <1>1, <1>2, <1>3, <1>4 DEF EndApply, CallType, Answer, claudeVars, modVars, connVars, countVars
  <1>7. ApplyType'
    BY <1>0, <1>1, <1>2, <1>3, <1>4 DEF EndApply, ApplyType, NoApply, claudeVars, modVars, connVars, countVars
  <1>8. CountType'
    BY <1>0, <1>1, <1>2, <1>3, <1>4 DEF EndApply, CountType, claudeVars, modVars, connVars, countVars
  <1>9. RebuildInv'
    BY <1>0, <1>1, <1>2, <1>3, <1>4 DEF EndApply, RebuildInv, NoApply, claudeVars, modVars, connVars, countVars
  <1>10. Values'
    BY <1>0, <1>1, <1>2, <1>3, <1>4 DEF EndApply, Values, claudeVars, modVars, connVars, countVars
  <1> QED BY <1>1, <1>2, <1>3, <1>4, <1>5, <1>6, <1>7, <1>8, <1>9, <1>10 DEF TypeInv

LEMMA TypeFollow ==
    ASSUME TypeInv, Follow
    PROVE  TypeInv'
  <1>0. Flags /\ Values /\ CallType /\ ApplyType /\ CountType /\ RebuildInv
    BY DEF TypeInv
  <1>1. Flags'
    BY <1>0 DEF Follow, Flags, claudeVars, modVars, connVars, countVars
  <1>2. CallType'
    BY <1>0 DEF Follow, CallType, Answer, claudeVars, modVars, connVars, countVars
  <1>3. ApplyType'
    BY <1>0 DEF Follow, ApplyType, NoApply, claudeVars, modVars, connVars, countVars
  <1>4. CountType'
    BY <1>0 DEF Follow, CountType, claudeVars, modVars, connVars, countVars
  <1>5. RebuildInv'
    BY <1>0 DEF Follow, RebuildInv, NoApply, claudeVars, modVars, connVars, countVars
  <1>6. Values'
    BY <1>0 DEF Follow, Values, claudeVars, modVars, connVars, countVars
  <1> QED BY <1>1, <1>2, <1>3, <1>4, <1>5, <1>6 DEF TypeInv

LEMMA TypeRestart ==
    ASSUME TypeInv, Restart
    PROVE  TypeInv'
  <1>0. Flags /\ Values /\ CallType /\ ApplyType /\ CountType /\ RebuildInv
    BY DEF TypeInv
  <1>1. <<>> \in Seq(Nat) /\ {} \subseteq Nat
    OBVIOUS
  <1>2. Flags'
    BY <1>0, <1>1 DEF Restart, Flags, claudeVars, modVars, connVars, countVars
  <1>3. CallType'
    BY <1>0, <1>1 DEF Restart, CallType, Answer, claudeVars, modVars, connVars, countVars
  <1>4. ApplyType'
    BY <1>0, <1>1 DEF Restart, ApplyType, NoApply, claudeVars, modVars, connVars, countVars
  <1>5. CountType'
    BY <1>0, <1>1 DEF Restart, CountType, claudeVars, modVars, connVars, countVars
  <1>6. RebuildInv'
    BY <1>0, <1>1 DEF Restart, RebuildInv, NoApply, claudeVars, modVars, connVars, countVars
  <1>7. Values'
    BY <1>0, <1>1 DEF Restart, Values, claudeVars, modVars, connVars, countVars
  <1> QED BY <1>1, <1>2, <1>3, <1>4, <1>5, <1>6, <1>7 DEF TypeInv

LEMMA TypeStep == TypeInv /\ [Next]_vars => TypeInv'
  <1> SUFFICES ASSUME TypeInv, [Next]_vars PROVE TypeInv'
    OBVIOUS
  <1>1. CASE StoreRow
    BY <1>1, TypeStoreRow
  <1>2. CASE WriteFile
    BY <1>2, TypeWriteFile
  <1>3. CASE StartTurn
    BY <1>3, TypeStartTurn
  <1>4. CASE EndTurn
    BY <1>4, TypeEndTurn
  <1>5. CASE SendLevel
    BY <1>5, TypeSendLevel
  <1>6. CASE Rename
    BY <1>6, TypeRename
  <1>7. CASE PollRefused
    BY <1>7, TypePollRefused
  <1>8. CASE SendHello
    BY <1>8, TypeSendHello
  <1>9. CASE HelloAnswered
    BY <1>9, TypeHelloAnswered
  <1>10. CASE ReadMessages
    BY <1>10, TypeReadMessages
  <1>11. CASE ReadLast
    BY <1>11, TypeReadLast
  <1>12. CASE FinishHello
    BY <1>12, TypeFinishHello
  <1>13. CASE HistoryFails
    BY <1>13, TypeHistoryFails
  <1>14. CASE Flush
    BY <1>14, TypeFlush
  <1>15. CASE FlushAnswered
    BY <1>15, TypeFlushAnswered
  <1>16. CASE RequestDies
    BY <1>16, TypeRequestDies
  <1>17. CASE ReplyLost
    BY <1>17, TypeReplyLost
  <1>18. CASE GiveUp
    BY <1>18, TypeGiveUp
  <1>19. CASE Reload
    BY <1>19, TypeReload
  <1>20. CASE ApplyRow
    BY <1>20, TypeApplyRow
  <1>21. CASE ApplyTurn
    BY <1>21, TypeApplyTurn
  <1>22. CASE ApplyHistory
    BY <1>22, TypeApplyHistory
  <1>23. CASE Rebuild
    BY <1>23, TypeRebuild
  <1>24. CASE EndApply
    BY <1>24, TypeEndApply
  <1>25. CASE Follow
    BY <1>25, TypeFollow
  <1>26. CASE Restart
    BY <1>26, TypeRestart
  <1>27. CASE \E c \in calls : ServeHello(c) \/ Admit(c) \/ BeginApply(c)
    BY <1>27, TypeServeHello, TypeAdmit, TypeBeginApply
  <1>28. CASE UNCHANGED vars
    <2>1. Flags' /\ Values'
      BY <1>28 DEF TypeInv, Flags, Values, vars, claudeVars, modVars, connVars, countVars
    <2>2. CallType' /\ ApplyType' /\ CountType' /\ RebuildInv'
      BY <1>28 DEF TypeInv, CallType, ApplyType, CountType, RebuildInv, vars, claudeVars, modVars, connVars, countVars
    <2> QED BY <2>1, <2>2 DEF TypeInv
  <1> QED BY <1>1, <1>2, <1>3, <1>4, <1>5, <1>6, <1>7, <1>8, <1>9, <1>10, <1>11, <1>12, <1>13, <1>14, <1>15, <1>16, <1>17, <1>18, <1>19, <1>20, <1>21, <1>22, <1>23, <1>24, <1>25, <1>26, <1>27, <1>28 DEF Next, Engine, Mod, Service, Fault

\* The variables keep their types, and what the mod is answered is an answer it
\* knows (#flush, #hello).
THEOREM TypeCorrect == Spec => []TypeOK
  <1>1. Spec => []TypeInv
    BY TypeInit, TypeStep, PTL DEF Spec
  <1> QED BY <1>1, TypeParts, PTL

-----------------------------------------------------------------------------
(* In every scope: whose answer the mod waits on, and the name it is for.  *)

\* The hello in progress has been answered.
Greeted == pump \in {"messages", "last", "level"}

\* The mod waits on one request at a time, of the kind its pump is at.
WaitInv ==
    /\ \A c, d \in calls : c.waited /\ d.waited => c = d
    /\ applying.waited => \A c \in calls : ~c.waited
    /\ reply # NoReply => ~Waiting
    /\ Waiting \/ reply # NoReply => pump \in {"hello", "post"}
    /\ \A c \in calls : c.waited => c.kind = IF pump = "hello" THEN "hello" ELSE "events"
    /\ applying.waited => pump = "post" /\ applying.at # "free"
    /\ \A c \in calls : c.at = "admitted" => c.kind = "events"
    /\ token # 0 => pump \in {"idle", "post"}

LEMMA WaitInit == Init => WaitInv
  BY DEF Init, WaitInv, Waiting, NoApply

LEMMA WaitKept ==
    ASSUME WaitInv, calls' = calls, reply' = reply, pump' = pump,
           applying'.waited = applying.waited, applying.at # "free" => applying'.at # "free",
           token' = token \/ token' = 0
    PROVE  WaitInv'
  BY DEF WaitInv, Waiting

\* Nothing is waited on any more.
LEMMA WaitOver ==
    ASSUME \A c \in calls' : ~c.waited, ~applying'.waited, reply' = NoReply,
           \A c \in calls' : c.at = "admitted" => c.kind = "events",
           token' # 0 => pump' \in {"idle", "post"}
    PROVE  WaitInv'
  BY DEF WaitInv, Waiting

LEMMA WaitStep == TypeInv /\ WaitInv /\ [Next]_vars => WaitInv'
  <1> SUFFICES ASSUME TypeInv, WaitInv, [Next]_vars PROVE WaitInv'
    OBVIOUS
  <1>0. /\ ApplyType /\ CallType /\ calls \subseteq Call
        /\ pump \in {"idle", "hello", "messages", "last", "level", "post"}
    BY DEF TypeInv, Values, CallType
  <1>1. CASE StoreRow
    BY <1>1, WaitKept DEF StoreRow, Rehello
  <1>2. CASE WriteFile
    BY <1>2, WaitKept DEF WriteFile, modVars
  <1>3. CASE StartTurn
    BY <1>3, WaitKept DEF StartTurn, Rehello
  <1>4. CASE EndTurn
    BY <1>4, WaitKept DEF EndTurn
  <1>5. CASE SendLevel
    BY <1>5, WaitKept DEF SendLevel
  <1>6. CASE Rename
    BY <1>6, WaitKept DEF Rename, modVars
  <1>7. CASE PollRefused
    BY <1>7, WaitKept DEF PollRefused, Rehello
  <1>8. CASE SendHello
    <2>1. pump = "idle" /\ pump' = "hello" /\ token' = token /\ token = 0 /\ reply' = reply /\ applying' = applying
          /\ calls' = calls \cup {HelloCall}
      BY <1>8 DEF SendHello
    <2>2. ~Waiting /\ reply = NoReply
      BY <2>1 DEF WaitInv
    <2>3. ~applying.waited /\ \A c \in calls : ~c.waited
      BY <2>2 DEF Waiting
    <2>4. HelloCall.kind = "hello" /\ HelloCall.at = "sent"
      BY DEF HelloCall
    <2> QED BY <2>1, <2>2, <2>3, <2>4 DEF WaitInv, Waiting
  <1>9. CASE HelloAnswered
    <2>1. reply # NoReply /\ reply' = NoReply /\ calls' = calls /\ applying' = applying /\ token' = token /\ pump = "hello"
      BY <1>9 DEF HelloAnswered
    <2>2. ~applying.waited /\ \A c \in calls : ~c.waited
      BY <2>1 DEF WaitInv, Waiting
    <2>3. token = 0
      BY <2>1 DEF WaitInv
    <2> QED BY <2>1, <2>2, <2>3, WaitOver DEF WaitInv
  <1>10. CASE ReadMessages \/ ReadLast \/ FinishHello \/ HistoryFails
    <2>1. /\ Greeted /\ reply' = reply /\ calls' = calls /\ applying' = applying
          /\ pump' = "idle" \/ (token' = token)
      BY <1>10 DEF ReadMessages, ReadLast, FinishHello, HistoryFails, Greeted
    <2>2. ~Waiting /\ reply = NoReply /\ token = 0
      BY <2>1 DEF WaitInv, Greeted
    <2>3. ~applying.waited /\ \A c \in calls : ~c.waited
      BY <2>2 DEF Waiting
    <2> QED BY <2>1, <2>2, <2>3, WaitOver DEF WaitInv
  <1>11. CASE Flush
    <2>1. pump = "idle" /\ pump' = "post" /\ token' = token /\ reply' = reply /\ applying' = applying
          /\ calls' = calls \cup {EventsCall(queue)}
      BY <1>11 DEF Flush
    <2>2. ~Waiting /\ reply = NoReply
      BY <2>1 DEF WaitInv
    <2>3. ~applying.waited /\ \A c \in calls : ~c.waited
      BY <2>2 DEF Waiting
    <2>4. EventsCall(queue).kind = "events" /\ EventsCall(queue).at = "sent"
      BY DEF EventsCall
    <2> QED BY <2>1, <2>2, <2>3, <2>4 DEF WaitInv, Waiting
  <1>12. CASE FlushAnswered
    <2>1. reply # NoReply /\ reply' = NoReply /\ calls' = calls /\ applying' = applying /\ pump' = "idle"
      BY <1>12 DEF FlushAnswered
    <2>2. ~applying.waited /\ \A c \in calls : ~c.waited
      BY <2>1 DEF WaitInv, Waiting
    <2> QED BY <2>1, <2>2, WaitOver DEF WaitInv
  <1>13. CASE RequestDies
    <2>1. reply = NoReply /\ reply' = NoReply /\ ~Waiting /\ calls' = calls /\ applying' = applying /\ pump' = "idle"
      BY <1>13 DEF RequestDies, RequestFails
    <2>2. ~applying.waited /\ \A c \in calls : ~c.waited
      BY <2>1 DEF Waiting
    <2> QED BY <2>1, <2>2, WaitOver DEF WaitInv
  <1>14. CASE ReplyLost
    <2>1. reply # NoReply /\ reply' = NoReply /\ calls' = calls /\ applying' = applying /\ pump' = "idle"
      BY <1>14 DEF ReplyLost, RequestFails
    <2>2. ~applying.waited /\ \A c \in calls : ~c.waited
      BY <2>1 DEF WaitInv, Waiting
    <2> QED BY <2>1, <2>2, WaitOver DEF WaitInv
  <1>15. CASE GiveUp \/ Reload
    <2>1. /\ calls' = {[c EXCEPT !.waited = FALSE] : c \in calls}
          /\ applying' = [applying EXCEPT !.waited = FALSE]
          /\ reply' = NoReply /\ pump' = "idle"
      BY <1>15 DEF GiveUp, RequestFails, Reload
    <2>2. ~applying'.waited
      BY <1>0, <2>1 DEF ApplyType
    <2>3. \A c \in Call : LET d == [c EXCEPT !.waited = FALSE] IN ~d.waited /\ d.at = c.at /\ d.kind = c.kind
      BY DEF Call
    <2>4. \A c \in calls' : ~c.waited /\ (c.at = "admitted" => c.kind = "events")
      <3> SUFFICES ASSUME NEW d \in calls' PROVE ~d.waited /\ (d.at = "admitted" => d.kind = "events")
        OBVIOUS
      <3>1. PICK c \in calls : d = [c EXCEPT !.waited = FALSE]
        BY <2>1
      <3>2. ~d.waited /\ d.at = c.at /\ d.kind = c.kind
        BY <1>0, <2>3, <3>1
      <3>3. c.at = "admitted" => c.kind = "events"
        BY DEF WaitInv
      <3> QED BY <3>2, <3>3
    <2> QED BY <2>1, <2>2, <2>4, WaitOver
  <1>16. ASSUME NEW c \in calls, ServeHello(c) PROVE WaitInv'
    <2>1. /\ calls' = calls \ {c} /\ applying'.waited = applying.waited /\ applying'.at = applying.at
          /\ pump' = pump /\ token' = token
          /\ reply' = IF c.waited THEN [status |-> 200, token |-> tokens + 1, history |-> owed'] ELSE reply
      BY <1>0, <1>16 DEF ServeHello, Answer, ApplyType, modVars
    <2>2. CASE c.waited
      <3>1. ~applying.waited /\ (\A d \in calls' : ~d.waited) /\ pump \in {"hello", "post"}
        BY <2>1, <2>2 DEF WaitInv, Waiting
      <3> QED BY <2>1, <3>1 DEF WaitInv, Waiting
    <2>3. CASE ~c.waited
      BY <2>1, <2>3 DEF WaitInv, Waiting
    <2> QED BY <2>2, <2>3
  <1>17. ASSUME NEW c \in calls, Admit(c) PROVE WaitInv'
    <2> DEFINE d == [c EXCEPT !.at = "admitted"]
    <2>1. applying' = applying /\ pump' = pump /\ token' = token /\ c.kind = "events"
      BY <1>17 DEF Admit, modVars
    <2>2. d.kind = c.kind /\ d.waited = c.waited
      BY <1>0 DEF Call
    <2> HIDE DEF d
    <2>3. CASE c.token = connToken
      <3>1. calls' = (calls \ {c}) \cup {d} /\ reply' = reply
        BY <1>17, <2>3 DEF Admit, d
      <3> QED BY <2>1, <2>2, <3>1 DEF WaitInv, Waiting
    <2>4. CASE c.token # connToken
      <3>1. /\ calls' = calls \ {c}
            /\ reply' = IF c.waited THEN [status |-> 409, token |-> 0, history |-> FALSE] ELSE reply
        BY <1>17, <2>4 DEF Admit, Answer
      <3>2. CASE c.waited
        <4>1. ~applying.waited /\ (\A x \in calls' : ~x.waited) /\ pump \in {"hello", "post"}
          BY <3>1, <3>2 DEF WaitInv, Waiting
        <4> QED BY <2>1, <3>1, <4>1 DEF WaitInv, Waiting
      <3>3. CASE ~c.waited
        BY <2>1, <3>1, <3>3 DEF WaitInv, Waiting
      <3> QED BY <3>2, <3>3
    <2> QED BY <2>3, <2>4
  <1>18. ASSUME NEW c \in calls, BeginApply(c) PROVE WaitInv'
    <2>1. /\ calls' = calls \ {c} /\ applying'.waited = c.waited /\ applying'.at = "fold"
          /\ pump' = pump /\ token' = token /\ reply' = reply /\ c.at = "admitted" /\ applying.at = "free"
      BY <1>18 DEF BeginApply, modVars
    <2>2. ~applying.waited
      BY <2>1 DEF WaitInv
    <2>3. CASE c.waited
      <3>1. (\A d \in calls' : ~d.waited) /\ reply = NoReply /\ pump = "post"
        BY <1>0, <2>1, <2>3 DEF WaitInv, Waiting
      <3> QED BY <2>1, <3>1 DEF WaitInv, Waiting
    <2>4. CASE ~c.waited
      BY <2>1, <2>2, <2>4 DEF WaitInv, Waiting
    <2> QED BY <2>3, <2>4
  <1>19. CASE ApplyRow \/ ApplyTurn \/ ApplyHistory \/ Rebuild
    <2>1. /\ calls' = calls /\ reply' = reply /\ pump' = pump /\ token' = token
          /\ applying'.waited = applying.waited /\ applying'.at # "free"
      <3>1. CASE ApplyRow
        BY <1>0, <3>1 DEF ApplyRow, TakeEvent, ApplyType, modVars
      <3>2. CASE ApplyTurn
        BY <1>0, <3>2 DEF ApplyTurn, TakeEvent, ApplyType, modVars
      <3>3. CASE ApplyHistory
        BY <1>0, <3>3 DEF ApplyHistory, TakeEvent, ApplyType, modVars
      <3>4. CASE Rebuild
        BY <1>0, <3>4 DEF Rebuild, ApplyType, modVars
      <3> QED BY <1>19, <3>1, <3>2, <3>3, <3>4
    <2> QED BY <2>1, WaitKept
  <1>20. CASE EndApply
    <2>1. /\ calls' = calls /\ applying' = NoApply /\ pump' = pump /\ token' = token
          /\ reply' = IF applying.waited
                      THEN [status |-> 200, token |-> 0, history |-> FALSE] ELSE reply
      BY <1>20 DEF EndApply, modVars
    <2>2. ~NoApply.waited
      BY DEF NoApply
    <2> QED BY <2>1, <2>2 DEF WaitInv, Waiting
  <1>21. CASE Follow
    BY <1>21, WaitKept DEF Follow, modVars
  <1>22. CASE Restart
    <2>1. /\ calls' = {c \in calls : c.at = "sent"} /\ applying' = NoApply /\ pump' = pump /\ token' = token
          /\ reply' = reply
      BY <1>22 DEF Restart, modVars
    <2>2. ~NoApply.waited
      BY DEF NoApply
    <2> QED BY <2>1, <2>2 DEF WaitInv, Waiting
  <1>23. CASE UNCHANGED vars
    BY <1>23, WaitKept DEF vars, modVars
  <1> QED BY <1>1, <1>2, <1>3, <1>4, <1>5, <1>6, <1>7, <1>8, <1>9, <1>10, <1>11, <1>12, <1>13, <1>14,
             <1>15, <1>16, <1>17, <1>18, <1>19, <1>20, <1>21, <1>22, <1>23
          DEF Next, Engine, Mod, Service, Fault

-----------------------------------------------------------------------------
(* The name the connection goes by.                                        *)

TokenInv ==
    /\ token <= tokens /\ connToken <= tokens /\ hello.token <= tokens /\ reply.token <= tokens
    /\ hello.asked <= asks

\* Unless a hello is asked for again, the name the one in progress was sent under
\* is the one last read; and the token a pump sends with is of a connection of that
\* name, or of none.
NameInv ==
    /\ pump = "hello" /\ asks = hello.asked => \A c \in calls : c.waited => c.name = tmuxSession
    /\ pump = "hello" /\ asks = hello.asked /\ reply # NoReply /\ connToken = reply.token /\ connToken # 0 =>
         connName = tmuxSession
    /\ Greeted /\ asks = hello.asked /\ connToken = hello.token /\ connToken # 0 => connName = tmuxSession
    /\ token # 0 /\ token = connToken => connName = tmuxSession

\* What of the types the proof uses.
Numbers ==
    /\ token \in Nat /\ asks \in Nat /\ connToken \in Nat /\ tokens \in Nat
    /\ hello.asked \in Nat /\ hello.token \in Nat /\ reply.token \in Nat

LEMMA NumbersIn == TypeInv => Numbers
  <1> SUFFICES ASSUME TypeInv PROVE Numbers
    OBVIOUS
  <1>1. Values /\ CallType /\ tokens \in Nat
    BY DEF TypeInv, CountType
  <1>2. token \in Nat /\ asks \in Nat /\ connToken \in Nat /\ hello.asked \in Nat /\ hello.token \in Nat
    BY <1>1 DEF Values
  <1>3. reply.token \in Nat
    BY <1>1 DEF CallType, Reply, NoReply
  <1> QED BY <1>1, <1>2, <1>3 DEF Numbers

LEMMA NameInit == Init => TokenInv /\ NameInv
  BY DEF Init, TokenInv, NameInv, NoHello, NoReply, Greeted

\* The connection and the mod's questions stay as they are, or the token is lost.
LEMMA NameKept ==
    ASSUME Numbers, TokenInv, NameInv, pump' = pump, asks' = asks, tmuxSession' = tmuxSession,
           hello'.asked = hello.asked, hello'.token = hello.token, token' = token \/ token' = 0,
           connName' = connName, connToken' = connToken \/ connToken' = 0, tokens' = tokens,
           \A c \in calls' : c.waited => \E d \in calls : d.waited /\ c.name = d.name,
           reply' = reply \/ reply'.token = 0
    PROVE  TokenInv' /\ NameInv'
  <1>1. TokenInv'
    BY DEF TokenInv, Numbers
  <1>2. (pump = "hello" /\ asks = hello.asked => \A c \in calls : c.waited => c.name = tmuxSession)'
    BY DEF NameInv
  <1>3. (pump = "hello" /\ asks = hello.asked /\ reply # NoReply /\ connToken = reply.token /\ connToken # 0 =>
         connName = tmuxSession)'
    BY DEF NameInv
  <1>4. (Greeted /\ asks = hello.asked /\ connToken = hello.token /\ connToken # 0 => connName = tmuxSession)'
    BY DEF NameInv, Greeted
  <1>5. (token # 0 /\ token = connToken => connName = tmuxSession)'
    BY DEF NameInv
  <1> QED BY <1>1, <1>2, <1>3, <1>4, <1>5 DEF NameInv

\* A hello is asked for again.
LEMMA NameAsked ==
    ASSUME Numbers, TokenInv, asks' = asks + 1, token' = 0, hello' = hello, connToken' = connToken,
           tokens' = tokens, reply' = reply
    PROVE  TokenInv' /\ NameInv'
  BY DEF TokenInv, NameInv, Numbers

\* The pump is idle again.
LEMMA NameIdle ==
    ASSUME Numbers, TokenInv, NameInv, pump' = "idle", hello' = NoHello, asks' \in Nat,
           token' = 0 \/ (token' = token /\ tmuxSession' = tmuxSession), connName' = connName,
           connToken' = connToken, tokens' = tokens, reply'.token = 0
    PROVE  TokenInv' /\ NameInv'
  <1>1. hello'.token = 0 /\ hello'.asked = 0
    BY DEF NoHello
  <1>2. TokenInv'
    BY <1>1 DEF TokenInv, Numbers
  <1>3. ~Greeted' /\ pump' # "hello"
    BY DEF Greeted
  <1>4. (token # 0 /\ token = connToken => connName = tmuxSession)'
    BY DEF NameInv
  <1> QED BY <1>2, <1>3, <1>4 DEF NameInv

LEMMA NameStep == TypeInv /\ WaitInv /\ TokenInv /\ NameInv /\ [Next]_vars => TokenInv' /\ NameInv'
  <1> SUFFICES ASSUME TypeInv, WaitInv, TokenInv, NameInv, [Next]_vars PROVE TokenInv' /\ NameInv'
    OBVIOUS
  <1>0. Numbers /\ Values /\ CallType
    BY NumbersIn DEF TypeInv
  <1>1. CASE StoreRow
    <2>1. CASE UNCHANGED asks
      <3>1. token' = token
        BY <1>0, <1>1, <2>1 DEF StoreRow, Rehello, Numbers
      <3> QED BY <1>0, <1>1, <2>1, <3>1, NameKept DEF StoreRow, connVars, countVars
    <2>2. CASE Rehello
      BY <1>0, <1>1, <2>2, NameAsked DEF StoreRow, Rehello, connVars, countVars
    <2> QED BY <1>1, <2>1, <2>2 DEF StoreRow
  <1>2. CASE WriteFile \/ Rename
    BY <1>0, <1>2, NameKept DEF WriteFile, Rename, modVars, connVars, countVars
  <1>3. CASE StartTurn
    <2>1. CASE tmuxSession = tmuxName
      BY <1>0, <1>3, <2>1, NameKept DEF StartTurn, connVars
    <2>2. CASE tmuxSession # tmuxName
      BY <1>0, <1>3, <2>2, NameAsked DEF StartTurn, Rehello, connVars
    <2> QED BY <2>1, <2>2
  <1>4. CASE EndTurn \/ SendLevel
    BY <1>0, <1>4, NameKept DEF EndTurn, SendLevel, connVars, countVars
  <1>5. CASE PollRefused
    BY <1>0, <1>5, NameAsked DEF PollRefused, Rehello, connVars, countVars
  <1>6. CASE SendHello
    <2>1. /\ pump = "idle" /\ token = 0 /\ pump' = "hello" /\ tmuxSession' = tmuxName
          /\ calls' = calls \cup {HelloCall} /\ reply' = reply /\ token' = token /\ asks' = asks
          /\ connToken' = connToken /\ tokens' = tokens
      BY <1>6 DEF SendHello, connVars, countVars
    <2>2. hello'.asked = asks /\ hello'.token = 0
      BY <1>6 DEF SendHello, NoHello
    <2>3. reply = NoReply /\ \A c \in calls : ~c.waited
      BY <2>1 DEF WaitInv, Waiting
    <2>4. HelloCall.name = tmuxName
      BY DEF HelloCall
    <2>5. TokenInv'
      BY <1>0, <2>1, <2>2 DEF TokenInv, Numbers
    <2> QED BY <2>1, <2>3, <2>4, <2>5 DEF NameInv, Greeted
  <1>7. CASE HelloAnswered
    <2>1. /\ pump = "hello" /\ reply # NoReply /\ reply' = NoReply /\ token' = token /\ asks' = asks
          /\ connToken' = connToken /\ connName' = connName /\ tokens' = tokens /\ tmuxSession' = tmuxSession
      BY <1>7 DEF HelloAnswered, connVars, countVars
    <2>2. NoReply.token = 0
      BY DEF NoReply
    <2>3. CASE asks # hello.asked
      <3>1. pump' = "idle" /\ hello' = NoHello
        BY <1>7, <2>3 DEF HelloAnswered
      <3> QED BY <1>0, <2>1, <2>2, <3>1, NameIdle DEF Numbers
    <2>4. CASE asks = hello.asked
      <3>1. hello' = [hello EXCEPT !.token = reply.token, !.covers = reply.history] /\ pump' \in {"messages", "level"}
        BY <1>7, <2>4 DEF HelloAnswered
      <3>2. hello'.token = reply.token /\ hello'.asked = hello.asked
        BY <1>0, <3>1 DEF Values
      <3>3. TokenInv'
        BY <1>0, <2>1, <2>2, <3>2 DEF TokenInv, Numbers
      <3>4. token = 0
        BY <2>1 DEF WaitInv
      <3> QED BY <2>1, <2>4, <3>1, <3>2, <3>3, <3>4 DEF NameInv, Greeted
    <2> QED BY <2>3, <2>4
  <1>8. CASE ReadMessages \/ ReadLast
    <2>1. /\ Greeted /\ Greeted' /\ token' = token /\ asks' = asks /\ reply' = reply
          /\ connToken' = connToken /\ connName' = connName /\ tokens' = tokens /\ tmuxSession' = tmuxSession
      BY <1>8 DEF ReadMessages, ReadLast, Greeted, connVars, countVars
    <2>2. hello' = [hello EXCEPT !.n = stored] \/ hello' = [hello EXCEPT !.last = lastRow, !.on = running]
      BY <1>8 DEF ReadMessages, ReadLast
    <2>3. hello'.token = hello.token /\ hello'.asked = hello.asked
      BY <1>0, <2>2 DEF Values
    <2>4. TokenInv'
      BY <1>0, <2>1, <2>3 DEF TokenInv, Numbers
    <2>5. token = 0 /\ pump' # "hello"
      BY <2>1 DEF WaitInv, Greeted
    <2> QED BY <2>1, <2>3, <2>4, <2>5 DEF NameInv
  <1>9. CASE FinishHello
    <2>1. /\ pump = "level" /\ pump' = "idle" /\ hello' = NoHello /\ asks' = asks /\ reply' = reply
          /\ connToken' = connToken /\ connName' = connName /\ tokens' = tokens /\ tmuxSession' = tmuxSession
          /\ token' = IF asks # hello.asked THEN token ELSE hello.token
      BY <1>9 DEF FinishHello, connVars, countVars
    <2>2. token = 0 /\ Greeted /\ ~Greeted'
      BY <2>1 DEF WaitInv, Greeted
    <2>3. hello'.token = 0 /\ hello'.asked = 0
      BY <2>1 DEF NoHello
    <2>4. TokenInv'
      BY <1>0, <2>1, <2>3 DEF TokenInv, Numbers
    <2> QED BY <2>1, <2>2, <2>4 DEF NameInv
  <1>10. CASE HistoryFails
    <2>1. reply = NoReply
      BY <1>10 DEF HistoryFails, WaitInv
    <2>2. NoReply.token = 0
      BY DEF NoReply
    <2> QED BY <1>0, <1>10, <2>1, <2>2, NameIdle DEF HistoryFails, connVars, Numbers
  <1>11. CASE Flush
    <2>1. /\ pump = "idle" /\ pump' = "post" /\ token' = token /\ asks' = asks /\ reply' = reply
          /\ connToken' = connToken /\ connName' = connName /\ tokens' = tokens /\ tmuxSession' = tmuxSession
      BY <1>11 DEF Flush, connVars, countVars
    <2>2. hello'.token = token /\ hello'.asked = 0
      BY <1>11 DEF Flush, NoHello
    <2>3. TokenInv'
      BY <1>0, <2>1, <2>2 DEF TokenInv, Numbers
    <2> QED BY <2>1, <2>3 DEF NameInv, Greeted
  <1>12. CASE FlushAnswered
    <2>1. /\ pump' = "idle" /\ hello' = NoHello /\ asks' = asks /\ reply' = NoReply /\ (token' = 0 \/ token' = token)
          /\ connToken' = connToken /\ connName' = connName /\ tokens' = tokens /\ tmuxSession' = tmuxSession
      BY <1>12 DEF FlushAnswered, connVars, countVars
    <2>2. NoReply.token = 0
      BY DEF NoReply
    <2> QED BY <1>0, <2>1, <2>2, NameIdle DEF Numbers
  <1>13. CASE RequestDies \/ ReplyLost \/ GiveUp
    <2>1. /\ pump' = "idle" /\ hello' = NoHello /\ asks' = asks /\ reply' = NoReply /\ token' = token
          /\ connToken' = connToken /\ connName' = connName /\ tokens' = tokens /\ tmuxSession' = tmuxSession
      BY <1>13 DEF RequestDies, ReplyLost, GiveUp, RequestFails, connVars
    <2>2. NoReply.token = 0
      BY DEF NoReply
    <2> QED BY <1>0, <2>1, <2>2, NameIdle DEF Numbers
  <1>14. CASE Reload
    <2>1. /\ pump' = "idle" /\ hello' = NoHello /\ asks' = 0 /\ reply' = NoReply /\ token' = 0
          /\ connToken' = connToken /\ connName' = connName /\ tokens' = tokens
      BY <1>14 DEF Reload, connVars
    <2>2. NoReply.token = 0
      BY DEF NoReply
    <2> QED BY <1>0, <2>1, <2>2, NameIdle DEF Numbers
  <1>15. ASSUME NEW c \in calls, ServeHello(c) PROVE TokenInv' /\ NameInv'
    <2>1. /\ connToken' = tokens + 1 /\ tokens' = tokens + 1 /\ connName' = c.name /\ calls' = calls \ {c}
          /\ pump' = pump /\ hello' = hello /\ token' = token /\ asks' = asks /\ tmuxSession' = tmuxSession
          /\ c.kind = "hello"
      BY <1>15 DEF ServeHello, modVars
    <2>2. CASE c.waited
      <3>1. reply' = [status |-> 200, token |-> tokens + 1, history |-> owed']
        BY <1>15, <2>2 DEF ServeHello, Answer
      <3>2. reply'.token = tokens + 1
        BY <3>1
      <3>3. TokenInv'
        BY <1>0, <2>1, <3>2 DEF TokenInv, Numbers
      <3>4. pump = "hello" /\ (asks = hello.asked => c.name = tmuxSession)
        BY <2>1, <2>2 DEF WaitInv, Waiting, NameInv
      <3>5. token = 0 /\ ~Greeted /\ hello.token < tokens + 1
        BY <1>0, <3>4 DEF WaitInv, Greeted, TokenInv, Numbers
      <3> QED BY <2>1, <3>3, <3>4, <3>5 DEF NameInv, Greeted
    <2>3. CASE ~c.waited
      <3>1. reply' = reply
        BY <1>15, <2>3 DEF ServeHello, Answer
      <3>2. TokenInv'
        BY <1>0, <2>1, <3>1 DEF TokenInv, Numbers
      <3>3. reply.token # tokens + 1 /\ hello.token # tokens + 1 /\ token # tokens + 1
        BY <1>0 DEF TokenInv, Numbers
      <3> QED BY <2>1, <3>1, <3>2, <3>3 DEF NameInv, Greeted
    <2> QED BY <2>2, <2>3
  <1>16. ASSUME NEW c \in calls, Admit(c) PROVE TokenInv' /\ NameInv'
    <2>1. /\ pump' = pump /\ hello' = hello /\ token' = token /\ asks' = asks /\ tmuxSession' = tmuxSession
          /\ connToken' = connToken /\ connName' = connName /\ tokens' = tokens
      BY <1>16 DEF Admit, modVars, connVars, countVars
    <2>2. reply' = reply \/ reply' = [status |-> 409, token |-> 0, history |-> FALSE]
      BY <1>16 DEF Admit, Answer
    <2>3. \A d \in calls' : d.waited => \E e \in calls : e.waited /\ d.name = e.name
      <3>1. calls' \subseteq calls \cup {[c EXCEPT !.at = "admitted"]}
        BY <1>16 DEF Admit
      <3>2. [c EXCEPT !.at = "admitted"].waited = c.waited /\ [c EXCEPT !.at = "admitted"].name = c.name
        BY <1>0 DEF CallType, Call
      <3> QED BY <3>1, <3>2
    <2> QED BY <1>0, <2>1, <2>2, <2>3, NameKept
  <1>17. ASSUME NEW c \in calls, BeginApply(c) PROVE TokenInv' /\ NameInv'
    BY <1>0, <1>17, NameKept DEF BeginApply, modVars, connVars, countVars
  <1>18. CASE ApplyRow \/ ApplyTurn \/ ApplyHistory \/ Rebuild \/ Follow
    <2>1. /\ pump' = pump /\ hello' = hello /\ token' = token /\ asks' = asks /\ tmuxSession' = tmuxSession
          /\ (connToken' = connToken \/ connToken' = 0) /\ connName' = connName /\ tokens' = tokens
          /\ calls' = calls /\ reply' = reply
      BY <1>18 DEF ApplyRow, ApplyTurn, ApplyHistory, Rebuild, Follow, modVars, connVars, countVars
    <2> QED BY <1>0, <2>1, NameKept
  <1>19. CASE EndApply
    <2>1. /\ pump' = pump /\ hello' = hello /\ token' = token /\ asks' = asks /\ tmuxSession' = tmuxSession
          /\ (connToken' = connToken \/ connToken' = 0) /\ connName' = connName /\ tokens' = tokens
          /\ calls' = calls
      BY <1>19 DEF EndApply, modVars, countVars
    <2>2. reply' = reply \/ reply' = [status |-> 200, token |-> 0, history |-> FALSE]
      BY <1>19 DEF EndApply
    <2> QED BY <1>0, <2>1, <2>2, NameKept
  <1>20. CASE Restart
    <2>1. /\ pump' = pump /\ hello' = hello /\ token' = token /\ asks' = asks /\ tmuxSession' = tmuxSession
          /\ connToken' = 0 /\ tokens' = tokens /\ reply' = reply
          /\ calls' \subseteq calls
      BY <1>20 DEF Restart, modVars
    <2>2. TokenInv'
      BY <1>0, <2>1 DEF TokenInv, Numbers
    <2> QED BY <2>1, <2>2 DEF NameInv
  <1>21. CASE UNCHANGED vars
    BY <1>0, <1>21, NameKept DEF vars, modVars, connVars, countVars
  <1> QED BY <1>1, <1>2, <1>3, <1>4, <1>5, <1>6, <1>7, <1>8, <1>9, <1>10, <1>11, <1>12, <1>13, <1>14,
             <1>15, <1>16, <1>17, <1>18, <1>19, <1>20, <1>21
          DEF Next, Engine, Mod, Service, Fault

\* When nothing of the mod's is on its way and no hello is asked for, the
\* connection goes by the name the mod last read, though a rename came while a
\* hello was in flight, and however requests overlap (rehello, follow).
THEOREM NameFollowed == Spec => []NameFollows
  <1>1. Spec => [](TypeInv /\ WaitInv /\ TokenInv /\ NameInv)
    BY TypeInit, TypeStep, WaitInit, WaitStep, NameInit, NameStep, PTL DEF Spec
  <1>2. NameInv => NameFollows
    BY DEF NameInv, NameFollows, Quiet
  <1> QED BY <1>1, <1>2, PTL

-----------------------------------------------------------------------------
(* Where requests do not overlap: one batch, followed from queue to log.   *)

\* The connection is the running module's.
Own == registered /\ connInstance = instance

\* Everything session-events is at, the mod waits on.
OneInv ==
    /\ \A c \in calls : c.waited
    /\ applying.at = "free" => applying = NoApply
    /\ applying.at # "free" => applying.waited

\* The connection, while there is one, and what it is owed.
ConnInv ==
    /\ connInstance <= instance
    /\ connToken # 0 => registered
    /\ owed => registered /\ full
    /\ Greeted /\ registered => Own /\ (owed <=> hello.covers)
    /\ pump = "hello" /\ reply # NoReply /\ registered => Own /\ (owed <=> reply.history)
    /\ pump = "post" \/ token # 0 => (registered => Own)
    /\ \A c \in calls : c.kind = "hello" => c.instance = instance

\* The batch in flight.
PostInv ==
    /\ pump # "post" => posted = <<>>
    /\ pump = "post" => posted # <<>>
    /\ \A c \in calls : c.kind = "events" => c.batch = posted /\ c.token # 0 /\ (c.at = "admitted" => registered)
    /\ reply # NoReply => reply.status = 200 \/ pump = "post"

\* How much of batch p has been applied when b of it is left.
DoneOf(p, b) == SubSeq(p, 1, Len(p) - Len(b))
Done == DoneOf(posted, applying.batch)

ApplyInv ==
    applying.at # "free" =>
        /\ registered /\ applying.live
        /\ Done \in Seq(Event) /\ posted = Done \o applying.batch
        /\ owed => Done = <<>>
        /\ applying.at = "rebuild" => owed

\* A log that is owed its history gets it before anything else.
HeadInv ==
    /\ pump = "post" /\ registered /\ owed => HistoryFirst(posted)
    /\ pump = "idle" /\ token # 0 /\ registered /\ owed => HistoryFirst(queue)
    /\ pump = "post" /\ reply.status = 200 /\ registered => ~owed

FlowInv == OneInv /\ ConnInv /\ PostInv /\ ApplyInv /\ HeadInv

LEMMA DoneAt ==
    ASSUME NEW d \in Seq(Event), NEW b \in Seq(Event)
    PROVE  DoneOf(d \o b, b) = d
  <1> DEFINE s == d \o b
  <1>1. s \in Seq(Event) /\ Len(s) = Len(d) + Len(b) /\ Len(d) \in Nat /\ Len(b) \in Nat
    BY ConcatProperties, LenProperties
  <1>2. \A i \in 1..Len(d) : s[i] = d[i]
    BY ConcatProperties
  <1> HIDE DEF s
  <1>3. Len(s) - Len(b) = Len(d)
    BY <1>1
  <1>4. SubSeq(s, 1, Len(d)) = [i \in 1..Len(d) |-> s[i]]
    BY <1>1
  <1>5. d = [i \in 1..Len(d) |-> d[i]]
    BY LenProperties
  <1> QED BY <1>2, <1>3, <1>4, <1>5 DEF DoneOf, s

LEMMA DoneStep ==
    ASSUME NEW d \in Seq(Event), NEW b \in Seq(Event), b # <<>>
    PROVE  /\ Head(b) \in Event /\ Tail(b) \in Seq(Event) /\ Append(d, Head(b)) \in Seq(Event)
           /\ d \o b = Append(d, Head(b)) \o Tail(b)
  <1>1. Head(b) \in Event /\ Tail(b) \in Seq(Event) /\ b = <<Head(b)>> \o Tail(b)
    BY HeadTailProperties, ConcatProperties
  <1>2. Append(d, Head(b)) = d \o <<Head(b)>> /\ Append(d, Head(b)) \in Seq(Event)
    BY <1>1, AppendIsConcat, AppendProperties
  <1>3. <<Head(b)>> \in Seq(Event)
    BY <1>1
  <1>4. d \o (<<Head(b)>> \o Tail(b)) = (d \o <<Head(b)>>) \o Tail(b)
    BY <1>1, <1>3, ConcatAssociative
  <1> QED BY <1>1, <1>2, <1>4

\* Whatever is in flight is alone.
LEMMA Alone ==
    ASSUME WaitInv, OneInv
    PROVE  /\ ~Waiting => calls = {} /\ applying = NoApply
           /\ pump \notin {"hello", "post"} \/ reply # NoReply => calls = {} /\ applying = NoApply
           /\ \A c \in calls : calls = {c} /\ applying = NoApply /\ reply = NoReply
           /\ applying.at # "free" => calls = {} /\ reply = NoReply /\ pump = "post"
  <1>1. ~Waiting => calls = {} /\ applying = NoApply
    BY DEF Waiting, OneInv
  <1>2. pump \notin {"hello", "post"} \/ reply # NoReply => ~Waiting
    BY DEF WaitInv
  <1>3. ASSUME NEW c \in calls PROVE calls = {c} /\ applying = NoApply /\ reply = NoReply
    <2>1. c.waited /\ \A d \in calls : d.waited
      BY DEF OneInv
    <2>2. calls = {c}
      BY <2>1 DEF WaitInv
    <2>3. ~applying.waited /\ reply = NoReply
      BY <2>1 DEF WaitInv, Waiting
    <2> QED BY <2>2, <2>3 DEF OneInv
  <1>4. ASSUME applying.at # "free" PROVE calls = {} /\ reply = NoReply /\ pump = "post"
    <2>1. applying.waited
      BY <1>4 DEF OneInv
    <2>2. reply = NoReply /\ pump = "post" /\ \A c \in calls : ~c.waited
      BY <2>1 DEF WaitInv, Waiting
    <2> QED BY <2>2 DEF OneInv
  <1> QED BY <1>1, <1>2, <1>3, <1>4

LEMMA HeadConcat ==
    ASSUME NEW s \in Seq(Event), NEW t \in Seq(Event), HistoryFirst(s)
    PROVE  HistoryFirst(s \o t) /\ (s \o t)[1] = s[1]
  <1>1. s # <<>>
    BY DEF HistoryFirst
  <1>2. 1 \in 1..Len(s) /\ Len(s) \in Nat /\ Len(t) \in Nat
    BY <1>1, EmptySeq, LenProperties
  <1>3. (s \o t)[1] = s[1]
    BY <1>2, ConcatProperties
  <1>4. s \o t # <<>>
    BY <1>1, ConcatEqualIffEmpty
  <1> QED BY <1>3, <1>4 DEF HistoryFirst

LEMMA FlowInit == Init => FlowInv
  BY DEF Init, FlowInv, OneInv, ConnInv, PostInv, ApplyInv, HeadInv, NoApply, Greeted, Own

\* Requests and connection stay as they are; the token may be lost.
LEMMA FlowKept ==
    ASSUME FlowInv, pump' = pump, calls' = calls, reply' = reply, applying' = applying, posted' = posted,
           hello' = hello, instance' = instance, registered' = registered, connInstance' = connInstance,
           owed' = owed, full' = full, connToken' = connToken \/ connToken' = 0, token' = token \/ token' = 0,
           HistoryFirst(queue) => HistoryFirst(queue')
    PROVE  FlowInv'
  <1>0. OneInv /\ ConnInv /\ PostInv /\ ApplyInv /\ HeadInv
    BY DEF FlowInv
  <1>1. OneInv'
    BY <1>0 DEF OneInv
  <1>2. ConnInv'
    BY <1>0 DEF ConnInv, Own, Greeted
  <1>3. PostInv'
    BY <1>0 DEF PostInv
  <1>4. ApplyInv'
    BY <1>0 DEF ApplyInv, Done
  <1>5. HeadInv'
    BY <1>0 DEF HeadInv
  <1> QED BY <1>1, <1>2, <1>3, <1>4, <1>5 DEF FlowInv

\* The pump is idle again, and nothing is in flight.
LEMMA FlowIdle ==
    ASSUME TypeInv, FlowInv, pump' = "idle", calls' = {}, reply' = NoReply, applying' = NoApply, posted' = <<>>,
           registered' = registered, connInstance' = connInstance, owed' = owed, full' = full,
           connToken' = connToken, instance' \in Nat, instance <= instance',
           token' # 0 /\ registered => instance' = instance /\ Own /\ (owed => HistoryFirst(queue'))
    PROVE  FlowInv'
  <1>0. OneInv /\ ConnInv /\ PostInv /\ ApplyInv /\ HeadInv
    BY DEF FlowInv
  <1>1. OneInv'
    BY DEF OneInv, NoApply
  <1>2. ConnInv'
    <2>1. connInstance \in Nat /\ instance \in Nat
      BY DEF TypeInv, Values
    <2>2. connInstance' <= instance'
      BY <1>0, <2>1 DEF ConnInv
    <2>3. ~Greeted'
      BY DEF Greeted
    <2>4. (pump = "post" \/ token # 0 => (registered => Own))'
      BY DEF Own
    <2> QED BY <1>0, <2>2, <2>3, <2>4 DEF ConnInv
  <1>3. PostInv'
    BY DEF PostInv
  <1>4. ApplyInv'
    BY DEF ApplyInv, NoApply
  <1>5. HeadInv'
    BY DEF HeadInv
  <1> QED BY <1>1, <1>2, <1>3, <1>4, <1>5 DEF FlowInv

\* An event pushed stays behind a history at the head.
LEMMA PushFirst ==
    ASSUME TypeInv, NEW e \in Event, ~e.covered, queue' = Push(queue, e)
    PROVE  HistoryFirst(queue) => HistoryFirst(queue') /\ queue'[1] = queue[1]
  <1>1. queue \in Seq(Event)
    BY DEF TypeInv, Values
  <1> QED BY <1>1, PushKeeps

\* The event an engine's step queues.
LEMMA Queued ==
    ASSUME TypeInv
    PROVE  /\ StoreRow => \E prompt \in BOOLEAN :
                            /\ Ev("row", stored + 1, 0, prompt) \in Event /\ ~Ev("row", stored + 1, 0, prompt).covered
                            /\ queue' = Push(queue, Ev("row", stored + 1, 0, prompt))
           /\ Ev("turn", 0, 0, TRUE) \in Event /\ ~Ev("turn", 0, 0, TRUE).covered
           /\ Ev("turn", 0, 0, FALSE) \in Event /\ ~Ev("turn", 0, 0, FALSE).covered
           /\ Ev("level", 0, 0, running) \in Event /\ ~Ev("level", 0, 0, running).covered
  <1>1. running \in BOOLEAN /\ stored + 1 \in Nat
    <2>1. stored \in Nat
      BY DEF TypeInv, Values
    <2>2. running \in BOOLEAN
      BY DEF TypeInv, Flags
    <2> QED BY <2>1, <2>2
  <1>2. ASSUME StoreRow
        PROVE  \E prompt \in BOOLEAN :
                 /\ Ev("row", stored + 1, 0, prompt) \in Event /\ ~Ev("row", stored + 1, 0, prompt).covered
                 /\ queue' = Push(queue, Ev("row", stored + 1, 0, prompt))
    BY <1>1, <1>2, EventTypes DEF StoreRow
  <1> QED BY <1>1, <1>2, EventTypes

\* The engine, and what changes neither the connection nor a request.
LEMMA FlowEngine ==
    ASSUME TypeInv, FlowInv,
           StoreRow \/ WriteFile \/ StartTurn \/ EndTurn \/ SendLevel \/ Rename \/ PollRefused \/ Follow \/ UNCHANGED vars
    PROVE  FlowInv'
  <1>1. CASE StoreRow
    <2>1. HistoryFirst(queue) => HistoryFirst(queue')
      BY <1>1, Queued, PushFirst
    <2>2. token' = token \/ token' = 0
      BY <1>1 DEF StoreRow, Rehello
    <2> QED BY <1>1, <2>1, <2>2, FlowKept DEF StoreRow, connVars
  <1>2. CASE WriteFile
    BY <1>2, FlowKept DEF WriteFile, modVars, connVars
  <1>3. CASE StartTurn
    <2>1. HistoryFirst(queue) => HistoryFirst(queue')
      BY <1>3, Queued, PushFirst DEF StartTurn
    <2>2. token' = token \/ token' = 0
      BY <1>3 DEF StartTurn, Rehello
    <2> QED BY <1>3, <2>1, <2>2, FlowKept DEF StartTurn, connVars
  <1>4. CASE EndTurn
    <2>1. HistoryFirst(queue) => HistoryFirst(queue')
      BY <1>4, Queued, PushFirst DEF EndTurn
    <2> QED BY <1>4, <2>1, FlowKept DEF EndTurn, connVars
  <1>5. CASE SendLevel
    <2>1. HistoryFirst(queue) => HistoryFirst(queue')
      BY <1>5, Queued, PushFirst DEF SendLevel
    <2> QED BY <1>5, <2>1, FlowKept DEF SendLevel, connVars
  <1>6. CASE Rename
    BY <1>6, FlowKept DEF Rename, modVars, connVars
  <1>7. CASE PollRefused
    BY <1>7, FlowKept DEF PollRefused, Rehello, connVars
  <1>8. CASE Follow
    BY <1>8, FlowKept DEF Follow, modVars
  <1>9. CASE UNCHANGED vars
    BY <1>9, FlowKept DEF vars, modVars, connVars
  <1> QED BY <1>1, <1>2, <1>3, <1>4, <1>5, <1>6, <1>7, <1>8, <1>9

\* The steps after which the pump is idle.
LEMMA FlowToIdle ==
    ASSUME TypeInv, WaitInv, FlowInv, ~scope.overlap, pump' = "idle",
           HelloAnswered \/ FinishHello \/ HistoryFails \/ FlushAnswered \/ RequestDies \/ ReplyLost \/ GiveUp \/ Reload
    PROVE  FlowInv'
  <1>0. OneInv /\ ConnInv /\ PostInv /\ ApplyInv /\ HeadInv /\ instance \in Nat
    BY DEF FlowInv, TypeInv, Values
  <1>1. CASE HelloAnswered
    <2>1. /\ pump = "hello" /\ reply # NoReply /\ reply' = NoReply /\ token' = token /\ posted' = posted
          /\ calls' = calls /\ applying' = applying /\ instance' = instance
          /\ UNCHANGED connVars
      BY <1>1 DEF HelloAnswered
    <2>2. calls = {} /\ applying = NoApply /\ token = 0 /\ posted = <<>>
      BY <1>0, <2>1, Alone DEF WaitInv, PostInv
    <2> QED BY <1>0, <2>1, <2>2, FlowIdle DEF connVars
  <1>2. CASE FinishHello
    <2>1. /\ pump = "level" /\ posted' = posted /\ reply' = reply
          /\ calls' = calls /\ applying' = applying /\ instance' = instance
          /\ UNCHANGED connVars
      BY <1>2 DEF FinishHello
    <2>2. calls = {} /\ applying = NoApply /\ token = 0 /\ posted = <<>> /\ reply = NoReply /\ Greeted
      BY <1>0, <2>1, Alone DEF WaitInv, PostInv, Greeted
    <2>3. token' # 0 /\ registered => Own /\ (owed => HistoryFirst(queue'))
      <3>1. CASE asks # hello.asked
        BY <1>2, <2>2, <3>1 DEF FinishHello
      <3>2. CASE asks = hello.asked /\ registered
        <4>1. Own /\ (owed => hello.covers)
          BY <1>0, <2>2, <3>2 DEF ConnInv
        <4>2. hello.covers => HistoryFirst(queue')
          <5> SUFFICES ASSUME hello.covers PROVE HistoryFirst(queue')
            OBVIOUS
          <5> DEFINE left == Kept(queue, {i \in DOMAIN queue : ~queue[i].covered})
                     history == <<Ev("history", hello.n, hello.last, hello.on)>>
          <5>1. queue' = Prepend(left, history, Ev("level", 0, 0, running))
            BY <1>2, <3>2 DEF FinishHello
          <5>2. queue \in Seq(Event) /\ hello.n \in Nat /\ hello.last \in Nat /\ hello.on \in BOOLEAN
            BY DEF TypeInv, Values
          <5>3. left \in Seq(Event)
            BY <5>2, KeptEvents
          <5>4. /\ Ev("history", hello.n, hello.last, hello.on) \in Event
                /\ Ev("history", hello.n, hello.last, hello.on).type = "history"
            BY <5>2, EventTypes
          <5>5. /\ Ev("level", 0, 0, running) \in Event /\ Ev("level", 0, 0, running).type = "level"
                /\ Ev("level", 0, 0, running).on = running
            BY EventTypes DEF TypeInv, Flags
          <5>6. history # <<>> /\ history[1].type = "history"
            BY <5>4
          <5> HIDE DEF left
          <5>7. queue' # <<>> /\ queue'[1] = history[1]
            BY <5>1, <5>3, <5>4, <5>5, <5>6, PrependKeeps
          <5> QED BY <5>6, <5>7 DEF HistoryFirst
        <4> QED BY <4>1, <4>2
      <3> QED BY <3>1, <3>2
    <2> QED BY <1>0, <2>1, <2>2, <2>3, FlowIdle DEF connVars
  <1>3. CASE HistoryFails
    <2>1. /\ pump \in {"messages", "last"} /\ posted' = posted /\ reply' = reply /\ token' = token
          /\ calls' = calls /\ applying' = applying /\ instance' = instance
          /\ UNCHANGED connVars
      BY <1>3 DEF HistoryFails
    <2>2. calls = {} /\ applying = NoApply /\ token = 0 /\ posted = <<>> /\ reply = NoReply
      BY <1>0, <2>1, Alone DEF WaitInv, PostInv
    <2> QED BY <1>0, <2>1, <2>2, FlowIdle DEF connVars
  <1>4. CASE FlushAnswered
    <2>1. /\ pump = "post" /\ posted' = <<>> /\ reply # NoReply /\ reply' = NoReply
          /\ (token' = token \/ token' = 0)
          /\ (reply.status = 200 => queue' = queue) /\ (reply.status # 200 => queue' = posted \o queue)
          /\ calls' = calls /\ applying' = applying /\ instance' = instance
          /\ UNCHANGED connVars
      BY <1>4 DEF FlushAnswered
    <2>2. calls = {} /\ applying = NoApply
      BY <1>0, <2>1, Alone
    <2>3. registered => Own /\ (owed => HistoryFirst(queue'))
      <3>1. CASE reply.status = 200
        BY <1>0, <2>1, <3>1 DEF ConnInv, HeadInv
      <3>2. CASE reply.status # 200
        <4>1. registered /\ owed => HistoryFirst(posted)
          BY <1>0, <2>1 DEF HeadInv
        <4>2. posted \in Seq(Event) /\ queue \in Seq(Event)
          BY DEF TypeInv, Values
        <4>3. HistoryFirst(posted) => HistoryFirst(posted \o queue)
          BY <4>2, HeadConcat
        <4> QED BY <1>0, <2>1, <3>2, <4>1, <4>3 DEF ConnInv
      <3> QED BY <3>1, <3>2
    <2> QED BY <1>0, <2>1, <2>2, <2>3, FlowIdle DEF connVars
  <1>5. CASE RequestDies \/ ReplyLost
    <2>1. /\ posted' = <<>> /\ reply' = NoReply /\ queue' = posted \o queue
          /\ (reply # NoReply \/ ~Waiting) /\ token' = token
          /\ calls' = calls /\ applying' = applying /\ instance' = instance
          /\ UNCHANGED connVars
      BY <1>5 DEF RequestDies, ReplyLost, RequestFails
    <2>2. calls = {} /\ applying = NoApply
      BY <1>0, <2>1, Alone
    <2>3. pump \in {"hello", "post"}
      BY <1>5 DEF RequestDies, ReplyLost, WaitInv
    <2>4. token # 0 => pump = "post"
      BY <2>3 DEF WaitInv
    <2>5. token # 0 /\ registered => Own /\ (owed => HistoryFirst(queue'))
      <3>1. token # 0 /\ registered => Own /\ (owed => HistoryFirst(posted))
        BY <1>0, <2>4 DEF ConnInv, HeadInv
      <3>2. posted \in Seq(Event) /\ queue \in Seq(Event)
        BY DEF TypeInv, Values
      <3>3. HistoryFirst(posted) => HistoryFirst(posted \o queue)
        BY <3>2, HeadConcat
      <3> QED BY <2>1, <3>1, <3>3
    <2> QED BY <1>0, <2>1, <2>2, <2>5, FlowIdle DEF connVars
  <1>6. CASE GiveUp
    BY <1>6 DEF GiveUp
  <1>7. CASE Reload
    <2>1. /\ posted' = <<>> /\ reply' = NoReply /\ token' = 0 /\ instance' = instance + 1 /\ ~Waiting
          /\ calls' = {[c EXCEPT !.waited = FALSE] : c \in calls}
          /\ applying' = [applying EXCEPT !.waited = FALSE]
          /\ UNCHANGED connVars
      BY <1>7 DEF Reload
    <2>2. calls = {} /\ applying = NoApply
      BY <1>0, <2>1, Alone
    <2>3. calls' = {} /\ applying' = NoApply
      BY <2>1, <2>2 DEF NoApply
    <2>4. instance' \in Nat /\ instance <= instance'
      BY <1>0, <2>1
    <2> QED BY <2>1, <2>3, <2>4, FlowIdle DEF connVars
  <1> QED BY <1>1, <1>2, <1>3, <1>4, <1>5, <1>6, <1>7

\* The mod sends a request, or goes on with its hello.
LEMMA FlowPump ==
    ASSUME TypeInv, WaitInv, FlowInv, pump' # "idle",
           SendHello \/ HelloAnswered \/ ReadMessages \/ ReadLast \/ Flush
    PROVE  FlowInv'
  <1>0. OneInv /\ ConnInv /\ PostInv /\ ApplyInv /\ HeadInv
    BY DEF FlowInv
  <1>1. CASE SendHello
    <2>1. /\ pump = "idle" /\ token = 0 /\ pump' = "hello" /\ calls' = calls \cup {HelloCall}
          /\ token' = token /\ instance' = instance /\ reply' = reply /\ applying' = applying /\ posted' = posted
          /\ UNCHANGED connVars
      BY <1>1 DEF SendHello
    <2>2. calls = {} /\ applying = NoApply /\ reply = NoReply /\ posted = <<>>
      BY <1>0, <2>1, Alone DEF WaitInv, PostInv
    <2>3. HelloCall.waited /\ HelloCall.kind = "hello" /\ HelloCall.instance = instance
      BY DEF HelloCall
    <2>4. NoApply.at = "free" /\ ~Greeted'
      BY <2>1 DEF NoApply, Greeted
    <2>5. OneInv'
      BY <2>1, <2>2, <2>3, <2>4 DEF OneInv
    <2>6. ConnInv'
      BY <1>0, <2>1, <2>2, <2>3, <2>4 DEF ConnInv, connVars
    <2>7. PostInv'
      BY <1>0, <2>1, <2>2, <2>3 DEF PostInv
    <2>8. ApplyInv' /\ HeadInv'
      BY <2>1, <2>2, <2>4 DEF ApplyInv, HeadInv
    <2> QED BY <2>5, <2>6, <2>7, <2>8 DEF FlowInv
  <1>2. CASE HelloAnswered
    <2>1. /\ pump = "hello" /\ reply # NoReply /\ reply' = NoReply /\ token' = token /\ posted' = posted
          /\ calls' = calls /\ applying' = applying /\ instance' = instance
          /\ hello' = [hello EXCEPT !.token = reply.token, !.covers = reply.history]
          /\ pump' \in {"messages", "level"}
          /\ UNCHANGED connVars
      BY <1>2 DEF HelloAnswered
    <2>2. calls = {} /\ applying = NoApply /\ token = 0 /\ posted = <<>>
      BY <1>0, <2>1, Alone DEF WaitInv, PostInv
    <2>3. hello'.covers = reply.history
      BY <2>1 DEF TypeInv, Values
    <2>4. registered => Own /\ (owed <=> reply.history)
      BY <1>0, <2>1 DEF ConnInv
    <2>5. OneInv'
      BY <1>0, <2>1 DEF OneInv
    <2>6. ConnInv'
      BY <1>0, <2>1, <2>2, <2>3, <2>4 DEF ConnInv, Own, Greeted, connVars
    <2>7. PostInv' /\ ApplyInv' /\ HeadInv'
      BY <1>0, <2>1, <2>2 DEF PostInv, ApplyInv, HeadInv, NoApply
    <2> QED BY <2>5, <2>6, <2>7 DEF FlowInv
  <1>3. CASE ReadMessages \/ ReadLast
    <2>1. /\ pump \in {"messages", "last"} /\ pump' \in {"last", "level"} /\ reply' = reply /\ token' = token
          /\ posted' = posted /\ calls' = calls /\ applying' = applying /\ instance' = instance
          /\ UNCHANGED connVars
      BY <1>3 DEF ReadMessages, ReadLast
    <2>2. calls = {} /\ applying = NoApply /\ token = 0 /\ reply = NoReply /\ posted = <<>> /\ Greeted
      BY <1>0, <2>1, Alone DEF WaitInv, PostInv, Greeted
    <2>3. hello' = [hello EXCEPT !.n = stored] \/ hello' = [hello EXCEPT !.last = lastRow, !.on = running]
      BY <1>3 DEF ReadMessages, ReadLast
    <2>4. hello'.covers = hello.covers
      BY <2>3 DEF TypeInv, Values
    <2>5. OneInv'
      BY <1>0, <2>1 DEF OneInv
    <2>6. registered => Own /\ (owed <=> hello.covers)
      BY <1>0, <2>2 DEF ConnInv
    <2>7. ConnInv'
      BY <1>0, <2>1, <2>2, <2>4, <2>6 DEF ConnInv, Own, connVars
    <2>8. PostInv' /\ ApplyInv' /\ HeadInv'
      BY <1>0, <2>1, <2>2 DEF PostInv, ApplyInv, HeadInv, NoApply
    <2> QED BY <2>5, <2>7, <2>8 DEF FlowInv
  <1>4. CASE Flush
    <2>1. /\ pump = "idle" /\ token # 0 /\ pump' = "post" /\ calls' = calls \cup {EventsCall(queue)}
          /\ token' = token /\ instance' = instance /\ reply' = reply /\ applying' = applying
          /\ posted' = queue /\ queue # <<>>
          /\ UNCHANGED connVars
      BY <1>4 DEF Flush
    <2>2. calls = {} /\ applying = NoApply /\ reply = NoReply
      BY <1>0, <2>1, Alone DEF WaitInv
    <2>3. /\ EventsCall(queue).waited /\ EventsCall(queue).kind = "events" /\ EventsCall(queue).at = "sent"
          /\ EventsCall(queue).batch = queue /\ EventsCall(queue).token = token
      BY DEF EventsCall
    <2>4. NoApply.at = "free" /\ ~Greeted' /\ NoReply.status = 0
      BY <2>1 DEF NoApply, Greeted, NoReply
    <2>5. OneInv'
      BY <2>1, <2>2, <2>3, <2>4 DEF OneInv
    <2>6. registered => Own
      BY <1>0, <2>1 DEF ConnInv
    <2>7. ConnInv'
      BY <1>0, <2>1, <2>2, <2>3, <2>4, <2>6 DEF ConnInv, Own, connVars
    <2>8. PostInv'
      BY <2>1, <2>2, <2>3 DEF PostInv
    <2>9. registered /\ owed => HistoryFirst(queue)
      BY <1>0, <2>1 DEF HeadInv
    <2>10. ApplyInv'
      BY <2>1, <2>2, <2>4 DEF ApplyInv
    <2>11. HeadInv'
      BY <2>1, <2>2, <2>4, <2>9 DEF HeadInv, connVars
    <2> QED BY <2>5, <2>7, <2>8, <2>10, <2>11 DEF FlowInv
  <1> QED BY <1>1, <1>2, <1>3, <1>4

\* session-events takes a request up.
LEMMA FlowServed ==
    ASSUME TypeInv, WaitInv, FlowInv, NEW c \in calls, ServeHello(c) \/ Admit(c) \/ BeginApply(c)
    PROVE  FlowInv'
  <1>0. /\ OneInv /\ ConnInv /\ PostInv /\ ApplyInv /\ HeadInv
        /\ calls \subseteq Call /\ posted \in Seq(Event)
    BY DEF FlowInv, TypeInv, CallType, Values
  <1>1. calls = {c} /\ applying = NoApply /\ reply = NoReply /\ c.waited /\ NoApply.at = "free"
    BY <1>0, Alone DEF OneInv, NoApply
  <1>2. pump \in {"hello", "post"} /\ c.kind = IF pump = "hello" THEN "hello" ELSE "events"
    BY <1>1 DEF WaitInv, Waiting
  <1>3. ~Greeted
    BY <1>2 DEF Greeted
  <1>4. CASE ServeHello(c)
    <2>1. /\ c.kind = "hello" /\ calls' = calls \ {c} /\ registered' = TRUE /\ connInstance' = c.instance /\ full' = TRUE
          /\ pump' = pump /\ instance' = instance /\ token' = token /\ posted' = posted /\ queue' = queue
          /\ (applying' = applying \/ applying' = [applying EXCEPT !.live = FALSE])
          /\ reply' = [status |-> 200, token |-> tokens + 1, history |-> owed']
      BY <1>1, <1>4 DEF ServeHello, modVars, Answer
    <2>2. applying' = NoApply /\ calls' = {} /\ pump = "hello" /\ token = 0 /\ posted = <<>>
      BY <1>0, <1>1, <1>2, <2>1 DEF NoApply, WaitInv, PostInv
    <2>3. reply'.history = owed' /\ reply'.status = 200
      BY <2>1
    <2>4. c.instance = instance /\ instance \in Nat
      BY <1>0, <2>1 DEF ConnInv, TypeInv, Values
    <2>5. OneInv'
      BY <1>1, <2>2 DEF OneInv
    <2>6. Own' /\ ~Greeted'
      BY <1>3, <2>1, <2>4 DEF Own, Greeted
    <2>7. (owed <=> reply.history)'
      BY <2>3
    <2>8. (connInstance <= instance)' /\ registered' /\ full'
      BY <2>1, <2>4
    <2>9. ConnInv'
      BY <2>2, <2>6, <2>7, <2>8 DEF ConnInv
    <2>10. PostInv'
      BY <2>1, <2>2, <2>3 DEF PostInv
    <2>11. ApplyInv' /\ HeadInv'
      BY <1>1, <2>1, <2>2 DEF ApplyInv, HeadInv
    <2> QED BY <2>5, <2>9, <2>10, <2>11 DEF FlowInv
  <1>5. CASE Admit(c)
    <2> DEFINE d == [c EXCEPT !.at = "admitted"]
    <2>1. /\ c.kind = "events" /\ c.at = "sent" /\ UNCHANGED <<modVars, connVars, applying>>
      BY <1>5 DEF Admit
    <2>2. pump = "post" /\ c.batch = posted /\ c.token # 0 /\ pump' = pump /\ posted' = posted
      BY <1>0, <1>2, <2>1 DEF PostInv, modVars
    <2>3. d.kind = "events" /\ d.waited = c.waited /\ d.batch = posted /\ d.token = c.token
      BY <1>0, <2>1, <2>2 DEF Call
    <2> HIDE DEF d
    <2>4. CASE c.token = connToken
      <3>1. calls' = (calls \ {c}) \cup {d} /\ reply' = reply
        BY <1>5, <2>4 DEF Admit, d
      <3>2. calls' = {d}
        BY <1>1, <3>1
      <3>3. registered
        BY <1>0, <2>2, <2>4 DEF ConnInv
      <3>4. OneInv'
        BY <1>1, <2>1, <2>3, <3>2 DEF OneInv
      <3>5. ConnInv'
        BY <1>0, <1>3, <2>1, <2>2, <2>3, <3>2 DEF ConnInv, Own, Greeted, modVars, connVars
      <3>6. PostInv'
        BY <1>0, <1>1, <2>1, <2>2, <2>3, <3>1, <3>2, <3>3 DEF PostInv, connVars
      <3>7. ApplyInv'
        BY <1>1, <2>1 DEF ApplyInv
      <3>8. HeadInv'
        BY <1>0, <2>1, <2>2, <3>1 DEF HeadInv, modVars, connVars
      <3> QED BY <3>4, <3>5, <3>6, <3>7, <3>8 DEF FlowInv
    <2>5. CASE c.token # connToken
      <3>1. calls' = {} /\ reply' = [status |-> 409, token |-> 0, history |-> FALSE]
        BY <1>1, <1>5, <2>5 DEF Admit, Answer
      <3>2. OneInv'
        BY <1>1, <2>1, <3>1 DEF OneInv
      <3>3. ConnInv'
        BY <1>0, <1>3, <2>1, <2>2, <3>1 DEF ConnInv, Own, Greeted, modVars, connVars
      <3>4. PostInv'
        BY <1>0, <2>2, <3>1 DEF PostInv
      <3>5. ApplyInv'
        BY <1>1, <2>1 DEF ApplyInv
      <3>6. HeadInv'
        BY <1>0, <2>1, <2>2, <3>1 DEF HeadInv, modVars, connVars
      <3> QED BY <3>2, <3>3, <3>4, <3>5, <3>6 DEF FlowInv
    <2> QED BY <2>4, <2>5
  <1>6. CASE BeginApply(c)
    <2>1. /\ c.at = "admitted" /\ calls' = calls \ {c} /\ UNCHANGED <<modVars, reply, connVars>>
          /\ applying' = [batch |-> c.batch, at |-> "fold", live |-> TRUE, waited |-> c.waited, state |-> FALSE]
      BY <1>6 DEF BeginApply
    <2>2. /\ applying'.batch = c.batch /\ applying'.at = "fold" /\ applying'.live /\ applying'.waited
          /\ calls' = {} /\ reply' = NoReply /\ posted' = posted
      BY <1>1, <2>1 DEF modVars
    <2>3. c.kind = "events"
      BY <2>1 DEF WaitInv
    <2>4. c.batch = posted /\ registered /\ pump = "post" /\ pump' = pump
      BY <1>0, <1>2, <2>1, <2>3 DEF PostInv, modVars
    <2>5. OneInv'
      BY <2>2 DEF OneInv
    <2>6. ConnInv'
      BY <1>0, <1>3, <2>1, <2>2, <2>4 DEF ConnInv, Own, Greeted, modVars, connVars
    <2>7. PostInv'
      BY <1>0, <2>2, <2>4 DEF PostInv
    <2>8. posted = <<>> \o posted /\ <<>> \in Seq(Event)
      BY <1>0, ConcatEmptySeq
    <2>9. DoneOf(posted, posted) = <<>>
      BY <1>0, <2>8, DoneAt
    <2>10. Done' = <<>> /\ posted' = Done' \o applying'.batch /\ Done' \in Seq(Event)
      BY <2>2, <2>4, <2>8, <2>9 DEF Done
    <2>11. ApplyInv'
      BY <2>1, <2>2, <2>4, <2>10 DEF ApplyInv, connVars
    <2>12. HeadInv'
      BY <1>0, <1>1, <2>1, <2>2, <2>4 DEF HeadInv, modVars, connVars
    <2> QED BY <2>5, <2>6, <2>7, <2>11, <2>12 DEF FlowInv
  <1> QED BY <1>4, <1>5, <1>6

\* One more event of the batch is applied.
LEMMA DoneMore ==
    ASSUME TypeInv, ApplyInv, applying.at # "free", applying.batch # <<>>, posted' = posted,
           applying'.batch = Tail(applying.batch)
    PROVE  /\ Head(applying.batch) \in Event /\ Done \in Seq(Event)
           /\ Done' = Append(Done, Head(applying.batch)) /\ Done' \in Seq(Event)
           /\ posted' = Done' \o applying'.batch
  <1> DEFINE b == applying.batch
             d == Append(Done, Head(b))
  <1>1. b \in Seq(Event) /\ Done \in Seq(Event) /\ posted = Done \o b
    BY DEF TypeInv, ApplyType, ApplyInv
  <1>2. Head(b) \in Event /\ Tail(b) \in Seq(Event) /\ d \in Seq(Event) /\ Done \o b = d \o Tail(b)
    BY <1>1, DoneStep
  <1> HIDE DEF b, d
  <1>3. DoneOf(d \o Tail(b), Tail(b)) = d
    BY <1>2, DoneAt
  <1>4. posted' = d \o Tail(b) /\ applying'.batch = Tail(b)
    BY <1>1, <1>2 DEF b
  <1>5. Done' = d
    BY <1>3, <1>4 DEF Done
  <1> QED BY <1>1, <1>2, <1>4, <1>5 DEF b, d

\* A batch that is owed its history begins with it.
LEMMA OwedHead ==
    ASSUME TypeInv, WaitInv, FlowInv, applying.at # "free", owed
    PROVE  applying.batch = posted /\ HistoryFirst(applying.batch) /\ Head(applying.batch).type = "history"
  <1>0. OneInv /\ ApplyInv /\ HeadInv
    BY DEF FlowInv
  <1>1. pump = "post" /\ registered /\ Done = <<>> /\ posted = Done \o applying.batch
    BY <1>0, Alone DEF ApplyInv
  <1>2. applying.batch \in Seq(Event)
    BY DEF TypeInv, ApplyType
  <1>3. posted = applying.batch
    BY <1>1, <1>2, ConcatEmptySeq
  <1>4. HistoryFirst(applying.batch)
    BY <1>0, <1>1, <1>3 DEF HeadInv
  <1> QED BY <1>2, <1>3, <1>4 DEF HistoryFirst

LEMMA FlowApplied ==
    ASSUME TypeInv, WaitInv, FlowInv, ApplyRow \/ ApplyTurn \/ ApplyHistory \/ Rebuild
    PROVE  FlowInv'
  <1>0. OneInv /\ ConnInv /\ PostInv /\ ApplyInv /\ HeadInv /\ ApplyType
    BY DEF FlowInv, TypeInv
  <1>1. applying.at # "free" /\ applying.batch # <<>>
    <2>1. CASE ApplyRow \/ ApplyTurn \/ ApplyHistory
      BY <2>1 DEF ApplyRow, ApplyTurn, ApplyHistory, TakeEvent
    <2>2. CASE Rebuild
      BY <2>2 DEF Rebuild, TypeInv, RebuildInv
    <2> QED BY <2>1, <2>2
  <1>2. calls = {} /\ reply = NoReply /\ pump = "post" /\ registered /\ applying.live /\ applying.waited
    BY <1>0, <1>1, Alone DEF ApplyInv, OneInv
  <1>3. /\ UNCHANGED modVars /\ UNCHANGED <<registered, connToken, connInstance, connName, path, full>>
        /\ calls' = calls /\ reply' = reply
    BY DEF ApplyRow, ApplyTurn, ApplyHistory, Rebuild, connVars
  <1>4. applying'.at # "free" /\ applying'.live = applying.live /\ applying'.waited = applying.waited
    <2>1. CASE ApplyRow
      BY <1>0, <2>1 DEF ApplyRow, TakeEvent, ApplyType
    <2>2. CASE ApplyTurn
      BY <1>0, <2>2 DEF ApplyTurn, TakeEvent, ApplyType
    <2>3. CASE ApplyHistory
      BY <1>0, <2>3 DEF ApplyHistory, TakeEvent, ApplyType
    <2>4. CASE Rebuild
      BY <1>0, <2>4 DEF Rebuild, ApplyType
    <2> QED BY <2>1, <2>2, <2>3, <2>4
  <1>5. \/ ApplyHistory /\ owed /\ owed' = owed /\ applying'.at = "rebuild" /\ applying'.batch = applying.batch
        \/ ~owed' /\ applying'.batch = Tail(applying.batch) /\ applying'.at = "fold"
    <2>1. CASE ApplyRow
      <3>1. Head(applying.batch).type = "row" /\ applying.at = "fold" /\ owed' = owed
        BY <2>1 DEF ApplyRow, TakeEvent
      <3>2. ~owed
        BY <1>1, <3>1, OwedHead
      <3>3. applying'.batch = Tail(applying.batch) /\ applying'.at = "fold"
        BY <1>0, <2>1, <3>1 DEF ApplyRow, ApplyType
      <3> QED BY <3>1, <3>2, <3>3
    <2>2. CASE ApplyTurn
      <3>1. Head(applying.batch).type \in {"turn", "level"} /\ applying.at = "fold" /\ owed' = owed
        BY <2>2 DEF ApplyTurn, TakeEvent
      <3>2. ~owed
        BY <1>1, <3>1, OwedHead
      <3>3. applying'.batch = Tail(applying.batch) /\ applying'.at = "fold"
        BY <1>0, <2>2, <3>1 DEF ApplyTurn, ApplyType
      <3> QED BY <3>1, <3>2, <3>3
    <2>3. CASE ApplyHistory
      <3>1. owed' = owed /\ applying.at = "fold"
        BY <2>3 DEF ApplyHistory, TakeEvent, connVars
      <3>2. CASE owed
        <4>1. applying' = [applying EXCEPT !.at = "rebuild"]
          BY <2>3, <3>2 DEF ApplyHistory
        <4> QED BY <1>0, <2>3, <3>1, <3>2, <4>1 DEF ApplyType
      <3>3. CASE ~owed
        <4>1. applying' = [applying EXCEPT !.batch = Tail(@)]
          BY <2>3, <3>3 DEF ApplyHistory
        <4> QED BY <1>0, <3>1, <3>3, <4>1 DEF ApplyType
      <3> QED BY <3>2, <3>3
    <2>4. CASE Rebuild
      BY <1>0, <2>4 DEF Rebuild, ApplyType
    <2> QED BY <2>1, <2>2, <2>3, <2>4
  <1>6. OneInv'
    BY <1>2, <1>3, <1>4 DEF OneInv
  <1>7. (owed' => owed) /\ ~Greeted /\ pump' = pump /\ posted' = posted /\ instance' = instance /\ queue' = queue
        /\ token' = token
    BY <1>2, <1>3, <1>5 DEF Greeted, modVars
  <1>8. ConnInv'
    BY <1>0, <1>2, <1>3, <1>7 DEF ConnInv, Own, Greeted
  <1>9. PostInv'
    BY <1>0, <1>2, <1>3, <1>7 DEF PostInv
  <1>10. HeadInv'
    BY <1>0, <1>2, <1>3, <1>7 DEF HeadInv
  <1>11. ApplyInv'
    <2>1. CASE ApplyHistory /\ owed /\ owed' = owed /\ applying'.at = "rebuild" /\ applying'.batch = applying.batch
      <3>1. Done' = Done
        BY <1>7, <2>1 DEF Done
      <3> QED BY <1>0, <1>1, <1>2, <1>3, <1>4, <1>7, <2>1, <3>1 DEF ApplyInv
    <2>2. CASE ~owed' /\ applying'.batch = Tail(applying.batch) /\ applying'.at = "fold"
      <3>1. Done' \in Seq(Event) /\ posted' = Done' \o applying'.batch
        BY <1>0, <1>1, <1>7, <2>2, DoneMore
      <3> QED BY <1>2, <1>3, <1>4, <2>2, <3>1 DEF ApplyInv
    <2> QED BY <1>5, <2>1, <2>2
  <1> QED BY <1>6, <1>8, <1>9, <1>10, <1>11 DEF FlowInv

LEMMA FlowEnded ==
    ASSUME TypeInv, WaitInv, FlowInv, EndApply \/ Restart
    PROVE  FlowInv'
  <1>0. OneInv /\ ConnInv /\ PostInv /\ ApplyInv /\ HeadInv /\ NoApply.at = "free"
    BY DEF FlowInv, NoApply
  <1>1. CASE EndApply
    <2>1. applying.at = "fold" /\ applying.batch = <<>>
      BY <1>1 DEF EndApply
    <2>2. calls = {} /\ pump = "post" /\ registered /\ applying.waited
      BY <1>0, <2>1, Alone DEF ApplyInv, OneInv
    <2>3. ~owed
      <3> SUFFICES ASSUME owed PROVE FALSE
        OBVIOUS
      <3>1. HistoryFirst(applying.batch)
        BY <2>1, OwedHead
      <3> QED BY <2>1, <3>1 DEF HistoryFirst
    <2>4. /\ UNCHANGED modVars /\ calls' = calls /\ UNCHANGED <<registered, connInstance, owed>>
          /\ reply' = [status |-> 200, token |-> 0, history |-> FALSE] /\ applying' = NoApply
          /\ (connToken' = connToken \/ connToken' = 0)
      BY <1>1, <2>2 DEF EndApply
    <2>5. OneInv'
      BY <1>0, <2>2, <2>4 DEF OneInv
    <2>6. ConnInv'
      BY <1>0, <2>2, <2>3, <2>4 DEF ConnInv, Own, Greeted, modVars
    <2>7. PostInv'
      BY <1>0, <2>2, <2>4 DEF PostInv, modVars
    <2>8. ApplyInv' /\ HeadInv'
      BY <1>0, <2>2, <2>3, <2>4 DEF ApplyInv, HeadInv, modVars
    <2> QED BY <2>5, <2>6, <2>7, <2>8 DEF FlowInv
  <1>2. CASE Restart
    <2>1. /\ UNCHANGED modVars /\ registered' = FALSE /\ connToken' = 0 /\ connInstance' = 0 /\ owed' = FALSE
          /\ applying' = NoApply /\ calls' = {c \in calls : c.at = "sent"} /\ reply' = reply
      BY <1>2 DEF Restart
    <2>2. instance \in Nat
      BY DEF TypeInv, Values
    <2>3. OneInv'
      BY <1>0, <2>1 DEF OneInv
    <2>4. ConnInv'
      BY <1>0, <2>1, <2>2 DEF ConnInv, Greeted, modVars
    <2>5. PostInv'
      BY <1>0, <2>1 DEF PostInv, modVars
    <2>6. ApplyInv' /\ HeadInv'
      BY <1>0, <2>1 DEF ApplyInv, HeadInv
    <2> QED BY <2>3, <2>4, <2>5, <2>6 DEF FlowInv
  <1> QED BY <1>1, <1>2

LEMMA FlowStep == TypeInv /\ WaitInv /\ ~scope.overlap /\ FlowInv /\ [Next]_vars => FlowInv'
  <1> SUFFICES ASSUME TypeInv, WaitInv, ~scope.overlap, FlowInv, [Next]_vars PROVE FlowInv'
    OBVIOUS
  <1>1. CASE Engine \/ Rename \/ PollRefused \/ Follow \/ UNCHANGED vars
    BY <1>1, FlowEngine DEF Engine
  <1>2. CASE FinishHello \/ HistoryFails \/ FlushAnswered \/ RequestDies \/ ReplyLost \/ GiveUp \/ Reload
    <2>1. pump' = "idle"
      BY <1>2 DEF FinishHello, HistoryFails, FlushAnswered, RequestDies, ReplyLost, GiveUp, RequestFails, Reload
    <2> QED BY <1>2, <2>1, FlowToIdle
  <1>3. CASE SendHello \/ ReadMessages \/ ReadLast \/ Flush
    <2>1. pump' # "idle"
      BY <1>3 DEF SendHello, ReadMessages, ReadLast, Flush
    <2> QED BY <1>3, <2>1, FlowPump
  <1>4. CASE HelloAnswered
    BY <1>4, FlowToIdle, FlowPump
  <1>5. CASE \E c \in calls : ServeHello(c) \/ Admit(c) \/ BeginApply(c)
    BY <1>5, FlowServed
  <1>6. CASE ApplyRow \/ ApplyTurn \/ ApplyHistory \/ Rebuild
    BY <1>6, FlowApplied
  <1>7. CASE EndApply \/ Restart
    BY <1>7, FlowEnded
  <1> QED BY <1>1, <1>2, <1>3, <1>4, <1>5, <1>6, <1>7 DEF Next, Mod, Service, Fault

\* The bounds of a behaviour stay what they are.
LEMMA ScopeStep == [Next]_vars => scope' = scope
  <1> SUFFICES ASSUME [Next]_vars PROVE scope' = scope
    OBVIOUS
  <1>1. CASE Engine \/ Rename \/ PollRefused \/ Follow \/ UNCHANGED vars
    BY <1>1 DEF Engine, StoreRow, WriteFile, StartTurn, EndTurn, SendLevel, Rename, PollRefused, Follow, vars, countVars
  <1>2. CASE FinishHello \/ HistoryFails \/ FlushAnswered \/ RequestDies \/ ReplyLost \/ GiveUp \/ Reload
    BY <1>2 DEF FinishHello, HistoryFails, FlushAnswered, RequestDies, ReplyLost, GiveUp, RequestFails, Reload, countVars
  <1>3. CASE SendHello \/ HelloAnswered \/ ReadMessages \/ ReadLast \/ Flush
    BY <1>3 DEF SendHello, HelloAnswered, ReadMessages, ReadLast, Flush, countVars
  <1>4. CASE \E c \in calls : ServeHello(c) \/ Admit(c) \/ BeginApply(c)
    BY <1>4 DEF ServeHello, Admit, BeginApply, countVars
  <1>5. CASE ApplyRow \/ ApplyTurn \/ ApplyHistory \/ Rebuild \/ EndApply \/ Restart
    BY <1>5 DEF ApplyRow, ApplyTurn, ApplyHistory, Rebuild, EndApply, Restart, countVars
  <1> QED BY <1>1, <1>2, <1>3, <1>4, <1>5 DEF Next, Mod, Service, Fault

-----------------------------------------------------------------------------
(* The fold of the turn.                                                   *)

\* The events the mod has still to see answered, in order.
Pend == posted \o queue

\* They say of the turn what is so, and what a hello's snapshot covers stands first.
ToldInv ==
    /\ Tells(Pend, running)
    /\ Greeted /\ hello.covers => CoveredFirst(queue)

\* When they say nothing, the fold has it; and while they are applied, it has what
\* those applied say.
FoldInv ==
    /\ Own /\ ~owed /\ ~full /\ Silent(Pend) => turnOpen = running
    /\ applying.at # "free" => (applying.state => ~Silent(Done)) /\ Tells(Done, turnOpen)
    /\ pump = "post" /\ reply.status = 200 /\ registered => Tells(posted, turnOpen)

LEMMA TellsAgree ==
    ASSUME NEW s \in Seq(Event), NEW a, NEW b, Tells(s, a), Tells(s, b), ~Silent(s)
    PROVE  a = b
  <1>1. PICK i : LastTold(s, i)
    BY LastToldIn
  <1> QED BY <1>1 DEF Tells, LastTold

LEMMA TellsSilent ==
    ASSUME NEW s, NEW b, Silent(s)
    PROVE  Tells(s, b)
  BY DEF Silent, Tells, LastTold

LEMMA ToldInit == Init => ToldInv /\ FoldInv
  <1> SUFFICES ASSUME Init PROVE ToldInv /\ FoldInv
    OBVIOUS
  <1>1. posted = <<>> /\ queue = <<>> /\ ~registered /\ pump = "idle" /\ applying.at = "free"
    BY DEF Init, NoApply
  <1>2. Pend = <<>>
    <2>1. <<>> \in Seq(Event)
      OBVIOUS
    <2> QED BY <1>1, <2>1, ConcatEmptySeq DEF Pend
  <1>3. Tells(<<>>, running)
    BY TellsOne
  <1> QED BY <1>1, <1>2, <1>3 DEF ToldInv, FoldInv, Greeted, Own

\* Neither what is on its way nor the fold changes.
LEMMA FoldKept ==
    ASSUME ToldInv, FoldInv, Pend' = Pend, posted' = posted, applying' = applying, running' = running,
           turnOpen' = turnOpen, registered' = registered, connInstance' = connInstance, instance' = instance,
           owed' = owed, full' = full,
           pump' = "post" /\ reply'.status = 200 => pump = "post" /\ reply.status = 200,
           (Greeted /\ hello.covers)' => CoveredFirst(queue')
    PROVE  ToldInv' /\ FoldInv'
  <1>1. ToldInv'
    BY DEF ToldInv
  <1>2. Done' = Done /\ Own' = Own
    BY DEF Done, Own
  <1>3. FoldInv'
    BY <1>2 DEF FoldInv
  <1> QED BY <1>1, <1>3

\* An event is queued: what it says, if it says something, is so.
LEMMA FoldPushed ==
    ASSUME TypeInv, ToldInv, FoldInv, NEW e \in Event, ~e.covered, queue' = Push(queue, e),
           IF Telling(e) THEN e.on = running' ELSE running' = running,
           posted' = posted, applying' = applying, turnOpen' = turnOpen, registered' = registered,
           connInstance' = connInstance, instance' = instance, owed' = owed, full' = full, pump' = pump,
           reply' = reply, hello' = hello
    PROVE  ToldInv' /\ FoldInv'
  <1>1. queue \in Seq(Event) /\ posted \in Seq(Event)
    BY DEF TypeInv, Values
  <1>2. Pend' = posted \o Push(queue, e)
    BY DEF Pend
  <1>3. CoveredFirst(queue) => CoveredFirst(queue')
    BY <1>1, PushKeeps
  <1>4. Done' = Done /\ Own' = Own /\ Greeted' = Greeted
    BY DEF Done, Own, Greeted
  <1>5. CASE Telling(e)
    <2>1. Tells(Pend', running') /\ ~Silent(Pend')
      BY <1>1, <1>2, <1>5, PushBehind
    <2> QED BY <1>3, <1>4, <2>1 DEF ToldInv, FoldInv
  <1>6. CASE ~Telling(e)
    <2>1. (Tells(Pend, running) => Tells(Pend', running)) /\ (Silent(Pend') => Silent(Pend))
      BY <1>1, <1>2, <1>6, PushBehind DEF Pend
    <2> QED BY <1>3, <1>4, <1>6, <2>1 DEF ToldInv, FoldInv
  <1> QED BY <1>5, <1>6

LEMMA FoldEngine ==
    ASSUME TypeInv, ToldInv, FoldInv,
           StoreRow \/ WriteFile \/ StartTurn \/ EndTurn \/ SendLevel \/ Rename \/ PollRefused \/ Follow \/ UNCHANGED vars
    PROVE  ToldInv' /\ FoldInv'
  <1>1. CASE StoreRow
    <2>1. PICK prompt \in BOOLEAN :
             /\ Ev("row", stored + 1, 0, prompt) \in Event /\ ~Ev("row", stored + 1, 0, prompt).covered
             /\ queue' = Push(queue, Ev("row", stored + 1, 0, prompt))
      BY <1>1, Queued
    <2> DEFINE e == Ev("row", stored + 1, 0, prompt)
    <2>2. e.type = "row" /\ e.on = prompt
      BY DEF Ev
    <2>3. running' = running /\ running = TRUE
      BY <1>1 DEF StoreRow, TypeInv, Flags
    <2>4. IF Telling(e) THEN e.on = running' ELSE running' = running
      BY <2>1, <2>2, <2>3 DEF Telling
    <2> HIDE DEF e
    <2>5. e \in Event /\ ~e.covered /\ queue' = Push(queue, e)
      BY <2>1 DEF e
    <2> QED BY <1>1, <2>4, <2>5, FoldPushed DEF StoreRow, connVars
  <1>2. CASE StartTurn
    <2> DEFINE e == Ev("turn", 0, 0, TRUE)
    <2>1. e \in Event /\ ~e.covered /\ queue' = Push(queue, e)
      BY <1>2, Queued DEF StartTurn
    <2>2. e.type = "turn" /\ e.on = TRUE /\ running' = TRUE
      BY <1>2 DEF Ev, StartTurn
    <2>3. IF Telling(e) THEN e.on = running' ELSE running' = running
      BY <2>2 DEF Telling
    <2> HIDE DEF e
    <2> QED BY <1>2, <2>1, <2>3, FoldPushed DEF StartTurn, connVars
  <1>3. CASE EndTurn
    <2> DEFINE e == Ev("turn", 0, 0, FALSE)
    <2>1. e \in Event /\ ~e.covered /\ queue' = Push(queue, e)
      BY <1>3, Queued DEF EndTurn
    <2>2. e.type = "turn" /\ e.on = FALSE /\ running' = FALSE
      BY <1>3 DEF Ev, EndTurn
    <2>3. IF Telling(e) THEN e.on = running' ELSE running' = running
      BY <2>2 DEF Telling
    <2> HIDE DEF e
    <2> QED BY <1>3, <2>1, <2>3, FoldPushed DEF EndTurn, connVars
  <1>4. CASE SendLevel
    <2> DEFINE e == Ev("level", 0, 0, running)
    <2>1. e \in Event /\ ~e.covered /\ queue' = Push(queue, e)
      BY <1>4, Queued DEF SendLevel
    <2>2. e.type = "level" /\ e.on = running /\ running' = running
      BY <1>4 DEF Ev, SendLevel, claudeVars
    <2>3. IF Telling(e) THEN e.on = running' ELSE running' = running
      BY <2>2 DEF Telling
    <2> HIDE DEF e
    <2> QED BY <1>4, <2>1, <2>3, FoldPushed DEF SendLevel, connVars
  <1>5. CASE WriteFile \/ Rename \/ PollRefused \/ Follow \/ UNCHANGED vars
    <2>1. /\ posted' = posted /\ queue' = queue /\ applying' = applying /\ running' = running /\ turnOpen' = turnOpen
          /\ registered' = registered /\ connInstance' = connInstance /\ instance' = instance /\ owed' = owed
          /\ full' = full /\ pump' = pump /\ reply' = reply /\ hello' = hello
      BY <1>5 DEF WriteFile, Rename, PollRefused, Follow, Rehello, vars, claudeVars, modVars, connVars
    <2>2. Pend' = Pend /\ ((Greeted /\ hello.covers)' => CoveredFirst(queue'))
      BY <2>1 DEF Pend, ToldInv, Greeted
    <2> QED BY <2>1, <2>2, FoldKept
  <1> QED BY <1>1, <1>2, <1>3, <1>4, <1>5

\* What has not been answered goes back ahead of the queue.
LEMMA PendBack ==
    ASSUME TypeInv, posted' = <<>>,
           queue' = posted \o queue
    PROVE  Pend' = Pend
  <1>1. posted \o queue \in Seq(Event)
    BY ConcatProperties DEF TypeInv, Values
  <1> QED BY <1>1, ConcatEmptySeq DEF Pend

\* The mod's own steps.
LEMMA FoldMod ==
    ASSUME TypeInv, WaitInv, FlowInv, ToldInv, FoldInv, ~scope.overlap,
           SendHello \/ HelloAnswered \/ ReadMessages \/ ReadLast \/ HistoryFails \/ Flush \/ RequestDies
             \/ ReplyLost \/ GiveUp \/ Reload
    PROVE  ToldInv' /\ FoldInv'
  <1>0. /\ OneInv /\ ConnInv /\ PostInv /\ ApplyInv /\ HeadInv /\ queue \in Seq(Event) /\ posted \in Seq(Event)
        /\ NoReply.status = 0
    BY DEF FlowInv, TypeInv, Values, NoReply
  <1>1. CASE SendHello \/ ReadMessages \/ ReadLast \/ HistoryFails
    <2>1. /\ posted' = posted /\ queue' = queue /\ applying' = applying /\ running' = running
          /\ instance' = instance /\ UNCHANGED connVars /\ pump' # "post"
      BY <1>1 DEF SendHello, ReadMessages, ReadLast, HistoryFails, claudeVars
    <2>2. (Greeted /\ hello.covers)' => CoveredFirst(queue')
      <3>1. CASE SendHello \/ HistoryFails
        BY <3>1 DEF SendHello, HistoryFails, Greeted
      <3>2. CASE ReadMessages \/ ReadLast
        <4>1. Greeted /\ (hello' = [hello EXCEPT !.n = stored] \/ hello' = [hello EXCEPT !.last = lastRow, !.on = running])
          BY <3>2 DEF ReadMessages, ReadLast, Greeted
        <4>2. hello'.covers = hello.covers
          BY <4>1 DEF TypeInv, Values
        <4> QED BY <2>1, <4>1, <4>2 DEF ToldInv
      <3> QED BY <1>1, <3>1, <3>2
    <2> QED BY <2>1, <2>2, FoldKept DEF Pend, connVars
  <1>2. CASE HelloAnswered
    <2>1. /\ pump = "hello" /\ posted' = posted /\ applying' = applying /\ running' = running /\ calls' = calls
          /\ instance' = instance /\ UNCHANGED connVars /\ pump' # "post" /\ reply # NoReply
      BY <1>2 DEF HelloAnswered, claudeVars
    <2>2. CASE queue' = queue /\ ~(Greeted /\ hello.covers)'
      BY <2>1, <2>2, FoldKept DEF Pend, connVars
    <2>3. CASE queue' = Covered(queue)
      <3>1. posted = <<>> /\ applying.at = "free"
        BY <1>0, <2>1, Alone DEF PostInv, NoApply
      <3>2. Pend = queue /\ Pend' = queue'
        <4>1. queue' \in Seq(Event)
          BY <1>0, <2>3, CoveredKeeps
        <4> QED BY <1>0, <2>1, <3>1, <4>1, ConcatEmptySeq DEF Pend
      <3>3. /\ Tells(queue', running') <=> Tells(queue, running)
            /\ Silent(queue') <=> Silent(queue)
            /\ CoveredFirst(queue')
        BY <1>0, <2>1, <2>3, CoveredKeeps
      <3>4. ToldInv'
        BY <3>2, <3>3 DEF ToldInv
      <3>5. FoldInv'
        BY <2>1, <3>1, <3>2, <3>3 DEF FoldInv, Own, connVars
      <3> QED BY <3>4, <3>5
    <2>4. hello \in [asked : Nat, token : Nat, covers : BOOLEAN, n : Nat, last : Nat, on : BOOLEAN]
      BY DEF TypeInv, Values
    <2>5. (queue' = queue /\ ~(Greeted /\ hello.covers)') \/ queue' = Covered(queue)
      <3>1. CASE asks # hello.asked
        BY <1>2, <3>1 DEF HelloAnswered, Greeted
      <3>2. CASE asks = hello.asked /\ reply.history
        BY <1>2, <3>2 DEF HelloAnswered, Covered
      <3>3. CASE asks = hello.asked /\ ~reply.history
        <4>1. queue' = queue /\ hello' = [hello EXCEPT !.token = reply.token, !.covers = reply.history]
          BY <1>2, <3>3 DEF HelloAnswered
        <4>2. ~hello'.covers
          BY <2>4, <3>3, <4>1
        <4> QED BY <4>1, <4>2
      <3> QED BY <3>1, <3>2, <3>3
    <2> QED BY <2>2, <2>3, <2>5
  <1>3. CASE Flush
    <2>1. /\ posted' = queue /\ queue' = <<>> /\ pump = "idle" /\ pump' = "post" /\ reply' = reply
          /\ applying' = applying /\ running' = running
          /\ instance' = instance /\ UNCHANGED connVars
      BY <1>3 DEF Flush, claudeVars
    <2>2. posted = <<>> /\ applying.at = "free" /\ reply = NoReply
      BY <1>0, <2>1, Alone DEF PostInv, NoApply, WaitInv
    <2>3. Pend' = Pend
      BY <1>0, <2>1, <2>2, ConcatEmptySeq DEF Pend
    <2>4. ToldInv'
      BY <2>1, <2>3 DEF ToldInv, Greeted
    <2>5. FoldInv'
      BY <1>0, <2>1, <2>2, <2>3 DEF FoldInv, Own, connVars
    <2> QED BY <2>4, <2>5
  <1>4. CASE RequestDies \/ ReplyLost
    <2>1. /\ posted' = <<>> /\ queue' = posted \o queue /\ pump' = "idle"
          /\ applying' = applying /\ running' = running
          /\ instance' = instance /\ UNCHANGED connVars /\ (reply # NoReply \/ ~Waiting)
      BY <1>4 DEF RequestDies, ReplyLost, RequestFails, claudeVars
    <2>2. applying.at = "free"
      BY <1>0, <2>1, Alone DEF NoApply
    <2>3. Pend' = Pend
      BY <2>1, PendBack
    <2>4. ToldInv'
      BY <2>1, <2>3 DEF ToldInv, Greeted
    <2>5. FoldInv'
      BY <2>1, <2>2, <2>3 DEF FoldInv, Own, connVars
    <2> QED BY <2>4, <2>5
  <1>5. CASE GiveUp
    BY <1>5 DEF GiveUp
  <1>6. CASE Reload
    <2>1. /\ posted' = <<>> /\ queue' = <<>> /\ pump' = "idle" /\ ~Waiting /\ instance' = instance + 1
          /\ applying' = [applying EXCEPT !.waited = FALSE]
          /\ UNCHANGED connVars
      BY <1>6 DEF Reload
    <2>2. applying' = NoApply
      <3>1. applying = NoApply
        BY <1>0, <2>1, Alone
      <3> QED BY <2>1, <3>1 DEF NoApply
    <2>3. Pend' = <<>>
      BY <2>1, ConcatEmptySeq, <<>> \in Seq(Event) DEF Pend
    <2>4. ToldInv'
      BY <2>1, <2>3, TellsOne DEF ToldInv, Greeted
    <2>5. ~Own'
      <3>1. instance \in Nat /\ connInstance \in Nat
        BY DEF TypeInv, Values
      <3>2. connInstance' <= instance
        BY <1>0, <2>1 DEF ConnInv, connVars
      <3> QED BY <2>1, <3>1, <3>2 DEF Own, connVars
    <2>6. FoldInv'
      BY <2>1, <2>2, <2>5 DEF FoldInv, NoApply
    <2> QED BY <2>4, <2>6
  <1> QED BY <1>1, <1>2, <1>3, <1>4, <1>5, <1>6

\* A hello is over: what its snapshot covers is dropped, and a level says the rest.
LEMMA FoldFinish ==
    ASSUME TypeInv, WaitInv, FlowInv, ToldInv, FoldInv, FinishHello
    PROVE  ToldInv' /\ FoldInv'
  <1>0. /\ OneInv /\ PostInv /\ queue \in Seq(Event)
        /\ hello.n \in Nat /\ hello.last \in Nat /\ hello.on \in BOOLEAN
    BY DEF FlowInv, TypeInv, Values
  <1>1. /\ pump = "level" /\ pump' = "idle" /\ posted' = posted /\ applying' = applying /\ running' = running
        /\ instance' = instance /\ UNCHANGED connVars
    BY DEF FinishHello, claudeVars
  <1>2. Greeted /\ ~Greeted' /\ posted = <<>> /\ applying.at = "free"
    BY <1>0, <1>1, Alone DEF PostInv, NoApply, Greeted
  <1>3. CASE asks # hello.asked
    <2>1. queue' = queue
      BY <1>3 DEF FinishHello
    <2> QED BY <1>1, <1>2, <2>1, FoldKept DEF Pend, connVars
  <1>4. CASE asks = hello.asked
    <2> DEFINE left == IF hello.covers THEN Kept(queue, Uncovered(queue)) ELSE queue
               history == IF hello.covers THEN <<Ev("history", hello.n, hello.last, hello.on)>> ELSE <<>>
    <2>1. queue' = Prepend(left, history, Ev("level", 0, 0, running))
      BY <1>4 DEF FinishHello, Uncovered
    <2>2. Tells(queue, running) /\ (hello.covers => CoveredFirst(queue))
      <3>1. Pend = queue
        BY <1>0, <1>2, ConcatEmptySeq DEF Pend
      <3> QED BY <1>2, <3>1 DEF ToldInv
    <2>3. left \in Seq(Event) /\ Tells(left, running)
      <3>1. CASE hello.covers
        <4>1. Uncovered(queue) \in SUBSET (DOMAIN queue)
          BY DEF Uncovered
        <4>2. \A i \in Uncovered(queue), j \in DOMAIN queue : i < j => j \in Uncovered(queue)
          BY <2>2, <3>1 DEF Uncovered, CoveredFirst
        <4>3. Kept(queue, Uncovered(queue)) \in Seq(Event)
          BY <1>0, <4>1, KeptEvents
        <4>4. Tells(Kept(queue, Uncovered(queue)), running)
          BY <1>0, <2>2, <4>1, <4>2, TellsKept
        <4> QED BY <3>1, <4>3, <4>4
      <3>2. CASE ~hello.covers
        BY <1>0, <2>2, <3>2
      <3> QED BY <3>1, <3>2
    <2>4. /\ Ev("history", hello.n, hello.last, hello.on) \in Event
          /\ Ev("history", hello.n, hello.last, hello.on).type = "history"
      BY <1>0, EventTypes
    <2>5. history = <<>> \/ \E h \in Event : h.type = "history" /\ history = <<h>>
      BY <2>4
    <2>6. /\ Ev("level", 0, 0, running) \in Event /\ Ev("level", 0, 0, running).type = "level"
          /\ Ev("level", 0, 0, running).on = running
      BY EventTypes DEF TypeInv, Flags
    <2> HIDE DEF left, history
    <2>7. queue' \in Seq(Event) /\ Tells(queue', running) /\ ~Silent(queue')
      BY <2>1, <2>3, <2>5, <2>6, PrependKeeps
    <2>8. Pend' = queue'
      BY <1>1, <1>2, <2>7, ConcatEmptySeq DEF Pend
    <2>9. ToldInv'
      BY <1>1, <1>2, <2>7, <2>8 DEF ToldInv
    <2>10. FoldInv'
      BY <1>1, <1>2, <2>7, <2>8 DEF FoldInv
    <2> QED BY <2>9, <2>10
  <1> QED BY <1>3, <1>4

\* The batch has been answered.
LEMMA FoldAnswered ==
    ASSUME TypeInv, WaitInv, FlowInv, ToldInv, FoldInv, FlushAnswered
    PROVE  ToldInv' /\ FoldInv'
  <1>0. OneInv /\ queue \in Seq(Event) /\ posted \in Seq(Event)
    BY DEF FlowInv, TypeInv, Values
  <1>1. /\ pump = "post" /\ pump' = "idle" /\ reply # NoReply /\ posted' = <<>> /\ applying' = applying
        /\ running' = running /\ instance' = instance /\ UNCHANGED connVars
    BY DEF FlushAnswered, claudeVars
  <1>2. ~Greeted' /\ applying.at = "free"
    BY <1>0, <1>1, Alone DEF NoApply, Greeted
  <1>3. CASE reply.status = 200
    <2>1. queue' = queue
      BY <1>3 DEF FlushAnswered
    <2>2. Pend' = queue
      BY <1>0, <1>1, <2>1, ConcatEmptySeq DEF Pend
    <2>3. Tells(queue, running) /\ (Silent(queue) => Tells(posted, running))
      BY <1>0, TellsConcat DEF ToldInv, Pend
    <2>4. ToldInv'
      BY <1>1, <1>2, <2>2, <2>3 DEF ToldInv
    <2>5. Own /\ ~owed /\ ~full /\ Silent(queue) => turnOpen = running
      <3> SUFFICES ASSUME Own, ~owed, ~full, Silent(queue) PROVE turnOpen = running
        OBVIOUS
      <3>1. CASE Silent(posted)
        <4>1. Silent(Pend)
          BY <1>0, <3>1, SilentConcat DEF Pend
        <4> QED BY <4>1 DEF FoldInv
      <3>2. CASE ~Silent(posted)
        <4>1. Tells(posted, turnOpen)
          BY <1>1, <1>3 DEF FoldInv, Own
        <4> QED BY <1>0, <2>3, <3>2, <4>1, TellsAgree
      <3> QED BY <3>1, <3>2
    <2>6. FoldInv'
      BY <1>1, <1>2, <2>2, <2>5 DEF FoldInv, Own, connVars
    <2> QED BY <2>4, <2>6
  <1>4. CASE reply.status # 200
    <2>1. queue' = posted \o queue
      BY <1>4 DEF FlushAnswered
    <2>2. Pend' = Pend
      BY <1>1, <2>1, PendBack
    <2>3. ToldInv'
      BY <1>1, <1>2, <2>2 DEF ToldInv
    <2>4. FoldInv'
      BY <1>1, <1>2, <2>2 DEF FoldInv, Own, connVars
    <2> QED BY <2>3, <2>4
  <1> QED BY <1>3, <1>4

\* An event of the batch that says something is one of the batch.
LEMMA HeadTold ==
    ASSUME TypeInv, ApplyInv, applying.at # "free", applying.batch # <<>>, Telling(Head(applying.batch))
    PROVE  ~Silent(Pend)
  <1> DEFINE b == applying.batch
             d == Append(Done, Head(b))
  <1>1. b \in Seq(Event) /\ Done \in Seq(Event) /\ posted = Done \o b /\ queue \in Seq(Event) /\ posted \in Seq(Event)
    BY DEF TypeInv, ApplyType, ApplyInv, Values
  <1>2. Head(b) \in Event /\ Tail(b) \in Seq(Event) /\ d \in Seq(Event) /\ Done \o b = d \o Tail(b)
    BY <1>1, DoneStep
  <1>3. ~Silent(d)
    BY <1>1, <1>2, TellsAppend
  <1> HIDE DEF b, d
  <1>4. ~Silent(posted)
    BY <1>1, <1>2, <1>3, SilentConcat
  <1> QED BY <1>1, <1>4, SilentConcat DEF Pend

LEMMA FoldApplied ==
    ASSUME TypeInv, WaitInv, FlowInv, ToldInv, FoldInv, ApplyRow \/ ApplyTurn \/ ApplyHistory \/ Rebuild
    PROVE  ToldInv' /\ FoldInv'
  <1>0. OneInv /\ ConnInv /\ ApplyInv /\ ApplyType /\ turnOpen \in BOOLEAN /\ applying.state \in BOOLEAN
    BY DEF FlowInv, TypeInv, ApplyType, Flags
  <1>1. applying.at # "free" /\ applying.batch # <<>> /\ Head(applying.batch) \in Event
    <2>1. CASE ApplyRow \/ ApplyTurn \/ ApplyHistory
      BY <1>0, <2>1, HeadTailProperties DEF ApplyRow, ApplyTurn, ApplyHistory, TakeEvent, ApplyType
    <2>2. CASE Rebuild
      BY <1>0, <2>2, HeadTailProperties DEF Rebuild, TypeInv, RebuildInv, ApplyType
    <2> QED BY <2>1, <2>2
  <1>2. reply = NoReply /\ pump = "post" /\ NoReply.status = 0
    BY <1>0, <1>1, Alone DEF NoReply
  <1>3. /\ UNCHANGED <<claudeVars, modVars, reply>> /\ UNCHANGED <<registered, connInstance, full>>
    BY DEF ApplyRow, ApplyTurn, ApplyHistory, Rebuild, connVars
  <1>4. Pend' = Pend /\ posted' = posted /\ Own' = Own /\ pump' = pump
    BY <1>3 DEF Pend, Own, modVars
  <1>5. ToldInv'
    BY <1>2, <1>3, <1>4 DEF ToldInv, Greeted, claudeVars, modVars
  <1> DEFINE e == Head(applying.batch)
  <1>6. CASE ApplyRow \/ ApplyTurn
    <2>1. /\ IF Telling(e) THEN turnOpen' = e.on ELSE turnOpen' = turnOpen
          /\ owed' = owed /\ applying'.at = "fold" /\ applying'.batch = Tail(applying.batch)
          /\ applying'.state => applying.state \/ Telling(e)
      <3>1. CASE ApplyRow
        <4>1. e.type = "row" /\ e.on \in BOOLEAN /\ applying.at = "fold"
          BY <1>1, <3>1 DEF ApplyRow, TakeEvent, Event
        <4>2. turnOpen' = (turnOpen \/ e.on) /\ owed' = owed /\ applying' = [applying EXCEPT !.batch = Tail(@)]
          BY <3>1 DEF ApplyRow
        <4>3. Telling(e) <=> e.on
          BY <4>1 DEF Telling
        <4>4. IF Telling(e) THEN turnOpen' = e.on ELSE turnOpen' = turnOpen
          BY <1>0, <4>1, <4>2, <4>3
        <4>5. applying'.at = "fold" /\ applying'.batch = Tail(applying.batch) /\ (applying'.state => applying.state)
          BY <1>0, <4>1, <4>2 DEF ApplyType
        <4> QED BY <4>2, <4>4, <4>5
      <3>2. CASE ApplyTurn
        <4>1. e.type \in {"turn", "level"} /\ applying.at = "fold"
          BY <3>2 DEF ApplyTurn, TakeEvent
        <4>2. Telling(e)
          BY <4>1 DEF Telling
        <4>3. turnOpen' = e.on /\ owed' = owed
          BY <3>2 DEF ApplyTurn
        <4>4. applying'.at = "fold" /\ applying'.batch = Tail(applying.batch)
          BY <1>0, <3>2, <4>1 DEF ApplyTurn, ApplyType
        <4> QED BY <4>2, <4>3, <4>4
      <3> QED BY <1>6, <3>1, <3>2
    <2>2. Done' = Append(Done, e) /\ Done \in Seq(Event) /\ e \in Event
      BY <1>0, <1>1, <1>4, <2>1, DoneMore
    <2>3. Telling(e) => ~Silent(Pend)
      BY <1>0, <1>1, HeadTold
    <2>4. (applying.state => ~Silent(Done)) /\ Tells(Done, turnOpen)
      BY <1>1 DEF FoldInv
    <2> HIDE DEF e
    <2>5. (applying'.state => ~Silent(Done')) /\ Tells(Done', turnOpen')
      <3>1. CASE Telling(e)
        BY <2>1, <2>2, <3>1, TellsAppend
      <3>2. CASE ~Telling(e)
        BY <2>1, <2>2, <2>4, <3>2, TellsAppend
      <3> QED BY <3>1, <3>2
    <2>6. Own /\ ~owed /\ ~full /\ Silent(Pend) => turnOpen' = running
      BY <2>1, <2>3 DEF FoldInv
    <2> QED BY <1>2, <1>3, <1>4, <1>5, <2>1, <2>5, <2>6 DEF FoldInv, claudeVars
  <1>7. CASE ApplyHistory
    <2>1. e.type = "history" /\ applying.at = "fold" /\ turnOpen' = turnOpen /\ owed' = owed
      BY <1>7 DEF ApplyHistory, TakeEvent, connVars
    <2>2. ~Telling(e)
      BY <2>1 DEF Telling
    <2>3. applying'.state = applying.state /\ applying'.at # "free"
          /\ (applying'.batch = applying.batch \/ applying'.batch = Tail(applying.batch))
      BY <1>0, <1>7, <2>1 DEF ApplyHistory, ApplyType
    <2>4. (applying.state => ~Silent(Done)) /\ Tells(Done, turnOpen)
      BY <1>1 DEF FoldInv
    <2> HIDE DEF e
    <2>5. (applying'.state => ~Silent(Done')) /\ Tells(Done', turnOpen')
      <3>1. CASE applying'.batch = applying.batch
        <4>1. Done' = Done
          BY <1>4, <3>1 DEF Done
        <4> QED BY <2>1, <2>3, <2>4, <4>1
      <3>2. CASE applying'.batch = Tail(applying.batch)
        <4>1. Done' = Append(Done, e) /\ Done \in Seq(Event) /\ e \in Event
          BY <1>0, <1>1, <1>4, <3>2, DoneMore DEF e
        <4> QED BY <2>1, <2>2, <2>3, <2>4, <4>1, TellsAppend
      <3> QED BY <2>3, <3>1, <3>2
    <2>6. Own /\ ~owed /\ ~full /\ Silent(Pend) => turnOpen' = running
      BY <2>1 DEF FoldInv
    <2> QED BY <1>2, <1>3, <1>4, <1>5, <2>1, <2>5, <2>6 DEF FoldInv, claudeVars
  <1>8. CASE Rebuild
    <2>1. e.type = "history" /\ owed /\ full
      BY <1>0, <1>8 DEF Rebuild, TypeInv, RebuildInv, ApplyInv, ConnInv
    <2>2. ~Telling(e)
      BY <2>1 DEF Telling
    <2>3. applying'.batch = Tail(applying.batch) /\ applying'.state = applying.state /\ turnOpen' = e.on
      BY <1>0, <1>8 DEF Rebuild, ApplyType
    <2>4. Done = <<>> /\ (applying.state => ~Silent(Done))
      BY <1>0, <1>1, <2>1 DEF ApplyInv, FoldInv
    <2>5. Done' = Append(Done, e) /\ Done \in Seq(Event) /\ e \in Event
      BY <1>0, <1>1, <1>4, <2>3, DoneMore
    <2> HIDE DEF e
    <2>6. Silent(Done)
      BY <2>4, TellsOne
    <2>7. Silent(Done') /\ ~applying'.state
      BY <2>2, <2>3, <2>4, <2>5, <2>6, TellsAppend
    <2>8. Tells(Done', turnOpen')
      BY <2>7, TellsSilent
    <2> QED BY <1>2, <1>3, <1>4, <1>5, <2>1, <2>7, <2>8 DEF FoldInv
  <1> QED BY <1>6, <1>7, <1>8

\* session-events' other steps.
LEMMA FoldService ==
    ASSUME TypeInv, WaitInv, FlowInv, ToldInv, FoldInv,
           (\E c \in calls : ServeHello(c) \/ Admit(c) \/ BeginApply(c)) \/ EndApply \/ Restart
    PROVE  ToldInv' /\ FoldInv'
  <1>0. OneInv /\ PostInv /\ ApplyInv /\ NoReply.status = 0 /\ posted \in Seq(Event) /\ queue \in Seq(Event)
    BY DEF FlowInv, NoReply, TypeInv, Values
  <1>1. UNCHANGED <<claudeVars, modVars>>
    BY DEF ServeHello, Admit, BeginApply, EndApply, Restart
  <1>2. Pend' = Pend /\ posted' = posted /\ pump' = pump /\ running' = running /\ instance' = instance
    BY <1>1 DEF Pend, claudeVars, modVars
  <1>3. ToldInv'
    BY <1>1, <1>2 DEF ToldInv, Greeted, modVars
  <1>4. ASSUME NEW c \in calls, ServeHello(c) PROVE FoldInv'
    <2>1. c.kind = "hello" /\ c.waited /\ applying = NoApply
      BY <1>0, <1>4, Alone DEF ServeHello, OneInv
    <2>2. pump # "post"
      BY <2>1 DEF WaitInv
    <2>3. full' = TRUE /\ (applying' = applying \/ applying' = [applying EXCEPT !.live = FALSE])
      BY <1>4 DEF ServeHello
    <2>4. applying'.at = "free"
      BY <2>1, <2>3 DEF NoApply
    <2> QED BY <1>2, <2>2, <2>3, <2>4 DEF FoldInv
  <1>5. ASSUME NEW c \in calls, Admit(c) PROVE FoldInv'
    <2>1. /\ applying' = applying /\ UNCHANGED connVars
          /\ (reply' = reply \/ reply' = [status |-> 409, token |-> 0, history |-> FALSE])
      BY <1>5 DEF Admit, Answer
    <2>2. reply'.status = 200 => reply' = reply
      BY <2>1
    <2>3. Done' = Done /\ Own' = Own
      BY <1>2, <2>1 DEF Done, Own, connVars
    <2> QED BY <1>2, <2>1, <2>2, <2>3 DEF FoldInv, connVars
  <1>6. ASSUME NEW c \in calls, BeginApply(c) PROVE FoldInv'
    <2>1. /\ c.at = "admitted" /\ UNCHANGED connVars /\ reply' = reply
          /\ applying' = [batch |-> c.batch, at |-> "fold", live |-> TRUE, waited |-> c.waited, state |-> FALSE]
      BY <1>6 DEF BeginApply
    <2>2. c.batch = posted /\ reply = NoReply
      BY <1>0, <2>1, Alone DEF WaitInv, PostInv
    <2>3. ~applying'.state /\ applying'.batch = posted
      BY <2>1, <2>2
    <2>4. posted = <<>> \o posted /\ <<>> \in Seq(Event)
      BY <1>0, ConcatEmptySeq
    <2>5. DoneOf(posted, posted) = <<>>
      BY <1>0, <2>4, DoneAt
    <2>6. Done' = <<>>
      BY <1>2, <2>3, <2>5 DEF Done
    <2>7. Tells(Done', turnOpen')
      BY <2>6, TellsOne
    <2>8. Own' = Own
      BY <1>2, <2>1 DEF Own, connVars
    <2> QED BY <1>0, <1>2, <2>1, <2>2, <2>3, <2>7, <2>8 DEF FoldInv, connVars
  <1>7. CASE EndApply
    <2>1. /\ applying.at = "fold" /\ applying.batch = <<>> /\ full' = (full /\ ~applying.state) /\ applying' = NoApply
          /\ UNCHANGED <<registered, connInstance, owed, turnOpen>>
      BY <1>7 DEF EndApply
    <2>2. Done = posted
      <3>1. Done \in Seq(Event) /\ posted = Done \o <<>>
        BY <1>0, <2>1 DEF ApplyInv
      <3> QED BY <3>1, ConcatEmptySeq
    <2>3. (applying.state => ~Silent(Pend)) /\ Tells(posted, turnOpen)
      <3>1. (applying.state => ~Silent(posted)) /\ Tells(posted, turnOpen)
        BY <2>1, <2>2 DEF FoldInv
      <3>2. ~Silent(posted) => ~Silent(Pend)
        BY <1>0, SilentConcat DEF Pend
      <3> QED BY <3>1, <3>2
    <2>4. applying'.at = "free" /\ Own' = Own
      BY <1>2, <2>1 DEF NoApply, Own
    <2>5. Own /\ ~owed /\ ~full' /\ Silent(Pend) => turnOpen = running
      <3>1. ~full' => ~full \/ applying.state
        BY <2>1
      <3> QED BY <2>3, <3>1 DEF FoldInv
    <2> QED BY <1>2, <1>3, <2>1, <2>3, <2>4, <2>5 DEF FoldInv
  <1>8. CASE Restart
    <2>1. registered' = FALSE /\ applying' = NoApply
      BY <1>8 DEF Restart
    <2>2. applying'.at = "free"
      BY <2>1 DEF NoApply
    <2> QED BY <1>3, <2>1, <2>2 DEF FoldInv, Own
  <1> QED BY <1>3, <1>4, <1>5, <1>6, <1>7, <1>8

LEMMA FoldStep ==
    TypeInv /\ WaitInv /\ ~scope.overlap /\ FlowInv /\ ToldInv /\ FoldInv /\ [Next]_vars => ToldInv' /\ FoldInv'
  <1> SUFFICES ASSUME TypeInv, WaitInv, ~scope.overlap, FlowInv, ToldInv, FoldInv, [Next]_vars
               PROVE  ToldInv' /\ FoldInv'
    OBVIOUS
  <1>1. CASE Engine \/ Rename \/ PollRefused \/ Follow \/ UNCHANGED vars
    BY <1>1, FoldEngine DEF Engine
  <1>2. CASE SendHello \/ HelloAnswered \/ ReadMessages \/ ReadLast \/ HistoryFails \/ Flush \/ RequestDies
               \/ ReplyLost \/ GiveUp \/ Reload
    BY <1>2, FoldMod
  <1>3. CASE FinishHello
    BY <1>3, FoldFinish
  <1>4. CASE FlushAnswered
    BY <1>4, FoldAnswered
  <1>5. CASE ApplyRow \/ ApplyTurn \/ ApplyHistory \/ Rebuild
    BY <1>5, FoldApplied
  <1>6. CASE (\E c \in calls : ServeHello(c) \/ Admit(c) \/ BeginApply(c)) \/ EndApply \/ Restart
    BY <1>6, FoldService
  <1> QED BY <1>1, <1>2, <1>3, <1>4, <1>5, <1>6 DEF Next, Mod, Service, Fault

\* The last of the events that says something is the one Says takes.
LEMMA SaysTold ==
    ASSUME NEW s \in Seq(Event), NEW a, NEW b, Silent(s) => a = b, Tells(s, b)
    PROVE  b = Says(a, s)
  <1> DEFINE K == {i \in DOMAIN s : Telling(s[i])}
  <1>1. CASE Silent(s)
    <2>1. K = {}
      BY <1>1 DEF Silent
    <2> QED BY <1>1, <2>1 DEF Says
  <1>2. CASE ~Silent(s)
    <2>1. PICK i : LastTold(s, i)
      BY <1>2, LastToldIn
    <2>2. i \in K /\ (\A j \in K : j <= i) /\ K \subseteq Nat
      <3>1. DOMAIN s = 1..Len(s) /\ Len(s) \in Nat
        BY LenProperties
      <3> QED BY <2>1, <3>1 DEF LastTold
    <2>3. K # {} /\ s[i].on = b
      BY <2>1, <2>2 DEF Tells
    <2> DEFINE m == Max(K)
    <2> HIDE DEF K
    <2>4. m \in K /\ \A j \in K : j <= m
      BY <2>2 DEF Max
    <2> HIDE DEF m
    <2>5. m \in Nat /\ i \in Nat /\ m <= i /\ i <= m
      BY <2>2, <2>4
    <2>6. Max(K) = i
      BY <2>5 DEF m
    <2> QED BY <2>3, <2>6 DEF Says, K
  <1> QED BY <1>1, <1>2

\* Where requests do not overlap.
InOrderInv == TypeInv /\ WaitInv /\ (~scope.overlap => FlowInv /\ ToldInv /\ FoldInv)

LEMMA InOrderAlways == Spec => []InOrderInv
  <1>1. Init => InOrderInv
    BY TypeInit, WaitInit, FlowInit, ToldInit DEF InOrderInv
  <1>2. InOrderInv /\ [Next]_vars => InOrderInv'
    BY TypeStep, WaitStep, ScopeStep, FlowStep, FoldStep DEF InOrderInv
  <1> QED BY <1>1, <1>2, PTL DEF Spec

\* Once the fold of the main turn is known, it is behind Claude by no more than the
\* events still on their way, whatever fails, restarts or is said again, as long as
\* the mod waits for what it sent (knownLocked, apply, #flush).
THEOREM FoldTracked == Spec => []FoldTracks
  <1>1. InOrderInv => FoldTracks
    <2> SUFFICES ASSUME InOrderInv, ~scope.overlap, registered, connInstance = instance, ~owed, ~full
                 PROVE  running = Says(turnOpen, applying.batch \o posted \o queue)
      BY DEF FoldTracks
    <2> DEFINE b == applying.batch
               s == b \o Pend
    <2>1. TypeInv /\ OneInv /\ ApplyInv /\ ToldInv /\ FoldInv /\ Own
      BY DEF InOrderInv, FlowInv, Own
    <2>2. b \in Seq(Event) /\ posted \in Seq(Event) /\ queue \in Seq(Event)
      BY <2>1 DEF TypeInv, ApplyType, Values
    <2>3. Pend \in Seq(Event) /\ s \in Seq(Event)
      <3>1. Pend \in Seq(Event)
        BY <2>2, ConcatProperties DEF Pend
      <3> QED BY <2>2, <3>1, ConcatProperties
    <2>4. (b \o posted) \o queue = s
      <3> HIDE DEF b
      <3>1. (b \o posted) \o queue = b \o (posted \o queue)
        BY <2>2, ConcatAssociative, SMTT(30)
      <3> QED BY <3>1 DEF Pend
    <2>5. Silent(Pend) => Silent(b)
      <3>1. Silent(Pend) => Silent(posted)
        BY <2>2, SilentConcat DEF Pend
      <3>2. CASE applying.at = "free"
        <4>1. b = <<>>
          BY <2>1, <3>2 DEF OneInv, NoApply
        <4> QED BY <4>1, TellsOne
      <3>3. CASE applying.at # "free"
        <4>1. Done \in Seq(Event) /\ posted = Done \o b
          BY <2>1, <3>3 DEF ApplyInv
        <4> QED BY <2>2, <3>1, <4>1, SilentConcat
      <3> QED BY <3>2, <3>3
    <2>6. Tells(Pend, running) /\ (Silent(Pend) => turnOpen = running)
      BY <2>1 DEF ToldInv, FoldInv
    <2> HIDE DEF b
    <2>7. Tells(s, running)
      BY <2>2, <2>3, <2>5, <2>6, TellsConcat, TellsSilent
    <2>8. Silent(s) => turnOpen = running
      BY <2>2, <2>3, <2>6, SilentConcat
    <2> HIDE DEF s
    <2>9. running = Says(turnOpen, s)
      BY <2>3, <2>7, <2>8, SaysTold
    <2> QED BY <2>4, <2>9 DEF b
  <1> QED BY <1>1, InOrderAlways, PTL

-----------------------------------------------------------------------------
(* The rows, where the transcript does not lag either.                     *)

\* No row has been stored since a hello that could not name the transcript.
Begun == stampOwed /\ stored = 0

\* What is on its way are rows Claude stored, in order; and the last one a history
\* would name is the last.
RowInv ==
    /\ fileRows = stored
    /\ Sorted(Pend)
    /\ RowsOf(Pend) \subseteq 1..stored
    /\ lastRow \in {0, stored}
    /\ lastRow = 0 => RowsOf(Pend) = {}

\* The connection knows no transcript, and goes by the session's name.
Pathless == registered /\ ~path /\ connName = tmuxName

\* Unless a hello is asked for again, the connection knows the transcript of a
\* session that has one, or has lost it with the session's name.
PathInv ==
    /\ pump = "hello" /\ asks = hello.asked => \A c \in calls : ~c.file => Begun
    /\ pump = "hello" /\ asks = hello.asked /\ reply # NoReply /\ Pathless => Begun
    /\ Greeted /\ asks = hello.asked /\ Pathless => Begun
    /\ token # 0 /\ Pathless => Begun

\* A history that was read at n and last, with the rows behind it, brings each of s
\* rows and, if it names none, none twice.
Brings(s, n, last, rows) ==
    /\ n <= s /\ last <= s
    /\ last > 0 => 1..s \subseteq 1..last \cup rows
    /\ last = 0 => \A r \in 1..s : r <= n <=> r \notin rows

\* So does the snapshot being read, with what it does not cover of the queue.
SnapInv ==
    /\ pump \in {"messages", "last"} => hello.covers
    /\ pump = "last" => hello.n <= stored /\ 1..stored \subseteq 1..hello.n \cup FreshRows(queue)
    /\ pump = "level" /\ hello.covers => Brings(stored, hello.n, hello.last, FreshRows(queue))

\* And the history a log is owed, wherever it is.
HistoryInv ==
    /\ pump = "post" /\ registered /\ owed =>
         /\ Brings(stored, posted[1].n, posted[1].last, RowsOf(Pend))
         /\ Pathless => posted[1].n = 0 /\ posted[1].last = 0
    /\ pump = "idle" /\ token # 0 /\ registered /\ owed => Brings(stored, queue[1].n, queue[1].last, RowsOf(Pend))

\* The log has the rows from the first on, unless it is astray.
LogInv ==
    /\ ~Astray => log = Rows(Len(log)) /\ Len(log) <= stored /\ logRows \subseteq 1..Len(log)
    /\ ~registered \/ owed => log = <<>> /\ logRows = {}

\* What the log has not is on its way, and what is on its way again is remembered.
GapInv ==
    /\ Own /\ ~owed /\ ~Astray =>
         /\ 1..stored \subseteq 1..Len(log) \cup RowsOf(Pend)
         /\ RowsOf(Pend) \cap 1..Len(log) \subseteq logRows
    /\ applying.at # "free" /\ ~Astray => RowsOf(Done) \subseteq 1..Len(log)
    /\ pump = "post" /\ reply.status = 200 /\ registered /\ ~Astray => RowsOf(posted) \subseteq 1..Len(log)

RowsInv == RowInv /\ PathInv /\ SnapInv /\ HistoryInv /\ LogInv /\ GapInv

\* A session never gets a name back.
NamesPast == connName <= tmuxName /\ \A c \in calls : c.name <= tmuxName

LEMMA NamesInit == Init => NamesPast
  BY DEF Init, NamesPast

LEMMA NamesStep == TypeInv /\ NamesPast /\ [Next]_vars => NamesPast'
  <1> SUFFICES ASSUME TypeInv, NamesPast, [Next]_vars PROVE NamesPast'
    OBVIOUS
  <1>1. /\ tmuxName \in Nat /\ connName \in Nat /\ connName <= tmuxName
        /\ \A c \in calls : c.name \in Nat /\ c.name <= tmuxName
    BY DEF TypeInv, Values, CallType, Call, NamesPast
  <1>2. tmuxName' \in {tmuxName, tmuxName + 1} /\ connName' \in {0, connName} \cup {c.name : c \in calls}
    <2>1. CASE Engine \/ Follow \/ Rename \/ UNCHANGED vars
      BY <2>1 DEF Engine, StoreRow, WriteFile, StartTurn, EndTurn, SendLevel, Rename, Follow, vars, claudeVars, connVars
    <2>2. CASE Mod
      BY <2>2 DEF Mod, PollRefused, SendHello, HelloAnswered, ReadMessages, ReadLast, FinishHello, Flush, FlushAnswered,
                  RequestDies, RequestFails, claudeVars, connVars
    <2>3. CASE HistoryFails \/ ReplyLost \/ GiveUp \/ Reload \/ Restart
      BY <2>3 DEF HistoryFails, ReplyLost, GiveUp, RequestFails, Reload, Restart, claudeVars, connVars
    <2>4. ASSUME NEW c \in calls, ServeHello(c) \/ Admit(c) \/ BeginApply(c)
          PROVE  tmuxName' \in {tmuxName, tmuxName + 1} /\ connName' \in {0, connName} \cup {d.name : d \in calls}
      BY <2>4 DEF ServeHello, Admit, BeginApply, claudeVars, connVars
    <2>5. CASE ApplyRow \/ ApplyTurn \/ ApplyHistory \/ Rebuild \/ EndApply
      BY <2>5 DEF ApplyRow, ApplyTurn, ApplyHistory, Rebuild, EndApply, claudeVars, connVars
    <2> QED BY <2>1, <2>2, <2>3, <2>4, <2>5 DEF Next, Service, Fault
  <1>4. ASSUME NEW d \in calls' PROVE d.name \in {0, tmuxName} \cup {c.name : c \in calls}
    <2>1. \A c \in calls : [c EXCEPT !.waited = FALSE].name = c.name /\ [c EXCEPT !.at = "admitted"].name = c.name
      BY DEF TypeInv, CallType, Call
    <2>2. CASE SendHello \/ Flush
      <3>1. HelloCall.name = tmuxName /\ EventsCall(queue).name = 0
        BY DEF HelloCall, EventsCall
      <3>2. d \in calls \cup {HelloCall, EventsCall(queue)}
        BY <1>4, <2>2 DEF SendHello, Flush
      <3> QED BY <3>1, <3>2
    <2>3. CASE GiveUp \/ Reload
      <3>1. PICK c \in calls : d = [c EXCEPT !.waited = FALSE]
        BY <1>4, <2>3 DEF GiveUp, Reload
      <3> QED BY <2>1, <3>1
    <2>4. CASE \E c \in calls : ServeHello(c) \/ Admit(c) \/ BeginApply(c)
      <3>1. PICK c \in calls : ServeHello(c) \/ Admit(c) \/ BeginApply(c)
        BY <2>4
      <3>2. d \in calls \cup {[c EXCEPT !.at = "admitted"]}
        BY <1>4, <3>1 DEF ServeHello, Admit, BeginApply
      <3>3. [c EXCEPT !.at = "admitted"].name = c.name
        BY <2>1
      <3>4. CASE d \in calls
        BY <3>4
      <3>5. CASE d \notin calls
        BY <3>2, <3>3, <3>5
      <3> QED BY <3>4, <3>5
    <2>5. CASE ~(SendHello \/ Flush \/ GiveUp \/ Reload \/ \E c \in calls : ServeHello(c) \/ Admit(c) \/ BeginApply(c))
      <3>1. calls' \subseteq calls
        BY <2>5 DEF Next, Engine, Mod, Service, Fault, StoreRow, WriteFile, StartTurn, EndTurn, SendLevel, Rename,
           PollRefused, HelloAnswered, ReadMessages, ReadLast, HistoryFails, FinishHello, FlushAnswered, RequestDies,
           ReplyLost, ApplyRow, ApplyTurn, ApplyHistory, Rebuild, EndApply, Follow, Restart, vars
      <3> QED BY <1>4, <3>1
    <2> QED BY <2>2, <2>3, <2>4, <2>5
  <1>5. connName' <= tmuxName'
    BY <1>1, <1>2
  <1>6. ASSUME NEW d \in calls' PROVE d.name <= tmuxName'
    BY <1>1, <1>2, <1>4, <1>6
  <1> QED BY <1>5, <1>6 DEF NamesPast

\* A step that leaves the connection and the session's name as they are leaves the
\* log astray or not.
LEMMA SameName ==
    ASSUME registered' = registered, path' = path, connName' = connName, tmuxName' = tmuxName
    PROVE  (Astray' <=> Astray) /\ (Pathless' <=> Pathless)
  BY DEF Astray, Pathless

\* What the proofs use of the types and of the layers below.
RowTypes ==
    /\ stored \in Nat /\ fileRows \in Nat /\ lastRow \in Nat /\ instance \in Nat /\ connInstance \in Nat
    /\ queue \in Seq(Event) /\ posted \in Seq(Event) /\ Pend \in Seq(Event)
    /\ RowsOf(queue) \subseteq Nat /\ RowsOf(posted) \subseteq Nat /\ RowsOf(Pend) = RowsOf(posted) \cup RowsOf(queue)
    /\ FreshRows(queue) \subseteq RowsOf(queue)
    /\ hello.n \in Nat /\ hello.last \in Nat /\ hello.asked \in Nat /\ asks \in Nat
    /\ Len(log) \in Nat /\ log \in Seq(Nat)

LEMMA RowTypesIn == TypeInv => RowTypes
  <1> SUFFICES ASSUME TypeInv PROVE RowTypes
    OBVIOUS
  <1>1. Values
    BY DEF TypeInv
  <1>2. queue \in Seq(Event) /\ posted \in Seq(Event)
    BY <1>1 DEF Values
  <1>3. Pend \in Seq(Event) /\ RowsOf(Pend) = RowsOf(posted) \cup RowsOf(queue)
    BY <1>2, ConcatProperties, RowsConcat DEF Pend
  <1>4. RowsOf(queue) \subseteq Nat /\ RowsOf(posted) \subseteq Nat
    BY <1>2, RowsNat
  <1>5. FreshRows(queue) \subseteq RowsOf(queue)
    BY DEF FreshRows, RowsOf
  <1>6. hello.n \in Nat /\ hello.last \in Nat /\ hello.asked \in Nat /\ asks \in Nat
    BY <1>1 DEF Values
  <1>7. log \in Seq(Nat) /\ Len(log) \in Nat
    BY <1>1, LenProperties DEF Values
  <1>8. stored \in Nat /\ fileRows \in Nat /\ lastRow \in Nat /\ instance \in Nat /\ connInstance \in Nat
    BY <1>1 DEF Values
  <1> QED BY <1>2, <1>3, <1>4, <1>5, <1>6, <1>7, <1>8 DEF RowTypes

LEMMA RowTypesNext == TypeInv' => RowTypes'
  BY RowTypesIn, PTL

LEMMA RowsOfLength ==
    ASSUME NEW n \in Nat
    PROVE  Rows(n) \in Seq(Nat) /\ Len(Rows(n)) = n /\ Rows(0) = <<>>
  <1>1. Rows(n) \in [1..n -> Nat]
    BY DEF Rows
  <1>2. Rows(n) \in Seq(Nat)
    BY <1>1, SeqDef
  <1>3. DOMAIN Rows(n) = 1..n
    BY DEF Rows
  <1>4. Len(Rows(n)) = n
    BY <1>2, <1>3, LenProperties
  <1>5. Rows(0) = <<>>
    BY DEF Rows
  <1> QED BY <1>2, <1>4, <1>5

\* The next row.
LEMMA RowsMore ==
    ASSUME NEW n \in Nat
    PROVE  Append(Rows(n), n + 1) = Rows(n + 1)
  <1> DEFINE s == Append(Rows(n), n + 1)
             t == Rows(n + 1)
  <1>1. Rows(n) \in Seq(Nat) /\ Len(Rows(n)) = n /\ \A i \in 1..n : Rows(n)[i] = i
    BY RowsOfLength DEF Rows
  <1>2. /\ s \in Seq(Nat) /\ Len(s) = n + 1
        /\ \A i \in 1..n : s[i] = Rows(n)[i]
        /\ s[n + 1] = n + 1
    BY <1>1, AppendProperties
  <1>3. t \in Seq(Nat) /\ Len(t) = n + 1 /\ \A i \in 1..(n + 1) : t[i] = i
    BY RowsOfLength DEF Rows
  <1> HIDE DEF s, t
  <1>4. \A i \in 1..(n + 1) : s[i] = t[i]
    <2> SUFFICES ASSUME NEW i \in 1..(n + 1) PROVE s[i] = t[i]
      OBVIOUS
    <2>1. CASE i = n + 1
      BY <1>2, <1>3, <2>1
    <2>2. CASE i # n + 1
      <3>1. i \in 1..n
        BY <2>2
      <3> QED BY <1>1, <1>2, <1>3, <3>1
    <2> QED BY <2>1, <2>2
  <1>5. s = t
    BY <1>2, <1>3, <1>4, SeqEqual
  <1> QED BY <1>5 DEF s, t

LEMMA RowsInit == Init => RowsInv
  <1> SUFFICES ASSUME Init PROVE RowsInv
    OBVIOUS
  <1>1. /\ stored \in Nat /\ fileRows = stored /\ posted = <<>> /\ queue = <<>> /\ lastRow = 0 /\ pump = "idle" /\ token = 0
        /\ ~registered /\ log = <<>> /\ logRows = {} /\ applying.at = "free"
    BY DEF Init, NoApply
  <1>2. Pend = <<>> /\ Sorted(Pend) /\ RowsOf(Pend) = {}
    BY <1>1, SortedEmpty, ConcatEmptySeq, <<>> \in Seq(Event) DEF Pend
  <1>3. RowInv
    BY <1>1, <1>2 DEF RowInv
  <1>4. PathInv /\ SnapInv /\ HistoryInv /\ GapInv
    BY <1>1 DEF PathInv, SnapInv, HistoryInv, GapInv, Greeted, Own, Pathless
  <1>5. LogInv
    <2>1. <<>> = Rows(0) /\ Len(<<>>) = 0
      BY RowsOfLength
    <2> QED BY <1>1, <2>1 DEF LogInv
  <1> QED BY <1>3, <1>4, <1>5 DEF RowsInv

\* With the next row behind it, it brings one more.
LEMMA BringsMore ==
    ASSUME NEW s \in Nat, NEW n \in Nat, NEW last \in Nat, NEW rows \in SUBSET Nat, Brings(s, n, last, rows)
    PROVE  Brings(s + 1, n, last, rows \cup {s + 1})
  <1> DEFINE more == rows \cup {s + 1}
  <1>1. n <= s + 1 /\ last <= s + 1
    BY DEF Brings
  <1>2. 1..(s + 1) = 1..s \cup {s + 1}
    OBVIOUS
  <1>3. last > 0 => 1..(s + 1) \subseteq 1..last \cup more
    BY <1>2 DEF Brings
  <1>4. ASSUME last = 0, NEW r \in 1..(s + 1) PROVE r <= n <=> r \notin more
    <2>1. CASE r = s + 1
      BY <2>1 DEF Brings
    <2>2. CASE r \in 1..s
      <3>1. r <= n <=> r \notin rows
        BY <1>4, <2>2 DEF Brings
      <3>2. r # s + 1
        BY <2>2
      <3> QED BY <3>1, <3>2
    <2> QED BY <1>2, <1>4, <2>1, <2>2
  <1> HIDE DEF more
  <1>5. Brings(s + 1, n, last, more)
    BY <1>1, <1>3, <1>4 DEF Brings
  <1> QED BY <1>5 DEF more

LEMMA FirstEvent ==
    ASSUME NEW q \in Seq(Event), HistoryFirst(q)
    PROVE  q[1] \in Event /\ q[1].n \in Nat /\ q[1].last \in Nat
  <1>1. q # <<>>
    BY DEF HistoryFirst
  <1>2. 1 \in DOMAIN q
    BY <1>1, EmptySeq, LenProperties
  <1>3. q[1] \in Event
    BY <1>2, ElementOfSeq, LenProperties
  <1> QED BY <1>3 DEF Event

\* No row is stored, and the rows on their way stay.
LEMMA RowsStay ==
    ASSUME RowTypes, RowTypes', TokenInv, HeadInv, RowsInv,
           stored' = stored, fileRows' = fileRows, lastRow' = lastRow, stampOwed' = stampOwed,
           posted' = posted, pump' = pump, hello' = hello, calls' = calls, reply' = reply, applying' = applying,
           registered' = registered, path' = path, owed' = owed, log' = log, logRows' = logRows,
           connInstance' = connInstance, instance' = instance, Astray => Astray', Pathless' => Pathless,
           (asks' = asks /\ (token' = token \/ token' = 0)) \/ (asks' = asks + 1 /\ token' = 0),
           RowsOf(queue') = RowsOf(queue), FreshRows(queue') = FreshRows(queue), Sorted(Pend'),
           HistoryFirst(queue) => queue'[1] = queue[1]
    PROVE  RowsInv'
  <1>0. RowInv /\ PathInv /\ SnapInv /\ HistoryInv /\ LogInv /\ GapInv
    BY DEF RowsInv
  <1>1. RowsOf(Pend') = RowsOf(Pend)
    BY DEF RowTypes
  <1>2. RowInv'
    BY <1>0, <1>1 DEF RowInv
  <1>3. PathInv'
    <2>1. CASE asks' = asks /\ (token' = token \/ token' = 0)
      BY <1>0, <2>1 DEF PathInv, Greeted, Begun
    <2>2. CASE asks' = asks + 1 /\ token' = 0
      <3>1. asks' # hello'.asked
        BY <2>2 DEF TokenInv, RowTypes
      <3> QED BY <2>2, <3>1 DEF PathInv
    <2> QED BY <2>1, <2>2
  <1>4. SnapInv'
    BY <1>0 DEF SnapInv
  <1>5. HistoryInv'
    <2>1. (pump = "post" /\ registered /\ owed =>
             Brings(stored, posted[1].n, posted[1].last, RowsOf(Pend)) /\ (Pathless => posted[1].n = 0 /\ posted[1].last = 0))'
      BY <1>0, <1>1 DEF HistoryInv
    <2>2. (pump = "idle" /\ token # 0 /\ registered /\ owed => Brings(stored, queue[1].n, queue[1].last, RowsOf(Pend)))'
      <3> SUFFICES ASSUME pump = "idle", token' # 0, registered, owed
                   PROVE  Brings(stored, queue[1].n, queue[1].last, RowsOf(Pend))'
        OBVIOUS
      <3>1. token # 0
        OBVIOUS
      <3>2. queue'[1] = queue[1]
        BY <3>1 DEF HeadInv
      <3>3. Brings(stored, queue[1].n, queue[1].last, RowsOf(Pend))
        BY <1>0, <3>1 DEF HistoryInv
      <3> QED BY <1>1, <3>2, <3>3
    <2> QED BY <2>1, <2>2 DEF HistoryInv
  <1>6. LogInv'
    BY <1>0 DEF LogInv
  <1>7. Done' = Done /\ Own' = Own
    BY DEF Done, Own
  <1>8. GapInv'
    BY <1>0, <1>1, <1>7 DEF GapInv
  <1> QED BY <1>2, <1>3, <1>4, <1>5, <1>6, <1>8 DEF RowsInv

\* What is queued of a turn.
LEMMA PushedRows ==
    ASSUME RowTypes, Sorted(Pend), NEW e \in Event, ~e.covered, e.type # "row", queue' = Push(queue, e), posted' = posted
    PROVE  /\ RowsOf(queue') = RowsOf(queue) /\ FreshRows(queue') = FreshRows(queue) /\ Sorted(Pend')
           /\ HistoryFirst(queue) => queue'[1] = queue[1]
  <1>1. queue \in Seq(Event) /\ posted \in Seq(Event)
    BY DEF RowTypes
  <1>2. Sorted(posted \o Push(queue, e))
    BY <1>1, PushBehind DEF Pend
  <1> QED BY <1>1, <1>2, PushKeeps DEF Pend

LEMMA RowsEngine ==
    ASSUME TypeInv, TypeInv', TokenInv, NamesPast, FlowInv, RowsInv, ~scope.lag,
           WriteFile \/ StartTurn \/ EndTurn \/ SendLevel \/ Rename \/ PollRefused \/ Follow \/ UNCHANGED vars
    PROVE  RowsInv'
  <1>0. RowTypes /\ RowTypes' /\ HeadInv /\ Sorted(Pend)
    BY RowTypesIn, RowTypesNext DEF FlowInv, RowsInv, RowInv
  <1>1. CASE WriteFile
    BY <1>0, <1>1 DEF WriteFile, RowsInv, RowInv, RowTypes
  <1>2. CASE StartTurn
    <2> DEFINE e == Ev("turn", 0, 0, TRUE)
    <2>1. e \in Event /\ ~e.covered /\ queue' = Push(queue, e) /\ e.type # "row"
      BY <1>2, Queued DEF StartTurn, Ev
    <2>2. posted' = posted
      BY <1>2 DEF StartTurn
    <2> HIDE DEF e
    <2>3. /\ RowsOf(queue') = RowsOf(queue) /\ FreshRows(queue') = FreshRows(queue) /\ Sorted(Pend')
          /\ HistoryFirst(queue) => queue'[1] = queue[1]
      BY <1>0, <2>1, <2>2, PushedRows
    <2>4. (asks' = asks /\ token' = token) \/ (asks' = asks + 1 /\ token' = 0)
      BY <1>2 DEF StartTurn, Rehello
    <2>5. (Astray' <=> Astray) /\ (Pathless' <=> Pathless)
      BY <1>2, SameName DEF StartTurn, connVars
    <2> QED BY <1>0, <1>2, <2>3, <2>4, <2>5, RowsStay DEF StartTurn, connVars
  <1>3. CASE EndTurn
    <2> DEFINE e == Ev("turn", 0, 0, FALSE)
    <2>1. e \in Event /\ ~e.covered /\ queue' = Push(queue, e) /\ e.type # "row"
      BY <1>3, Queued DEF EndTurn, Ev
    <2>2. posted' = posted
      BY <1>3 DEF EndTurn
    <2> HIDE DEF e
    <2>3. /\ RowsOf(queue') = RowsOf(queue) /\ FreshRows(queue') = FreshRows(queue) /\ Sorted(Pend')
          /\ HistoryFirst(queue) => queue'[1] = queue[1]
      BY <1>0, <2>1, <2>2, PushedRows
    <2>4. (Astray' <=> Astray) /\ (Pathless' <=> Pathless)
      BY <1>3, SameName DEF EndTurn, connVars
    <2> QED BY <1>0, <1>3, <2>3, <2>4, RowsStay DEF EndTurn, connVars
  <1>4. CASE SendLevel
    <2> DEFINE e == Ev("level", 0, 0, running)
    <2>1. e \in Event /\ ~e.covered /\ queue' = Push(queue, e) /\ e.type # "row"
      BY <1>4, Queued DEF SendLevel, Ev
    <2>2. posted' = posted
      BY <1>4 DEF SendLevel
    <2> HIDE DEF e
    <2>3. /\ RowsOf(queue') = RowsOf(queue) /\ FreshRows(queue') = FreshRows(queue) /\ Sorted(Pend')
          /\ HistoryFirst(queue) => queue'[1] = queue[1]
      BY <1>0, <2>1, <2>2, PushedRows
    <2>4. (Astray' <=> Astray) /\ (Pathless' <=> Pathless)
      BY <1>4, SameName DEF SendLevel, claudeVars, connVars
    <2> QED BY <1>0, <1>4, <2>3, <2>4, RowsStay DEF SendLevel, claudeVars, connVars
  <1>5. CASE Rename \/ PollRefused \/ Follow \/ UNCHANGED vars
    <2>1. /\ stored' = stored /\ fileRows' = fileRows /\ lastRow' = lastRow /\ stampOwed' = stampOwed
          /\ posted' = posted /\ pump' = pump /\ hello' = hello /\ calls' = calls /\ reply' = reply
          /\ registered' = registered /\ path' = path /\ owed' = owed /\ log' = log /\ logRows' = logRows
          /\ connInstance' = connInstance /\ instance' = instance /\ queue' = queue /\ applying' = applying
          /\ ((asks' = asks /\ token' = token) \/ (asks' = asks + 1 /\ token' = 0))
      BY <1>5 DEF Rename, PollRefused, Follow, Rehello, vars, claudeVars, modVars, connVars
    <2>2. Sorted(Pend')
      BY <1>0, <2>1 DEF Pend
    <2>3. (Astray => Astray') /\ (Pathless' => Pathless)
      <3>1. CASE Rename
        <4>1. /\ registered' = registered /\ path' = path /\ connName' = connName /\ tmuxName' = tmuxName + 1
              /\ connName <= tmuxName /\ connName \in Nat /\ tmuxName \in Nat
          BY <3>1 DEF Rename, connVars, TypeInv, Values, NamesPast
        <4> QED BY <4>1 DEF Astray, Pathless
      <3>2. CASE PollRefused \/ Follow \/ UNCHANGED vars
        BY <3>2, SameName DEF PollRefused, Follow, vars, claudeVars, connVars
      <3> QED BY <1>5, <3>1, <3>2
    <2> QED BY <1>0, <2>1, <2>2, <2>3, RowsStay
  <1> QED BY <1>1, <1>2, <1>3, <1>4, <1>5

LEMMA RowsStored ==
    ASSUME TypeInv, TypeInv', TokenInv, FlowInv, RowsInv, ~scope.lag, StoreRow
    PROVE  RowsInv'
  <1>0. /\ RowTypes /\ RowTypes' /\ HeadInv /\ RowInv /\ PathInv /\ SnapInv /\ HistoryInv /\ LogInv /\ GapInv
        /\ PostInv /\ ConnInv
    BY RowTypesIn, RowTypesNext DEF FlowInv, RowsInv
  <1>1. PICK prompt \in BOOLEAN :
           /\ Ev("row", stored + 1, 0, prompt) \in Event /\ ~Ev("row", stored + 1, 0, prompt).covered
           /\ queue' = Push(queue, Ev("row", stored + 1, 0, prompt))
    BY Queued
  <1> DEFINE e == Ev("row", stored + 1, 0, prompt)
  <1>2. e.type = "row" /\ e.n = stored + 1
    BY DEF Ev
  <1>3. /\ stored' = stored + 1 /\ lastRow' = stored + 1 /\ fileRows' = stored + 1 /\ fileRows' > 0
        /\ posted' = posted /\ pump' = pump /\ hello' = hello /\ calls' = calls /\ reply' = reply /\ applying' = applying
        /\ instance' = instance /\ UNCHANGED connVars
    BY <1>0 DEF StoreRow, RowTypes
  <1>a. (Astray' <=> Astray) /\ (Pathless' <=> Pathless)
    BY SameName DEF StoreRow, connVars
  <1>4. e \in Event /\ ~e.covered /\ queue' = Push(queue, e)
    BY <1>1
  <1> HIDE DEF e
  <1>5. queue \in Seq(Event) /\ posted \in Seq(Event)
    BY <1>0 DEF RowTypes
  <1>6. RowsOf(queue') = RowsOf(queue) \cup {stored + 1} /\ FreshRows(queue') = FreshRows(queue) \cup {stored + 1}
    BY <1>2, <1>4, <1>5, PushKeeps
  <1>7. RowsOf(Pend') = RowsOf(Pend) \cup {stored + 1}
    BY <1>0, <1>3, <1>6 DEF RowTypes
  <1>8. HistoryFirst(queue) => queue'[1] = queue[1]
    BY <1>4, <1>5, PushKeeps
  <1>9. 1..stored' = 1..stored \cup {stored + 1} /\ stored + 1 \notin 1..stored
    BY <1>0, <1>3, SMTT(30) DEF RowTypes
  <1>10. Sorted(Pend')
    <2>1. \A n \in RowsOf(posted \o queue) : n < e.n
      BY <1>0, <1>2, SMTT(30) DEF RowInv, RowTypes, Pend
    <2>2. Sorted(posted \o queue)
      BY <1>0 DEF RowInv, Pend
    <2>3. Sorted(posted \o Push(queue, e))
      BY <1>4, <1>5, <2>1, <2>2, PushBehind
    <2> QED BY <1>3, <1>4, <2>3 DEF Pend
  <1>11. RowInv'
    BY <1>0, <1>3, <1>7, <1>9, <1>10 DEF RowInv, RowTypes
  <1>12. PathInv'
    <2>1. CASE stampOwed
      <3>1. asks' = asks + 1 /\ token' = 0
        BY <1>3, <2>1 DEF StoreRow, Rehello
      <3>2. asks' # hello'.asked
        BY <1>0, <1>3, <3>1 DEF TokenInv, RowTypes
      <3> QED BY <3>1, <3>2 DEF PathInv
    <2>2. CASE ~stampOwed
      <3>1. asks' = asks /\ token' = token
        BY <2>2 DEF StoreRow
      <3>2. ~Begun
        BY <2>2 DEF Begun
      <3> QED BY <1>0, <1>3, <1>a, <3>1, <3>2, SMTT(30) DEF PathInv, Greeted, connVars
    <2> QED BY <2>1, <2>2
  <1>13. SnapInv'
    <2>1. pump = "last" => stored' \in Nat /\ hello.n <= stored' /\ 1..stored' \subseteq 1..hello.n \cup FreshRows(queue')
      BY <1>0, <1>3, <1>6, <1>9 DEF SnapInv, RowTypes
    <2>2. hello.n \in Nat /\ hello.last \in Nat /\ FreshRows(queue) \in SUBSET Nat /\ stored \in Nat
      BY <1>0 DEF RowTypes
    <2>3. Brings(stored, hello.n, hello.last, FreshRows(queue)) =>
            Brings(stored + 1, hello.n, hello.last, FreshRows(queue) \cup {stored + 1})
      BY <2>2, BringsMore
    <2>4. (pump = "level" /\ hello.covers => Brings(stored, hello.n, hello.last, FreshRows(queue)))'
      BY <1>0, <1>3, <1>6, <2>3 DEF SnapInv
    <2> QED BY <1>0, <1>3, <2>1, <2>4 DEF SnapInv
  <1>14. HistoryInv'
    <2>1. RowsOf(Pend) \in SUBSET Nat /\ stored \in Nat
      BY <1>0 DEF RowTypes
    <2>2. (pump = "post" /\ registered /\ owed =>
             Brings(stored, posted[1].n, posted[1].last, RowsOf(Pend)) /\ (Pathless => posted[1].n = 0 /\ posted[1].last = 0))'
      <3> SUFFICES ASSUME pump = "post", registered, owed
                   PROVE  /\ Brings(stored + 1, posted[1].n, posted[1].last, RowsOf(Pend) \cup {stored + 1})
                          /\ Pathless => posted[1].n = 0 /\ posted[1].last = 0
        BY <1>3, <1>7, <1>a DEF connVars
      <3>1. /\ Brings(stored, posted[1].n, posted[1].last, RowsOf(Pend))
            /\ Pathless => posted[1].n = 0 /\ posted[1].last = 0
        BY <1>0 DEF HistoryInv
      <3>2. posted[1].n \in Nat /\ posted[1].last \in Nat
        BY <1>0, <1>5, FirstEvent DEF HeadInv
      <3> QED BY <2>1, <3>1, <3>2, BringsMore
    <2>3. (pump = "idle" /\ token # 0 /\ registered /\ owed => Brings(stored, queue[1].n, queue[1].last, RowsOf(Pend)))'
      <3> SUFFICES ASSUME pump = "idle", token' # 0, registered, owed
                   PROVE  Brings(stored + 1, queue'[1].n, queue'[1].last, RowsOf(Pend) \cup {stored + 1})
        BY <1>3, <1>7 DEF connVars
      <3>1. token # 0
        BY DEF StoreRow, Rehello
      <3>2. HistoryFirst(queue)
        BY <1>0, <3>1 DEF HeadInv
      <3>3. Brings(stored, queue[1].n, queue[1].last, RowsOf(Pend))
        BY <1>0, <3>1 DEF HistoryInv
      <3>4. queue[1].n \in Nat /\ queue[1].last \in Nat
        BY <1>5, <3>2, FirstEvent
      <3>5. queue'[1] = queue[1]
        BY <1>8, <3>2
      <3> QED BY <2>1, <3>3, <3>4, <3>5, BringsMore
    <2> QED BY <2>2, <2>3 DEF HistoryInv
  <1>15. LogInv'
    BY <1>0, <1>3, <1>a DEF LogInv, RowTypes, connVars
  <1>16. GapInv'
    <2>1. Done' = Done /\ Own' = Own
      BY <1>3 DEF Done, Own, connVars
    <2>2. Own /\ ~owed /\ ~Astray => /\ 1..stored' \subseteq 1..Len(log) \cup RowsOf(Pend')
                         /\ RowsOf(Pend') \cap 1..Len(log) \subseteq logRows
      <3>1. ~Astray => stored + 1 \notin 1..Len(log)
        BY <1>0 DEF LogInv, RowTypes
      <3> QED BY <1>0, <1>7, <1>9, <3>1 DEF GapInv
    <2> QED BY <1>0, <1>3, <1>a, <2>1, <2>2 DEF GapInv, connVars
  <1> QED BY <1>11, <1>12, <1>13, <1>14, <1>15, <1>16 DEF RowsInv

\* A step of the mod's with nothing in flight at session-events: rows leave the
\* queue only when the log has them, or is to be given them by a history.
LEMMA RowsMod ==
    ASSUME RowInv, LogInv, GapInv, applying.at = "free", applying' = applying, instance' = instance, UNCHANGED connVars,
           stored' = stored, fileRows' = fileRows, tmuxName' = tmuxName, lastRow' = lastRow, pump' = "post" => reply'.status # 200,
           RowsOf(Pend') \subseteq RowsOf(Pend), Sorted(Pend'),
           Own /\ ~owed /\ ~Astray => RowsOf(Pend) \subseteq RowsOf(Pend') \cup 1..Len(log),
           PathInv', SnapInv', HistoryInv'
    PROVE  RowsInv'
  <1>0. (Astray' <=> Astray) /\ (Pathless' <=> Pathless)
    BY SameName DEF connVars
  <1>1. RowInv'
    BY DEF RowInv
  <1>2. LogInv'
    BY <1>0 DEF LogInv, connVars
  <1>3. Own' = Own
    BY DEF Own, connVars
  <1>4. GapInv'
    BY <1>0, <1>3 DEF GapInv, connVars
  <1> QED BY <1>1, <1>2, <1>4 DEF RowsInv

LEMMA RowsSendHello ==
    ASSUME TypeInv, TypeInv', WaitInv, FlowInv, RowsInv, SendHello
    PROVE  RowsInv'
  <1>0. RowTypes /\ RowInv /\ PathInv /\ SnapInv /\ HistoryInv /\ LogInv /\ GapInv /\ OneInv /\ NoApply.at = "free"
    BY RowTypesIn DEF FlowInv, RowsInv, NoApply
  <1>1. /\ pump = "idle" /\ token = 0 /\ pump' = "hello" /\ stampOwed' = (fileRows = 0) /\ calls' = calls \cup {HelloCall}
        /\ token' = token /\ reply' = reply /\ posted' = posted /\ queue' = queue /\ applying' = applying
        /\ instance' = instance /\ stored' = stored /\ fileRows' = fileRows /\ tmuxName' = tmuxName /\ lastRow' = lastRow /\ UNCHANGED connVars
    BY DEF SendHello, claudeVars
  <1>2. calls = {} /\ applying = NoApply /\ reply = NoReply
    BY <1>0, <1>1, Alone DEF WaitInv
  <1>3. HelloCall.file <=> fileRows > 0
    BY DEF HelloCall
  <1>4. ~HelloCall.file => Begun'
    <2> SUFFICES ASSUME ~HelloCall.file PROVE Begun'
      OBVIOUS
    <2>1. fileRows = 0 /\ stored = 0
      BY <1>0, <1>3 DEF RowInv, RowTypes
    <2>2. stampOwed' <=> fileRows = 0
      BY <1>1
    <2> QED BY <1>1, <2>1, <2>2 DEF Begun
  <1>5. PathInv'
    BY <1>1, <1>2, <1>4 DEF PathInv, Greeted
  <1>6. SnapInv' /\ HistoryInv'
    BY <1>1 DEF SnapInv, HistoryInv
  <1>7. Pend' = Pend
    BY <1>1 DEF Pend
  <1>8. Sorted(Pend') /\ pump' # "post"
    BY <1>0, <1>1, <1>7 DEF RowInv
  <1> QED BY <1>0, <1>1, <1>2, <1>5, <1>6, <1>7, <1>8, RowsMod

LEMMA RowsHelloAnswered ==
    ASSUME TypeInv, TypeInv', WaitInv, FlowInv, RowsInv, HelloAnswered
    PROVE  RowsInv'
  <1>0. /\ RowTypes /\ RowInv /\ PathInv /\ SnapInv /\ HistoryInv /\ LogInv /\ GapInv /\ OneInv /\ PostInv /\ NoApply.at = "free"
        /\ RowTypes'
    BY RowTypesIn, RowTypesNext DEF FlowInv, RowsInv, NoApply
  <1>1. /\ pump = "hello" /\ reply # NoReply /\ reply' = NoReply /\ token' = token /\ posted' = posted /\ applying' = applying
        /\ calls' = calls /\ asks' = asks /\ stampOwed' = stampOwed
        /\ instance' = instance /\ stored' = stored /\ fileRows' = fileRows /\ tmuxName' = tmuxName /\ lastRow' = lastRow /\ UNCHANGED connVars
    BY DEF HelloAnswered, claudeVars
  <1>b. (Astray' <=> Astray) /\ (Pathless' <=> Pathless)
    BY <1>1, SameName DEF connVars
  <1>2. calls = {} /\ applying = NoApply /\ token = 0 /\ posted = <<>>
    BY <1>0, <1>1, Alone DEF WaitInv, PostInv
  <1>3. pump' # "post" /\ (pump' = "idle" \/ (pump' \in {"messages", "level"} /\ asks = hello.asked))
    BY DEF HelloAnswered
  <1>4. HistoryInv'
    BY <1>1, <1>2, <1>3 DEF HistoryInv
  <1>5. CASE pump' = "idle"
    <2>1. queue' = queue
      BY <1>5 DEF HelloAnswered
    <2>2. PathInv' /\ SnapInv'
      BY <1>1, <1>2, <1>5 DEF PathInv, SnapInv, Greeted
    <2>3. Pend' = Pend
      BY <1>1, <2>1 DEF Pend
    <2>4. Sorted(Pend')
      BY <1>0, <2>3 DEF RowInv
    <2> QED BY <1>0, <1>1, <1>2, <1>3, <1>4, <2>2, <2>3, <2>4, RowsMod
  <1>6. CASE pump' # "idle"
    <2>1. asks = hello.asked /\ hello' = [hello EXCEPT !.token = reply.token, !.covers = reply.history]
      BY <1>6 DEF HelloAnswered
    <2>2. hello'.asked = hello.asked /\ hello'.covers = reply.history
      BY <2>1 DEF TypeInv, Values
    <2>3. Greeted'
      BY <1>3, <1>6 DEF Greeted
    <2>4. PathInv'
      BY <1>0, <1>1, <1>b, <1>2, <1>3, <1>6, <2>1, <2>2, <2>3 DEF PathInv, Begun, connVars
    <2>5. SnapInv'
      BY <1>3, <1>6, <2>1, <2>2 DEF SnapInv, HelloAnswered
    <2>6. queue' = queue \/ queue' = Covered(queue)
      BY <2>1 DEF HelloAnswered, Covered
    <2>7. queue \in Seq(Event)
      BY <1>0 DEF RowTypes
    <2>8. RowsOf(queue') = RowsOf(queue) /\ (Sorted(queue') <=> Sorted(queue)) /\ queue' \in Seq(Event)
      BY <2>6, <2>7, CoveredKeeps
    <2>9. Pend = queue /\ Pend' = queue'
      BY <1>1, <1>2, <2>7, <2>8, ConcatEmptySeq DEF Pend
    <2>10. Sorted(Pend') /\ RowsOf(Pend') = RowsOf(Pend)
      BY <1>0, <2>8, <2>9 DEF RowInv
    <2> QED BY <1>0, <1>1, <1>2, <1>3, <1>4, <2>4, <2>5, <2>10, RowsMod
  <1> QED BY <1>5, <1>6

LEMMA RowsRead ==
    ASSUME TypeInv, TypeInv', WaitInv, FlowInv, RowsInv, ReadMessages \/ ReadLast \/ HistoryFails
    PROVE  RowsInv'
  <1>0. /\ RowTypes /\ RowInv /\ PathInv /\ SnapInv /\ HistoryInv /\ LogInv /\ GapInv /\ OneInv /\ NoApply.at = "free"
        /\ hello \in [asked : Nat, token : Nat, covers : BOOLEAN, n : Nat, last : Nat, on : BOOLEAN]
    BY RowTypesIn DEF FlowInv, RowsInv, NoApply, TypeInv, Values
  <1>1. /\ pump \in {"messages", "last"} /\ pump' \in {"last", "level", "idle"} /\ token' = token /\ posted' = posted
        /\ queue' = queue /\ reply' = reply /\ applying' = applying /\ calls' = calls /\ asks' = asks /\ stampOwed' = stampOwed
        /\ instance' = instance /\ stored' = stored /\ fileRows' = fileRows /\ tmuxName' = tmuxName /\ lastRow' = lastRow /\ UNCHANGED connVars
    BY DEF ReadMessages, ReadLast, HistoryFails, claudeVars
  <1>b. (Astray' <=> Astray) /\ (Pathless' <=> Pathless)
    BY <1>1, SameName DEF connVars
  <1>2. calls = {} /\ applying = NoApply /\ token = 0 /\ reply = NoReply /\ Greeted
    BY <1>0, <1>1, Alone DEF WaitInv, Greeted
  <1>3. HistoryInv'
    BY <1>1, <1>2 DEF HistoryInv
  <1>4. ASSUME HistoryFails PROVE PathInv' /\ SnapInv'
    BY <1>1, <1>2, <1>4 DEF HistoryFails, PathInv, SnapInv, Greeted
  <1>5. ASSUME ReadMessages PROVE PathInv' /\ SnapInv'
    <2>1. pump = "messages" /\ pump' = "last" /\ hello' = [hello EXCEPT !.n = stored]
      BY <1>5 DEF ReadMessages
    <2>2. hello'.asked = hello.asked /\ hello'.covers = hello.covers /\ hello'.n = stored
      BY <1>0, <2>1
    <2>3. PathInv'
      BY <1>0, <1>1, <1>b, <1>2, <2>1, <2>2 DEF PathInv, Begun, connVars
    <2>4. SnapInv'
      BY <1>0, <1>1, <2>1, <2>2 DEF SnapInv, RowTypes
    <2> QED BY <2>3, <2>4
  <1>6. ASSUME ReadLast PROVE PathInv' /\ SnapInv'
    <2>1. pump = "last" /\ pump' = "level" /\ hello' = [hello EXCEPT !.last = lastRow, !.on = running]
      BY <1>6 DEF ReadLast
    <2>2. hello'.asked = hello.asked /\ hello'.covers = hello.covers /\ hello'.n = hello.n /\ hello'.last = lastRow
      BY <1>0, <2>1
    <2>3. PathInv'
      BY <1>0, <1>1, <1>b, <1>2, <2>1, <2>2 DEF PathInv, Begun, connVars
    <2>4. hello.n <= stored /\ 1..stored \subseteq 1..hello.n \cup FreshRows(queue)
      BY <1>0, <2>1 DEF SnapInv
    <2>5. lastRow = 0 => FreshRows(queue) = {}
      BY <1>0 DEF RowInv, RowTypes
    <2>6. Brings(stored, hello.n, lastRow, FreshRows(queue))
      <3>1. CASE lastRow = 0
        BY <1>0, <2>4, <2>5, <3>1 DEF Brings, RowTypes
      <3>2. CASE lastRow = stored /\ lastRow # 0
        BY <1>0, <2>4, <3>2 DEF Brings, RowTypes
      <3> QED BY <1>0, <3>1, <3>2 DEF RowInv
    <2>7. SnapInv'
      BY <1>1, <2>1, <2>2, <2>6 DEF SnapInv
    <2> QED BY <2>3, <2>7
  <1>7. PathInv' /\ SnapInv'
    BY <1>4, <1>5, <1>6
  <1>8. Pend' = Pend /\ pump' # "post"
    BY <1>1 DEF Pend
  <1>9. Sorted(Pend')
    BY <1>0, <1>8 DEF RowInv
  <1> QED BY <1>0, <1>1, <1>2, <1>3, <1>7, <1>8, <1>9, RowsMod

LEMMA RowsFinish ==
    ASSUME TypeInv, TypeInv', WaitInv, FlowInv, RowsInv, FinishHello
    PROVE  RowsInv'
  <1>0. /\ RowTypes /\ RowInv /\ PathInv /\ SnapInv /\ HistoryInv /\ LogInv /\ GapInv /\ OneInv /\ PostInv /\ ConnInv
        /\ NoApply.at = "free" /\ hello.on \in BOOLEAN
    BY RowTypesIn DEF FlowInv, RowsInv, NoApply, TypeInv, Values
  <1>1. /\ pump = "level" /\ pump' = "idle" /\ posted' = posted /\ applying' = applying
        /\ reply' = reply /\ calls' = calls /\ asks' = asks /\ stampOwed' = stampOwed
        /\ instance' = instance /\ stored' = stored /\ fileRows' = fileRows /\ tmuxName' = tmuxName /\ lastRow' = lastRow /\ UNCHANGED connVars
    BY DEF FinishHello, claudeVars
  <1>b. (Astray' <=> Astray) /\ (Pathless' <=> Pathless)
    BY <1>1, SameName DEF connVars
  <1>2. calls = {} /\ applying = NoApply /\ token = 0 /\ reply = NoReply /\ Greeted /\ posted = <<>> /\ ~Greeted'
    BY <1>0, <1>1, Alone DEF WaitInv, PostInv, Greeted
  <1>3. SnapInv'
    BY <1>1 DEF SnapInv
  <1>4. CASE asks # hello.asked
    <2>1. queue' = queue /\ token' = token
      BY <1>4 DEF FinishHello
    <2>2. PathInv' /\ HistoryInv'
      BY <1>1, <1>2, <2>1 DEF PathInv, HistoryInv
    <2>3. Pend' = Pend
      BY <1>1, <2>1 DEF Pend
    <2>4. Sorted(Pend')
      BY <1>0, <2>3 DEF RowInv
    <2> QED BY <1>0, <1>1, <1>2, <1>3, <2>2, <2>3, <2>4, RowsMod
  <1>5. CASE asks = hello.asked
    <2> DEFINE left == IF hello.covers THEN Kept(queue, Uncovered(queue)) ELSE queue
               history == IF hello.covers THEN <<Ev("history", hello.n, hello.last, hello.on)>> ELSE <<>>
    <2>1. queue' = Prepend(left, history, Ev("level", 0, 0, running))
      BY <1>5 DEF FinishHello, Uncovered
    <2>2. queue \in Seq(Event) /\ hello.n \in Nat /\ hello.last \in Nat
      BY <1>0 DEF RowTypes
    <2>3. Pend = queue
      BY <1>2, <2>2, ConcatEmptySeq DEF Pend
    <2>4. /\ left \in Seq(Event) /\ RowsOf(left) = (IF hello.covers THEN FreshRows(queue) ELSE RowsOf(queue))
          /\ Sorted(left)
      <3>1. Sorted(queue)
        BY <1>0, <2>3 DEF RowInv
      <3>2. CASE hello.covers
        <4>1. Uncovered(queue) \in SUBSET (DOMAIN queue)
          BY DEF Uncovered
        <4>2. Kept(queue, Uncovered(queue)) \in Seq(Event)
          BY <2>2, <4>1, KeptEvents
        <4>3. RowsOf(Kept(queue, Uncovered(queue))) = FreshRows(queue)
          BY <2>2, <4>1, KeptFresh
        <4>4. Sorted(Kept(queue, Uncovered(queue)))
          BY <2>2, <3>1, <4>1, SortedKept
        <4> QED BY <3>2, <4>2, <4>3, <4>4
      <3>3. CASE ~hello.covers
        BY <2>2, <3>1, <3>3
      <3> QED BY <3>2, <3>3
    <2>5. /\ Ev("history", hello.n, hello.last, hello.on) \in Event
          /\ Ev("history", hello.n, hello.last, hello.on).type = "history"
          /\ Ev("history", hello.n, hello.last, hello.on).n = hello.n
          /\ Ev("history", hello.n, hello.last, hello.on).last = hello.last
      BY <1>0, <2>2, EventTypes
    <2>6. history = <<>> \/ \E h \in Event : h.type = "history" /\ history = <<h>>
      BY <2>5
    <2>7. hello.covers => history # <<>> /\ history[1].n = hello.n /\ history[1].last = hello.last
      BY <2>5
    <2>8. /\ Ev("level", 0, 0, running) \in Event /\ Ev("level", 0, 0, running).type = "level"
          /\ Ev("level", 0, 0, running).on = running
      BY EventTypes DEF TypeInv, Flags
    <2> HIDE DEF left, history
    <2>9. queue' \in Seq(Event) /\ RowsOf(queue') = RowsOf(left) /\ Sorted(queue') /\ (history # <<>> => queue'[1] = history[1])
      BY <2>1, <2>4, <2>6, <2>8, PrependKeeps
    <2>10. Pend' = queue'
      BY <1>1, <1>2, <2>9, ConcatEmptySeq DEF Pend
    <2>11. registered => Own /\ (owed <=> hello.covers)
      BY <1>0, <1>2 DEF ConnInv
    <2>12. HistoryInv'
      <3>1. hello.covers => Brings(stored, hello.n, hello.last, FreshRows(queue))
        BY <1>0, <1>1 DEF SnapInv
      <3>2. hello.covers => RowsOf(Pend') = FreshRows(queue) /\ queue'[1].n = hello.n /\ queue'[1].last = hello.last
        BY <2>4, <2>7, <2>9, <2>10
      <3>3. registered /\ owed => Brings(stored, queue'[1].n, queue'[1].last, RowsOf(Pend'))
        BY <2>11, <3>1, <3>2
      <3> QED BY <1>1, <3>3 DEF HistoryInv, connVars
    <2>13. PathInv'
      <3>1. Pathless => Begun
        BY <1>0, <1>2, <1>5 DEF PathInv
      <3> QED BY <1>1, <1>b, <1>2, <3>1 DEF PathInv, Begun, connVars
    <2>14. Sorted(Pend') /\ RowsOf(Pend') \subseteq RowsOf(Pend) /\ (Own /\ ~owed => RowsOf(Pend') = RowsOf(Pend))
      BY <1>0, <2>3, <2>4, <2>9, <2>10, <2>11 DEF RowTypes, Own
    <2> QED BY <1>0, <1>1, <1>2, <1>3, <2>12, <2>13, <2>14, RowsMod
  <1> QED BY <1>4, <1>5

LEMMA RowsFlush ==
    ASSUME TypeInv, TypeInv', WaitInv, FlowInv, RowsInv, Flush
    PROVE  RowsInv'
  <1>0. /\ RowTypes /\ RowInv /\ PathInv /\ SnapInv /\ HistoryInv /\ LogInv /\ GapInv /\ OneInv /\ PostInv /\ HeadInv
        /\ NoApply.at = "free" /\ NoReply.status = 0
    BY RowTypesIn DEF FlowInv, RowsInv, NoApply, NoReply
  <1>1. /\ pump = "idle" /\ token # 0 /\ pump' = "post" /\ posted' = queue /\ queue' = <<>> /\ applying' = applying
        /\ token' = token /\ reply' = reply /\ stampOwed' = stampOwed
        /\ instance' = instance /\ stored' = stored /\ fileRows' = fileRows /\ tmuxName' = tmuxName /\ lastRow' = lastRow /\ UNCHANGED connVars
    BY DEF Flush, claudeVars
  <1>b. (Astray' <=> Astray) /\ (Pathless' <=> Pathless)
    BY <1>1, SameName DEF connVars
  <1>2. calls = {} /\ applying = NoApply /\ reply = NoReply /\ posted = <<>>
    BY <1>0, <1>1, Alone DEF WaitInv, PostInv
  <1>3. queue \in Seq(Event) /\ Pend = queue /\ Pend' = Pend
    BY <1>0, <1>1, <1>2, ConcatEmptySeq DEF Pend, RowTypes
  <1>4. Pathless => Begun
    BY <1>0, <1>1 DEF PathInv
  <1>5. PathInv'
    BY <1>1, <1>b, <1>4 DEF PathInv, Greeted, Begun, connVars
  <1>6. SnapInv'
    BY <1>1 DEF SnapInv
  <1>7. registered /\ owed =>
          /\ Brings(stored, queue[1].n, queue[1].last, RowsOf(Pend))
          /\ Pathless => queue[1].n = 0 /\ queue[1].last = 0
    <2> SUFFICES ASSUME registered, owed
                 PROVE  /\ Brings(stored, queue[1].n, queue[1].last, RowsOf(Pend))
                        /\ Pathless => queue[1].n = 0 /\ queue[1].last = 0
      OBVIOUS
    <2>1. Brings(stored, queue[1].n, queue[1].last, RowsOf(Pend))
      BY <1>0, <1>1 DEF HistoryInv
    <2>2. queue[1].n \in Nat /\ queue[1].last \in Nat
      <3>1. HistoryFirst(queue)
        BY <1>0, <1>1 DEF HeadInv
      <3> QED BY <1>3, <3>1, FirstEvent
    <2>3. Pathless => queue[1].n <= 0 /\ queue[1].last <= 0
      BY <1>4, <2>1 DEF Begun, Brings
    <2> QED BY <2>1, <2>2, <2>3
  <1>8. HistoryInv'
    BY <1>1, <1>b, <1>3, <1>7 DEF HistoryInv, connVars
  <1>9. Sorted(Pend') /\ reply'.status # 200
    BY <1>0, <1>1, <1>2, <1>3 DEF RowInv
  <1> QED BY <1>0, <1>1, <1>2, <1>3, <1>5, <1>6, <1>8, <1>9, RowsMod

LEMMA RowsFlushAnswered ==
    ASSUME TypeInv, TypeInv', WaitInv, FlowInv, RowsInv, FlushAnswered
    PROVE  RowsInv'
  <1>0. /\ RowTypes /\ RowInv /\ PathInv /\ SnapInv /\ HistoryInv /\ LogInv /\ GapInv /\ OneInv /\ HeadInv
        /\ NoApply.at = "free"
    BY RowTypesIn DEF FlowInv, RowsInv, NoApply
  <1>1. /\ pump = "post" /\ pump' = "idle" /\ reply # NoReply /\ posted' = <<>> /\ applying' = applying
        /\ stampOwed' = stampOwed /\ (token' = token \/ token' = 0)
        /\ instance' = instance /\ stored' = stored /\ fileRows' = fileRows /\ tmuxName' = tmuxName /\ lastRow' = lastRow /\ UNCHANGED connVars
    BY DEF FlushAnswered, claudeVars
  <1>b. (Astray' <=> Astray) /\ (Pathless' <=> Pathless)
    BY <1>1, SameName DEF connVars
  <1>2. applying = NoApply
    BY <1>0, <1>1, Alone
  <1>3. PathInv'
    BY <1>0, <1>1, <1>b DEF PathInv, Greeted, Begun, connVars
  <1>4. SnapInv' /\ pump' # "post"
    BY <1>1 DEF SnapInv
  <1>5. queue \in Seq(Event) /\ posted \in Seq(Event)
    BY <1>0 DEF RowTypes
  <1>6. CASE reply.status = 200
    <2>1. queue' = queue
      BY <1>6 DEF FlushAnswered
    <2>2. Pend' = queue
      BY <1>1, <1>5, <2>1, ConcatEmptySeq DEF Pend
    <2>3. Sorted(Pend')
      <3>1. Sorted(posted \o queue)
        BY <1>0 DEF RowInv, Pend
      <3> QED BY <1>5, <2>2, <3>1, SortedConcat
    <2>4. Own /\ ~owed /\ ~Astray => RowsOf(Pend) \subseteq RowsOf(Pend') \cup 1..Len(log)
      BY <1>0, <1>1, <1>6, <2>2 DEF GapInv, RowTypes, Own
    <2>5. RowsOf(Pend') \subseteq RowsOf(Pend)
      BY <1>0, <2>2 DEF RowTypes
    <2>6. HistoryInv'
      <3>1. registered => ~owed
        BY <1>0, <1>1, <1>6 DEF HeadInv
      <3> QED BY <1>1, <3>1 DEF HistoryInv, connVars
    <2> QED BY <1>0, <1>1, <1>2, <1>3, <1>4, <2>3, <2>4, <2>5, <2>6, RowsMod
  <1>7. CASE reply.status # 200
    <2>1. queue' = posted \o queue
      BY <1>7 DEF FlushAnswered
    <2>2. Pend' = Pend
      BY <1>1, <2>1, PendBack
    <2>3. Sorted(Pend')
      BY <1>0, <2>2 DEF RowInv
    <2>4. registered /\ owed => queue'[1] = posted[1]
      <3>1. registered /\ owed => HistoryFirst(posted)
        BY <1>0, <1>1 DEF HeadInv
      <3> QED BY <1>5, <2>1, <3>1, HeadConcat
    <2>5. HistoryInv'
      BY <1>0, <1>1, <2>2, <2>4 DEF HistoryInv, connVars
    <2> QED BY <1>0, <1>1, <1>2, <1>3, <1>4, <2>2, <2>3, <2>5, RowsMod
  <1> QED BY <1>6, <1>7

LEMMA RowsFailed ==
    ASSUME TypeInv, TypeInv', WaitInv, FlowInv, RowsInv, ~scope.overlap, RequestDies \/ ReplyLost \/ GiveUp \/ Reload
    PROVE  RowsInv'
  <1>0. /\ RowTypes /\ RowInv /\ PathInv /\ SnapInv /\ HistoryInv /\ LogInv /\ GapInv /\ OneInv /\ ConnInv /\ HeadInv
        /\ NoApply.at = "free" /\ RowTypes'
    BY RowTypesIn, RowTypesNext DEF FlowInv, RowsInv, NoApply
  <1>1. CASE RequestDies \/ ReplyLost
    <2>1. /\ pump' = "idle" /\ posted' = <<>> /\ queue' = posted \o queue /\ applying' = applying
          /\ stampOwed' = stampOwed /\ token' = token /\ (reply # NoReply \/ ~Waiting) /\ UNCHANGED connVars
          /\ instance' = instance /\ stored' = stored /\ fileRows' = fileRows /\ tmuxName' = tmuxName /\ lastRow' = lastRow
      BY <1>1 DEF RequestDies, ReplyLost, RequestFails, claudeVars
    <2>b. (Astray' <=> Astray) /\ (Pathless' <=> Pathless)
      BY <2>1, SameName DEF connVars
    <2>2. applying = NoApply /\ pump \in {"hello", "post"}
      BY <1>0, <1>1, <2>1, Alone DEF RequestDies, ReplyLost, WaitInv
    <2>3. token # 0 => pump = "post"
      BY <2>2 DEF WaitInv
    <2>4. PathInv'
      BY <1>0, <2>1, <2>b DEF PathInv, Greeted, Begun, connVars
    <2>5. SnapInv' /\ pump' # "post"
      BY <2>1 DEF SnapInv
    <2>6. Pend' = Pend
      BY <2>1, PendBack
    <2>7. Sorted(Pend')
      BY <1>0, <2>6 DEF RowInv
    <2>8. token # 0 /\ registered /\ owed => queue'[1] = posted[1]
      <3>1. token # 0 /\ registered /\ owed => HistoryFirst(posted)
        BY <1>0, <2>3 DEF HeadInv
      <3>2. queue \in Seq(Event) /\ posted \in Seq(Event)
        BY <1>0 DEF RowTypes
      <3> QED BY <2>1, <3>1, <3>2, HeadConcat
    <2>9. HistoryInv'
      BY <1>0, <2>1, <2>3, <2>6, <2>8 DEF HistoryInv, connVars
    <2> QED BY <1>0, <2>1, <2>2, <2>4, <2>5, <2>6, <2>7, <2>9, RowsMod
  <1>2. CASE GiveUp
    BY <1>2 DEF GiveUp
  <1>3. CASE Reload
    <2>1. /\ pump' = "idle" /\ posted' = <<>> /\ queue' = <<>> /\ token' = 0 /\ lastRow' = 0 /\ instance' = instance + 1
          /\ applying' = [applying EXCEPT !.waited = FALSE] /\ ~Waiting
          /\ stored' = stored /\ fileRows' = fileRows /\ tmuxName' = tmuxName /\ UNCHANGED connVars
      BY <1>3 DEF Reload, claudeVars
    <2>b. (Astray' <=> Astray) /\ (Pathless' <=> Pathless)
      BY <2>1, SameName DEF connVars
    <2>2. applying' = NoApply
      <3>1. applying = NoApply
        BY <1>0, <2>1, Alone
      <3> QED BY <2>1, <3>1 DEF NoApply
    <2>3. Pend' = <<>>
      BY <2>1, ConcatEmptySeq, <<>> \in Seq(Event) DEF Pend
    <2>4. RowInv'
      BY <1>0, <2>1, <2>3, SortedEmpty DEF RowInv, RowTypes
    <2>5. PathInv' /\ SnapInv' /\ HistoryInv'
      BY <2>1 DEF PathInv, SnapInv, HistoryInv, Greeted
    <2>6. LogInv'
      BY <1>0, <2>1, <2>b DEF LogInv, connVars
    <2>7. ~Own'
      BY <1>0, <2>1 DEF Own, ConnInv, RowTypes, connVars
    <2>8. GapInv'
      BY <1>0, <2>1, <2>b, <2>2, <2>7 DEF GapInv
    <2> QED BY <2>4, <2>5, <2>6, <2>8 DEF RowsInv
  <1> QED BY <1>1, <1>2, <1>3

\* A step of session-events: what is on its way stays.
LEMMA RowsServing ==
    ASSUME RowInv, SnapInv, UNCHANGED claudeVars, UNCHANGED modVars
    PROVE  RowInv' /\ SnapInv' /\ Pend' = Pend
  <1>1. Pend' = Pend
    BY DEF Pend, modVars
  <1>2. RowInv'
    BY <1>1 DEF RowInv, claudeVars, modVars
  <1> QED BY <1>1, <1>2 DEF SnapInv, claudeVars, modVars

LEMMA RowsServed ==
    ASSUME TypeInv, WaitInv, FlowInv, RowsInv, NEW c \in calls, ServeHello(c) \/ Admit(c) \/ BeginApply(c)
    PROVE  RowsInv'
  <1>0. /\ RowTypes /\ RowInv /\ PathInv /\ SnapInv /\ HistoryInv /\ LogInv /\ GapInv /\ OneInv /\ ConnInv /\ PostInv
        /\ NoApply.at = "free" /\ NoReply.status = 0
    BY RowTypesIn DEF FlowInv, RowsInv, NoApply, NoReply
  <1>1. calls = {c} /\ applying = NoApply /\ reply = NoReply /\ c.waited
    BY <1>0, Alone DEF OneInv
  <1>2. pump \in {"hello", "post"} /\ c.kind = IF pump = "hello" THEN "hello" ELSE "events"
    BY <1>1 DEF WaitInv, Waiting
  <1>3. UNCHANGED claudeVars /\ UNCHANGED modVars
    BY DEF ServeHello, Admit, BeginApply
  <1>4. RowInv' /\ SnapInv' /\ Pend' = Pend
    BY <1>0, <1>3, RowsServing
  <1>5. /\ pump' = pump /\ token' = token /\ asks' = asks /\ hello' = hello /\ posted' = posted /\ queue' = queue
        /\ stampOwed' = stampOwed /\ instance' = instance /\ stored' = stored
    BY <1>3 DEF claudeVars, modVars
  <1>6. CASE ServeHello(c)
    <2>1. pump = "hello" /\ c.kind = "hello" /\ token = 0 /\ c.instance = instance /\ ~Greeted
      BY <1>0, <1>2, <1>6 DEF ServeHello, WaitInv, ConnInv, Greeted
    <2>2. calls' = {} /\ registered' = TRUE /\ connInstance' = instance
      BY <1>1, <1>6, <2>1 DEF ServeHello
    <2>3. Pathless' => ~c.file
      BY <1>3, <1>6 DEF ServeHello, Stamped, Pathless, claudeVars
    <2>4. PathInv'
      <3>1. asks = hello.asked /\ ~c.file => Begun
        BY <1>0, <2>1 DEF PathInv
      <3> QED BY <1>5, <2>1, <2>2, <2>3, <3>1 DEF PathInv, Begun, Greeted
    <2>5. HistoryInv'
      BY <1>5, <2>1 DEF HistoryInv
    <2>6. applying'.at = "free"
      BY <1>0, <1>1, <1>6 DEF ServeHello, NoApply
    <2>7. CASE ~registered \/ c.instance # connInstance \/ c.name # connName
      <3>1. log' = <<>> /\ logRows' = {} /\ owed' = TRUE
        BY <1>6, <2>7 DEF ServeHello
      <3>2. <<>> = Rows(0) /\ Len(<<>>) = 0
        BY RowsOfLength
      <3>3. LogInv'
        BY <1>0, <1>5, <3>1, <3>2 DEF LogInv, RowTypes
      <3>4. GapInv'
        BY <1>5, <2>1, <2>6, <3>1 DEF GapInv
      <3> QED BY <1>4, <2>4, <2>5, <3>3, <3>4 DEF RowsInv
    <2>8. CASE registered /\ c.instance = connInstance /\ c.name = connName
      <3>1. log' = log /\ logRows' = logRows /\ owed' = owed
        BY <1>6, <2>8 DEF ServeHello
      <3>a. Astray => Astray'
        BY <1>3, <1>6, <2>8 DEF ServeHello, Stamped, Astray, claudeVars
      <3>2. LogInv'
        BY <1>0, <1>5, <2>2, <2>8, <3>1, <3>a DEF LogInv
      <3>3. Own
        BY <2>1, <2>8 DEF Own
      <3>4. GapInv'
        BY <1>0, <1>4, <1>5, <2>1, <2>6, <3>1, <3>a, <3>3 DEF GapInv
      <3> QED BY <1>4, <2>4, <2>5, <3>2, <3>4 DEF RowsInv
    <2> QED BY <2>7, <2>8
  <1>7. CASE Admit(c)
    <2>1. pump = "post" /\ UNCHANGED connVars /\ applying' = applying /\ ~Greeted
      BY <1>2, <1>7 DEF Admit, Greeted
    <2>b. (Astray' <=> Astray) /\ (Pathless' <=> Pathless)
      BY <1>3, <2>1, SameName DEF connVars, claudeVars
    <2>2. reply'.status # 200
      BY <1>0, <1>1, <1>7 DEF Admit, Answer
    <2>3. PathInv'
      BY <1>0, <1>5, <2>1, <2>b DEF PathInv, Begun, Greeted, connVars
    <2>4. HistoryInv'
      BY <1>0, <1>4, <1>5, <2>1, <2>b DEF HistoryInv, connVars
    <2>5. LogInv'
      BY <1>0, <1>5, <2>1, <2>b DEF LogInv, connVars
    <2>6. GapInv'
      BY <1>0, <1>1, <1>4, <1>5, <2>1, <2>b, <2>2 DEF GapInv, Own, connVars
    <2> QED BY <1>4, <2>3, <2>4, <2>5, <2>6 DEF RowsInv
  <1>8. CASE BeginApply(c)
    <2>1. c.at = "admitted" /\ UNCHANGED connVars /\ reply' = reply /\ applying'.batch = c.batch
      BY <1>8 DEF BeginApply
    <2>b. (Astray' <=> Astray) /\ (Pathless' <=> Pathless)
      BY <1>3, <2>1, SameName DEF connVars, claudeVars
    <2>2. c.kind = "events" /\ pump = "post" /\ c.batch = posted /\ ~Greeted
      BY <1>0, <1>2, <2>1 DEF WaitInv, PostInv, Greeted
    <2>3. PathInv'
      BY <1>0, <1>5, <2>1, <2>b, <2>2 DEF PathInv, Begun, Greeted, connVars
    <2>4. HistoryInv'
      BY <1>0, <1>4, <1>5, <2>1, <2>b, <2>2 DEF HistoryInv, connVars
    <2>5. LogInv'
      BY <1>0, <1>5, <2>1, <2>b DEF LogInv, connVars
    <2>6. Done' = <<>>
      <3>1. posted \in Seq(Event) /\ <<>> \in Seq(Event) /\ <<>> \o posted = posted
        BY <1>0, ConcatEmptySeq DEF RowTypes
      <3>2. DoneOf(<<>> \o posted, posted) = <<>>
        BY <3>1, DoneAt
      <3> QED BY <1>5, <2>1, <2>2, <3>1, <3>2 DEF Done
    <2>7. RowsOf(Done') = {}
      BY <2>6, SortedEmpty
    <2>8. GapInv'
      BY <1>0, <1>1, <1>4, <1>5, <2>1, <2>b, <2>7 DEF GapInv, Own, connVars
    <2> QED BY <1>4, <2>3, <2>4, <2>5, <2>8 DEF RowsInv
  <1> QED BY <1>6, <1>7, <1>8

\* The next event of a batch is of nobody's history.
LEMMA NotOwed ==
    ASSUME TypeInv, WaitInv, FlowInv, NEW type \in {"row", "turn", "level"}, TakeEvent(type)
    PROVE  ~owed /\ applying.at # "free"
  <1>1. applying.at # "free" /\ Head(applying.batch).type = type
    BY DEF TakeEvent
  <1> QED BY <1>1, OwedHead

\* A step through the batch.
LEMMA RowsApplying ==
    ASSUME TypeInv, WaitInv, FlowInv, RowsInv, ApplyRow \/ ApplyTurn \/ ApplyHistory \/ Rebuild
    PROVE  /\ applying.at # "free" /\ applying.batch # <<>>
           /\ pump = "post" /\ reply = NoReply /\ registered /\ applying.live /\ Own /\ Own'
           /\ RowInv' /\ SnapInv' /\ PathInv' /\ Pend' = Pend
           /\ (Astray' <=> Astray) /\ (Pathless' <=> Pathless)
           /\ reply' = reply /\ posted' = posted /\ stored' = stored /\ registered' = registered
           /\ \/ applying'.batch = applying.batch /\ log' = log /\ logRows' = logRows /\ owed' = owed
              \/ ~owed' /\ applying'.batch = Tail(applying.batch)
  <1>0. RowInv /\ SnapInv /\ PathInv /\ OneInv /\ ConnInv /\ ApplyInv /\ ApplyType
    BY DEF FlowInv, RowsInv, TypeInv
  <1>1. applying.at # "free" /\ applying.batch # <<>>
    <2>1. CASE ApplyRow \/ ApplyTurn \/ ApplyHistory
      BY <2>1 DEF ApplyRow, ApplyTurn, ApplyHistory, TakeEvent
    <2>2. CASE Rebuild
      BY <2>2 DEF Rebuild, TypeInv, RebuildInv
    <2> QED BY <2>1, <2>2
  <1>2. calls = {} /\ reply = NoReply /\ pump = "post" /\ registered /\ applying.live
    BY <1>0, <1>1, Alone DEF ApplyInv
  <1>3. /\ UNCHANGED claudeVars /\ UNCHANGED modVars /\ calls' = calls /\ reply' = reply
        /\ registered' = registered /\ connInstance' = connInstance /\ connName' = connName /\ path' = path
    BY DEF ApplyRow, ApplyTurn, ApplyHistory, Rebuild, connVars
  <1>b. (Astray' <=> Astray) /\ (Pathless' <=> Pathless)
    BY <1>3, SameName DEF claudeVars
  <1>4. RowInv' /\ SnapInv' /\ Pend' = Pend
    BY <1>0, <1>3, RowsServing
  <1>5. Own /\ Own'
    BY <1>0, <1>2, <1>3 DEF ConnInv, Own, modVars
  <1>6. PathInv'
    BY <1>0, <1>2, <1>3, <1>b DEF PathInv, Begun, Greeted, claudeVars, modVars
  <1>7. \/ applying'.batch = applying.batch /\ log' = log /\ logRows' = logRows /\ owed' = owed
        \/ ~owed' /\ applying'.batch = Tail(applying.batch)
    <2>1. CASE ApplyRow
      <3>1. ~owed
        BY <2>1, NotOwed DEF ApplyRow
      <3> QED BY <1>0, <2>1, <3>1 DEF ApplyRow, ApplyType
    <2>2. CASE ApplyTurn
      <3>1. ~owed
        BY <2>2, NotOwed DEF ApplyTurn
      <3> QED BY <1>0, <2>2, <3>1 DEF ApplyTurn, ApplyType
    <2>3. CASE ApplyHistory
      <3>1. CASE owed
        <4>1. applying' = [applying EXCEPT !.at = "rebuild"]
          BY <2>3, <3>1 DEF ApplyHistory
        <4>2. applying'.batch = applying.batch
          BY <1>0, <4>1 DEF ApplyType
        <4> QED BY <2>3, <4>2 DEF ApplyHistory, connVars
      <3>2. CASE ~owed
        <4>1. applying' = [applying EXCEPT !.batch = Tail(@)]
          BY <2>3, <3>2 DEF ApplyHistory
        <4>2. applying'.batch = Tail(applying.batch)
          BY <1>0, <4>1 DEF ApplyType
        <4>3. owed' = owed
          BY <2>3 DEF ApplyHistory, connVars
        <4> QED BY <3>2, <4>2, <4>3
      <3> QED BY <3>1, <3>2
    <2>4. CASE Rebuild
      BY <1>0, <2>4 DEF Rebuild, ApplyType
    <2> QED BY <2>1, <2>2, <2>3, <2>4
  <1>8. posted' = posted /\ stored' = stored
    BY <1>3 DEF claudeVars, modVars
  <1> QED BY <1>1, <1>2, <1>3, <1>b, <1>4, <1>5, <1>6, <1>7, <1>8

\* It turns the log from one of the promised kind into another, and takes up what it
\* has done.
LEMMA RowsTaken ==
    ASSUME TypeInv, WaitInv, FlowInv, RowsInv, ApplyRow \/ ApplyTurn \/ ApplyHistory \/ Rebuild, ~owed',
           ~Astray => /\ log' = Rows(Len(log')) /\ Len(log') <= stored /\ logRows' \subseteq 1..Len(log')
                      /\ 1..stored \subseteq 1..Len(log') \cup RowsOf(Pend)
                      /\ RowsOf(Pend) \cap 1..Len(log') \subseteq logRows'
                      /\ RowsOf(Done') \subseteq 1..Len(log')
    PROVE  RowsInv'
  <1>1. /\ pump = "post" /\ reply = NoReply /\ registered /\ RowInv' /\ SnapInv' /\ PathInv' /\ Pend' = Pend
        /\ (Astray' <=> Astray) /\ reply' = reply /\ stored' = stored /\ registered' = registered
    BY RowsApplying
  <1>2. LogInv'
    BY <1>1 DEF LogInv
  <1>3. HistoryInv'
    BY DEF HistoryInv
  <1>4. GapInv'
    BY <1>1 DEF GapInv, NoReply
  <1> QED BY <1>1, <1>2, <1>3, <1>4 DEF RowsInv
\* The rows of a batch are in the log or on their way, and the next one in it is the
\* first the log has not.
LEMMA NextRow ==
    ASSUME TypeInv, WaitInv, FlowInv, RowsInv, ApplyRow, ~Astray
    PROVE  LET row == Head(applying.batch)
           IN  /\ row.n \in 1..stored /\ row.n \in RowsOf(Pend)
               /\ row.n = Len(log) + 1 \/ row.n \in 1..Len(log)
               /\ RowsOf(Done') = RowsOf(Done) \cup {row.n}
  <1> DEFINE row == Head(applying.batch)
             rest == Tail(applying.batch)
             d == Append(Done, row)
  <1>0. RowTypes /\ RowInv /\ GapInv /\ LogInv /\ ApplyInv
    BY RowTypesIn DEF FlowInv, RowsInv
  <1>1. applying.batch # <<>> /\ applying.at # "free" /\ Own /\ posted' = posted
    BY RowsApplying
  <1>2. ~owed /\ row.type = "row"
    BY NotOwed DEF ApplyRow, TakeEvent
  <1>3. applying' = [applying EXCEPT !.batch = Tail(@)]
    BY DEF ApplyRow
  <1>4. applying'.batch = rest
    BY <1>3 DEF TypeInv, ApplyType
  <1>5. applying.batch \in Seq(Event)
    BY DEF TypeInv, ApplyType
  <1>6. /\ row \in Event /\ Done \in Seq(Event) /\ Done' = d /\ d \in Seq(Event)
        /\ posted' = Done' \o applying'.batch /\ rest \in Seq(Event)
    BY <1>0, <1>1, <1>4, <1>5, DoneMore, HeadTailProperties
  <1>7. RowsOf(d) = RowsOf(Done) \cup {row.n}
    BY <1>2, <1>6, RowsAppend
  <1> HIDE DEF row, rest, d
  <1>8. posted = d \o rest /\ queue \in Seq(Event) /\ rest \o queue \in Seq(Event)
    <2>1. posted = d \o rest
      BY <1>1, <1>4, <1>6
    <2>2. queue \in Seq(Event)
      BY <1>0 DEF RowTypes
    <2> QED BY <1>6, <2>1, <2>2, ConcatProperties
  <1>9. Pend = d \o (rest \o queue)
    <2>0. d \in Seq(Event) /\ rest \in Seq(Event) /\ queue \in Seq(Event)
      BY <1>6, <1>8
    <2>1. (d \o rest) \o queue = d \o (rest \o queue)
      BY <2>0, ConcatAssociative
    <2> QED BY <1>8, <2>1 DEF Pend
  <1>10. /\ \A m \in RowsOf(d), n \in RowsOf(rest \o queue) : m < n
         /\ RowsOf(Pend) = RowsOf(d) \cup RowsOf(rest \o queue)
    BY <1>0, <1>6, <1>8, <1>9, SortedConcat, RowsConcat DEF RowInv
  <1>11. row.n \in RowsOf(Pend) /\ row.n \in 1..stored
    BY <1>0, <1>7, <1>10 DEF RowInv
  <1>12. ASSUME row.n \notin 1..Len(log) PROVE row.n = Len(log) + 1
    <2>1. Len(log) \in Nat /\ stored \in Nat /\ row.n \in 1..stored
      BY <1>0, <1>11 DEF RowTypes
    <2>2. Len(log) + 1 <= row.n /\ Len(log) + 1 \in 1..stored /\ Len(log) + 1 \notin 1..Len(log)
      BY <1>12, <2>1
    <2>3. Len(log) + 1 \in RowsOf(Pend)
      BY <1>0, <1>1, <1>2, <2>2 DEF GapInv
    <2>4. RowsOf(Done) \subseteq 1..Len(log)
      BY <1>0, <1>1 DEF GapInv
    <2>5. CASE Len(log) + 1 \in RowsOf(rest \o queue)
      <3>1. row.n < Len(log) + 1
        BY <1>7, <1>10, <2>5
      <3> QED BY <2>1, <2>2, <3>1
    <2>6. CASE Len(log) + 1 \in RowsOf(d)
      BY <1>7, <2>2, <2>4, <2>6
    <2> QED BY <1>10, <2>3, <2>5, <2>6
  <1> QED BY <1>6, <1>7, <1>11, <1>12 DEF row

LEMMA RowsApplied ==
    ASSUME TypeInv, WaitInv, FlowInv, RowsInv, ApplyRow
    PROVE  RowsInv' /\ (~Astray => Len(log) <= Len(log'))
  <1> DEFINE row == Head(applying.batch)
  <1>0. RowTypes /\ RowInv /\ GapInv /\ LogInv /\ ApplyInv
    BY RowTypesIn DEF FlowInv, RowsInv
  <1>1. applying.at # "free" /\ Own /\ applying.live
    BY RowsApplying
  <1>2. ~owed /\ ~owed'
    BY NotOwed DEF ApplyRow
  <1>a. CASE Astray
    BY <1>a, <1>2, RowsTaken
  <1> SUFFICES ASSUME ~Astray PROVE RowsInv' /\ Len(log) <= Len(log')
    BY <1>a
  <1>3. /\ row.n \in 1..stored /\ row.n \in RowsOf(Pend)
        /\ row.n = Len(log) + 1 \/ row.n \in 1..Len(log)
        /\ RowsOf(Done') = RowsOf(Done) \cup {row.n}
    BY NextRow
  <1>4. /\ 1..stored \subseteq 1..Len(log) \cup RowsOf(Pend)
        /\ RowsOf(Pend) \cap 1..Len(log) \subseteq logRows
        /\ RowsOf(Done) \subseteq 1..Len(log)
        /\ log = Rows(Len(log)) /\ Len(log) <= stored /\ logRows \subseteq 1..Len(log) /\ Len(log) \in Nat
    BY <1>0, <1>1, <1>2 DEF GapInv, LogInv, RowTypes
  <1>5. IF row.n \notin logRows
        THEN log' = Append(log, row.n) /\ logRows' = logRows \cup {row.n}
        ELSE log' = log /\ logRows' = logRows
    BY <1>1 DEF ApplyRow
  <1> HIDE DEF row
  <1>6. CASE row.n \in 1..Len(log)
    <2>1. log' = log /\ logRows' = logRows
      BY <1>3, <1>4, <1>5, <1>6
    <2>2. RowsOf(Done') \subseteq 1..Len(log)
      BY <1>3, <1>4, <1>6
    <2>3. RowsInv'
      BY <1>2, <1>4, <2>1, <2>2, RowsTaken
    <2> QED BY <1>4, <2>1, <2>3
  <1>7. CASE row.n = Len(log) + 1
    <2>1. row.n \notin logRows
      BY <1>4, <1>7
    <2>2. log' = Append(log, Len(log) + 1) /\ logRows' = logRows \cup {Len(log) + 1}
      BY <1>5, <1>7, <2>1
    <2>3. log' = Rows(Len(log) + 1)
      BY <1>4, <2>2, RowsMore
    <2>4. Len(log') = Len(log) + 1
      BY <1>4, <2>3, RowsOfLength
    <2>5. 1..Len(log') = 1..Len(log) \cup {Len(log) + 1} /\ Len(log') <= stored
      BY <1>0, <1>3, <1>4, <1>7, <2>4 DEF RowTypes
    <2>6. /\ logRows' \subseteq 1..Len(log')
          /\ 1..stored \subseteq 1..Len(log') \cup RowsOf(Pend)
          /\ RowsOf(Pend) \cap 1..Len(log') \subseteq logRows'
          /\ RowsOf(Done') \subseteq 1..Len(log')
      BY <1>3, <1>4, <1>7, <2>2, <2>5
    <2>7. log' = Rows(Len(log')) /\ Len(log') \in Nat
      BY <1>4, <2>3, <2>4
    <2>8. RowsInv'
      BY <1>2, <2>5, <2>6, <2>7, RowsTaken
    <2> QED BY <1>4, <2>4, <2>8
  <1> QED BY <1>3, <1>6, <1>7

\* The batch goes on, the log stays.
LEMMA RowsPassed ==
    ASSUME TypeInv, WaitInv, FlowInv, RowsInv, ApplyTurn \/ ApplyHistory
    PROVE  RowsInv'
  <1>0. RowInv /\ GapInv /\ LogInv /\ HistoryInv /\ ApplyInv
    BY DEF FlowInv, RowsInv
  <1>1. /\ applying.at # "free" /\ applying.batch # <<>> /\ pump = "post" /\ reply = NoReply /\ registered /\ Own /\ Own'
        /\ RowInv' /\ SnapInv' /\ PathInv' /\ Pend' = Pend
        /\ (Astray' <=> Astray) /\ (Pathless' <=> Pathless) /\ reply' = reply /\ posted' = posted /\ stored' = stored /\ registered' = registered
    BY RowsApplying
  <1>2. /\ log' = log /\ logRows' = logRows /\ owed' = owed /\ path' = path /\ pump' = pump
        /\ Head(applying.batch).type # "row"
    BY DEF ApplyTurn, ApplyHistory, TakeEvent, connVars, modVars
  <1>3. RowsOf(Done') = RowsOf(Done)
    <2>1. CASE applying'.batch = applying.batch
      <3>1. Done' = Done
        BY <1>1, <2>1 DEF Done
      <3> QED BY <3>1
    <2>2. CASE applying'.batch = Tail(applying.batch)
      <3>1. Head(applying.batch) \in Event /\ Done \in Seq(Event) /\ Done' = Append(Done, Head(applying.batch))
        BY <1>0, <1>1, <2>2, DoneMore
      <3>2. RowsOf(Append(Done, Head(applying.batch))) = RowsOf(Done)
        BY <1>2, <3>1, RowsAppend
      <3> QED BY <3>1, <3>2
    <2> QED BY <2>1, <2>2, RowsApplying
  <1>4. LogInv'
    BY <1>0, <1>1, <1>2 DEF LogInv
  <1>5. HistoryInv'
    BY <1>0, <1>1, <1>2 DEF HistoryInv
  <1>6. GapInv'
    BY <1>0, <1>1, <1>2, <1>3 DEF GapInv, NoReply
  <1> QED BY <1>1, <1>4, <1>5, <1>6 DEF RowsInv

\* The history the log is owed.
LEMMA RowsRebuilt ==
    ASSUME TypeInv, WaitInv, FlowInv, RowsInv, Rebuild
    PROVE  RowsInv' /\ log = <<>>
  <1> DEFINE h == Head(applying.batch)
             upTo == IF h.last > 0 THEN h.last ELSE fileRows
             byFile == path /\ (IF h.last > 0 THEN fileRows >= h.last ELSE ~h.on /\ fileRows > 0)
             upToEnd == IF byFile THEN upTo ELSE h.n
  <1>0. RowTypes /\ RowInv /\ GapInv /\ LogInv /\ HistoryInv /\ ApplyInv /\ HeadInv
    BY RowTypesIn DEF FlowInv, RowsInv
  <1>1. /\ applying.at # "free" /\ applying.batch # <<>> /\ pump = "post" /\ registered /\ applying.live /\ posted' = posted
    BY RowsApplying
  <1>2. applying.at = "rebuild" /\ ~owed'
    BY DEF Rebuild
  <1>3. owed /\ log = <<>> /\ logRows = {}
    BY <1>0, <1>2 DEF ApplyInv, LogInv
  <1>a. CASE Astray
    BY <1>2, <1>3, <1>a, RowsTaken
  <1> SUFFICES ASSUME ~Astray PROVE RowsInv' /\ log = <<>>
    BY <1>a
  <1>4. applying.batch = posted /\ HistoryFirst(posted) /\ h.type = "history"
    BY <1>1, <1>3, OwedHead
  <1>5. h = posted[1]
    BY <1>4
  <1>6. h.n \in Nat /\ h.last \in Nat
    BY <1>0, <1>4, <1>5, FirstEvent DEF RowTypes
  <1>7. Brings(stored, h.n, h.last, RowsOf(Pend)) /\ (~path => h.n = 0 /\ h.last = 0)
    BY <1>0, <1>1, <1>3, <1>5 DEF HistoryInv, Pathless, Astray
  <1>8. applying'.batch = Tail(applying.batch)
    <2>1. applying' = [applying EXCEPT !.batch = Tail(@), !.at = "fold"]
      BY DEF Rebuild
    <2> QED BY <2>1 DEF TypeInv, ApplyType
  <1>9. RowsOf(Done') = {}
    <2>1. Done = <<>>
      BY <1>0, <1>1, <1>3 DEF ApplyInv
    <2>2. h \in Event /\ Done \in Seq(Event) /\ Done' = Append(Done, h)
      BY <1>0, <1>1, <1>8, DoneMore
    <2> HIDE DEF h
    <2>3. RowsOf(Append(Done, h)) = RowsOf(Done)
      BY <1>4, <2>2, RowsAppend
    <2> QED BY <2>1, <2>2, <2>3, SortedEmpty
  <1>10. /\ log' = log \o Rows(upToEnd)
         /\ logRows' = IF byFile THEN 1..upToEnd ELSE {}
    <2>1. CASE byFile
      BY <1>1, <1>3, <2>1 DEF Rebuild
    <2>2. CASE ~byFile
      BY <1>1, <1>3, <2>2 DEF Rebuild
    <2> QED BY <2>1, <2>2
  <1>11. upToEnd \in Nat /\ upToEnd <= stored
    <2>1. upToEnd \in {h.n, h.last, fileRows}
      OBVIOUS
    <2>2. h.n <= stored /\ h.last <= stored /\ fileRows = stored /\ stored \in Nat
      BY <1>0, <1>7 DEF RowInv, RowTypes, Brings
    <2> HIDE DEF h, upToEnd
    <2> QED BY <1>6, <2>1, <2>2
  <1>12. /\ 1..stored \subseteq 1..upToEnd \cup RowsOf(Pend)
         /\ RowsOf(Pend) \cap 1..upToEnd \subseteq logRows'
    <2>1. CASE byFile /\ h.last > 0
      BY <1>7, <1>10, <2>1 DEF Brings
    <2>2. CASE byFile /\ ~(h.last > 0)
      BY <1>0, <1>10, <2>2 DEF RowInv
    <2>3. CASE ~byFile
      <3>1. h.last = 0
        BY <1>0, <1>6, <1>7, <2>3 DEF RowInv, RowTypes, Brings
      <3>2. logRows' = {} /\ upToEnd = h.n
        BY <1>10, <2>3
      <3>3. h.n <= stored /\ \A r \in 1..stored : r <= h.n <=> r \notin RowsOf(Pend)
        BY <1>7, <3>1 DEF Brings
      <3> QED BY <1>0, <1>6, <3>2, <3>3, SMTT(30) DEF RowTypes
    <2> QED BY <2>1, <2>2, <2>3
  <1> HIDE DEF h, upTo, byFile, upToEnd
  <1>13. log' = Rows(upToEnd) /\ Len(log') = upToEnd
    <2>1. Rows(upToEnd) \in Seq(Nat) /\ Len(Rows(upToEnd)) = upToEnd
      BY <1>11, RowsOfLength
    <2> QED BY <1>3, <1>10, <2>1, ConcatEmptySeq
  <1>14. logRows' \subseteq 1..upToEnd
    BY <1>10
  <1>15. RowsInv'
    BY <1>2, <1>9, <1>11, <1>12, <1>13, <1>14, RowsTaken
  <1> QED BY <1>3, <1>15
LEMMA RowsEnded ==
    ASSUME TypeInv, WaitInv, FlowInv, RowsInv, EndApply \/ Restart
    PROVE  RowsInv' /\ (log' = log \/ log' = <<>>)
  <1>0. /\ RowTypes /\ RowInv /\ PathInv /\ SnapInv /\ HistoryInv /\ LogInv /\ GapInv /\ OneInv /\ ConnInv /\ ApplyInv
        /\ NoApply.at = "free"
    BY RowTypesIn DEF FlowInv, RowsInv, NoApply
  <1>1. UNCHANGED claudeVars /\ UNCHANGED modVars
    BY DEF EndApply, Restart
  <1>2. RowInv' /\ SnapInv' /\ Pend' = Pend
    BY <1>0, <1>1, RowsServing
  <1>3. /\ pump' = pump /\ token' = token /\ asks' = asks /\ hello' = hello /\ posted' = posted /\ queue' = queue
        /\ stampOwed' = stampOwed /\ instance' = instance /\ stored' = stored
    BY <1>1 DEF claudeVars, modVars
  <1>4. CASE EndApply
    <2>1. applying.at # "free" /\ applying.batch = <<>>
      BY <1>4 DEF EndApply
    <2>2. pump = "post" /\ registered /\ ~Greeted /\ Own
      BY <1>0, <2>1, Alone DEF ApplyInv, Greeted, ConnInv
    <2>3. /\ calls' = calls /\ registered' = registered /\ connInstance' = connInstance /\ path' = path /\ owed' = owed
          /\ log' = log /\ logRows' = logRows /\ applying' = NoApply
      BY <1>4 DEF EndApply
    <2>b. (Astray' <=> Astray) /\ (Pathless' <=> Pathless)
      BY <1>1, <1>4, SameName DEF EndApply, claudeVars
    <2>4. ~owed
      <3> SUFFICES ASSUME owed PROVE FALSE
        OBVIOUS
      <3> QED BY <2>1, OwedHead DEF HistoryFirst
    <2>5. PathInv'
      BY <1>0, <1>3, <2>2, <2>3, <2>b DEF PathInv, Begun, Greeted
    <2>6. HistoryInv'
      BY <2>3, <2>4 DEF HistoryInv
    <2>7. LogInv'
      BY <1>0, <1>3, <2>3, <2>b DEF LogInv
    <2>8. Done = posted
      <3>1. Done \in Seq(Event) /\ posted = Done \o <<>>
        BY <1>0, <2>1 DEF ApplyInv
      <3> QED BY <3>1, ConcatEmptySeq
    <2>9. ~Astray => RowsOf(posted) \subseteq 1..Len(log)
      BY <1>0, <2>1, <2>8 DEF GapInv
    <2>10. GapInv'
      BY <1>0, <1>2, <1>3, <2>2, <2>3, <2>b, <2>9 DEF GapInv, Own
    <2> QED BY <1>2, <2>3, <2>5, <2>6, <2>7, <2>10 DEF RowsInv
  <1>5. CASE Restart
    <2>1. /\ registered' = FALSE /\ log' = <<>> /\ logRows' = {} /\ applying' = NoApply /\ calls' \subseteq calls
          /\ reply' = reply
      BY <1>5 DEF Restart
    <2>2. PathInv'
      BY <1>0, <1>3, <2>1 DEF PathInv, Begun, Pathless
    <2>3. HistoryInv'
      BY <2>1 DEF HistoryInv
    <2>4. <<>> = Rows(0) /\ Len(<<>>) = 0
      BY RowsOfLength
    <2>5. LogInv'
      BY <1>0, <1>3, <2>1, <2>4 DEF LogInv, RowTypes
    <2>6. GapInv'
      BY <1>0, <2>1 DEF GapInv, Own
    <2> QED BY <1>2, <2>1, <2>2, <2>3, <2>5, <2>6 DEF RowsInv
  <1> QED BY <1>4, <1>5

LEMMA RowsStep ==
    TypeInv /\ TypeInv' /\ WaitInv /\ TokenInv /\ NamesPast /\ FlowInv /\ RowsInv /\ ~scope.overlap /\ ~scope.lag /\ [Next]_vars
        => RowsInv'
  <1> SUFFICES ASSUME TypeInv, TypeInv', WaitInv, TokenInv, NamesPast, FlowInv, RowsInv, ~scope.overlap, ~scope.lag, [Next]_vars
               PROVE  RowsInv'
    OBVIOUS
  <1>1. CASE StoreRow
    BY <1>1, RowsStored
  <1>2. CASE WriteFile \/ StartTurn \/ EndTurn \/ SendLevel \/ Rename \/ PollRefused \/ Follow \/ UNCHANGED vars
    BY <1>2, RowsEngine
  <1>3. CASE SendHello
    BY <1>3, RowsSendHello
  <1>4. CASE HelloAnswered
    BY <1>4, RowsHelloAnswered
  <1>5. CASE ReadMessages \/ ReadLast \/ HistoryFails
    BY <1>5, RowsRead
  <1>6. CASE FinishHello
    BY <1>6, RowsFinish
  <1>7. CASE Flush
    BY <1>7, RowsFlush
  <1>8. CASE FlushAnswered
    BY <1>8, RowsFlushAnswered
  <1>9. CASE RequestDies \/ ReplyLost \/ GiveUp \/ Reload
    BY <1>9, RowsFailed
  <1>10. CASE \E c \in calls : ServeHello(c) \/ Admit(c) \/ BeginApply(c)
    BY <1>10, RowsServed
  <1>11. CASE ApplyRow
    BY <1>11, RowsApplied
  <1>12. CASE ApplyTurn \/ ApplyHistory
    BY <1>12, RowsPassed
  <1>13. CASE Rebuild
    BY <1>13, RowsRebuilt
  <1>14. CASE EndApply \/ Restart
    BY <1>14, RowsEnded
  <1> QED BY <1>1, <1>2, <1>3, <1>4, <1>5, <1>6, <1>7, <1>8, <1>9, <1>10, <1>11, <1>12, <1>13, <1>14
          DEF Next, Engine, Mod, Service, Fault

\* Where nothing lags, too.
CompleteInv ==
    /\ TypeInv /\ WaitInv /\ TokenInv /\ NameInv /\ NamesPast
    /\ ~scope.overlap => FlowInv
    /\ ~scope.overlap /\ ~scope.lag => RowsInv

LEMMA CompleteAlways == Spec => []CompleteInv
  <1>1. Init => CompleteInv
    BY TypeInit, WaitInit, NameInit, NamesInit, FlowInit, RowsInit DEF CompleteInv
  <1>2. CompleteInv /\ [Next]_vars => CompleteInv'
    <2> SUFFICES ASSUME CompleteInv, [Next]_vars PROVE CompleteInv'
      OBVIOUS
    <2>1. TypeInv /\ WaitInv /\ TokenInv /\ NameInv /\ NamesPast
      BY DEF CompleteInv
    <2>2. TypeInv' /\ WaitInv'
      BY <2>1, TypeStep, WaitStep
    <2>3. TokenInv' /\ NameInv' /\ NamesPast'
      BY <2>1, NameStep, NamesStep
    <2>4. scope' = scope
      BY ScopeStep
    <2>5. ~scope.overlap => FlowInv /\ FlowInv'
      BY <2>1, FlowStep DEF CompleteInv
    <2>6. ~scope.overlap /\ ~scope.lag => RowsInv'
      BY <2>1, <2>2, <2>5, RowsStep DEF CompleteInv
    <2> QED BY <2>2, <2>3, <2>4, <2>5, <2>6 DEF CompleteInv
  <1> QED BY <1>1, <1>2, PTL DEF Spec

\* Where a transcript keeps up with Claude and the mod waits for what it sent, no
\* row is drawn twice or behind a later one, however often a batch or a history is
\* sent again (apply on a history, feedRow), in a log that is not astray.
THEOREM DrawnInOrder == Spec => [](~scope.overlap => DrawnOnce)
  <1>1. CompleteInv => (~scope.overlap => DrawnOnce)
    <2> SUFFICES ASSUME CompleteInv, ~scope.overlap, ~scope.lag, ~Astray, NEW i \in DOMAIN log, NEW j \in DOMAIN log, i < j
                 PROVE  log[i] < log[j]
      BY DEF DrawnOnce
    <2>1. log = Rows(Len(log)) /\ Len(log) \in Nat
      BY RowTypesIn DEF CompleteInv, RowsInv, LogInv, RowTypes
    <2>2. \A k \in DOMAIN log : log[k] = k
      BY <2>1 DEF Rows
    <2> QED BY <2>2
  <1> QED BY <1>1, CompleteAlways, PTL

\* And once everything the mod has queued is taken, a log that is not astray has every
\* row, and the path of a transcript Claude has begun is known, whatever restarts,
\* reloads, is renamed or fails before (#hello, apply, TranscriptStamp).
THEOREM NothingLeftOut == Spec => []NothingMissing
  <1>1. CompleteInv => NothingMissing
    <2> SUFFICES ASSUME CompleteInv, ~scope.overlap, ~scope.lag, Quiet, ~Astray
                 PROVE  log = Rows(stored) /\ (stored > 0 => path)
      BY DEF NothingMissing, InStep, HistoryComes
    <2>1. FlowInv /\ RowsInv /\ TypeInv
      BY DEF CompleteInv
    <2>2. RowTypes /\ ConnInv /\ PostInv /\ HeadInv /\ PathInv /\ LogInv /\ GapInv
      BY <2>1, RowTypesIn DEF FlowInv, RowsInv
    <2>3. pump = "idle" /\ token # 0 /\ queue = <<>> /\ posted = <<>> /\ registered
      BY <2>2 DEF Quiet, PostInv, ConnInv
    <2>4. Own /\ ~owed
      BY <2>2, <2>3 DEF ConnInv, HeadInv, HistoryFirst
    <2>5. RowsOf(Pend) = {}
      BY <2>2, <2>3, SortedEmpty DEF RowTypes
    <2>6. Len(log) = stored
      <3>1. 1..stored \subseteq 1..Len(log) /\ Len(log) <= stored /\ stored \in Nat /\ Len(log) \in Nat
        BY <2>2, <2>4, <2>5 DEF GapInv, LogInv, RowTypes
      <3>2. stored > 0 => stored \in 1..stored
        BY <3>1
      <3> QED BY <3>1, <3>2
    <2>7. stored > 0 => path
      BY <2>2, <2>3 DEF PathInv, Begun, Pathless, Astray
    <2> QED BY <2>2, <2>6, <2>7 DEF LogInv
  <1> QED BY <1>1, CompleteAlways, PTL

\* Claude stores a row at a time, and nothing else does.
LEMMA StoredStep == [Next]_vars => stored' = stored \/ stored' = stored + 1
  <1> SUFFICES ASSUME [Next]_vars PROVE stored' = stored \/ stored' = stored + 1
    OBVIOUS
  <1>1. CASE Engine \/ Rename \/ PollRefused \/ Follow \/ UNCHANGED vars
    BY <1>1 DEF Engine, StoreRow, WriteFile, StartTurn, EndTurn, SendLevel, Rename, PollRefused, Follow, vars, claudeVars
  <1>2. CASE FinishHello \/ HistoryFails \/ FlushAnswered \/ RequestDies \/ ReplyLost \/ GiveUp \/ Reload
    BY <1>2 DEF FinishHello, HistoryFails, FlushAnswered, RequestDies, ReplyLost, GiveUp, RequestFails, Reload, claudeVars
  <1>3. CASE SendHello \/ HelloAnswered \/ ReadMessages \/ ReadLast \/ Flush
    BY <1>3 DEF SendHello, HelloAnswered, ReadMessages, ReadLast, Flush, claudeVars
  <1>4. CASE \E c \in calls : ServeHello(c) \/ Admit(c) \/ BeginApply(c)
    BY <1>4 DEF ServeHello, Admit, BeginApply, claudeVars
  <1>5. CASE ApplyRow \/ ApplyTurn \/ ApplyHistory \/ Rebuild \/ EndApply \/ Restart
    BY <1>5 DEF ApplyRow, ApplyTurn, ApplyHistory, Rebuild, EndApply, Restart, claudeVars
  <1> QED BY <1>1, <1>2, <1>3, <1>4, <1>5 DEF Next, Mod, Service, Fault

\* There too, whatever fails or restarts, the log is what a conversation's log
\* promises: a prefix of what Claude stored, that only grows until it is started again
\* or goes astray (ReplayTranscript, feedRow).
THEOREM ConversationShown == Spec => ShowsConversation
  <1> DEFINE shown == IF InStep /\ ~Astray THEN log ELSE <<>>
  <1>1. Init => Conversation!Init
    BY DEF Init, Conversation!Init, Astray
  <1>2. ASSUME CompleteInv, CompleteInv', InStep, InStep', [Next]_vars
        PROVE  [Conversation!Next]_<<stored, shown>>
    <2> USE <1>2
    <2>1. /\ ~scope.overlap /\ ~scope.lag /\ ~scope'.overlap /\ ~scope'.lag
      BY DEF InStep
    <2>2. TypeInv /\ TypeInv' /\ WaitInv /\ FlowInv /\ RowsInv /\ RowsInv'
      BY <2>1 DEF CompleteInv
    <2>3. RowTypes /\ RowTypes'
      BY <2>2, RowTypesIn, RowTypesNext
    <2>4. /\ shown = Rows(Len(shown)) /\ shown' = Rows(Len(shown')) /\ Len(shown') <= stored'
          /\ Len(shown) \in Nat /\ Len(shown') \in Nat /\ stored' \in Nat
      <3>1. <<>> = Rows(0) /\ Len(<<>>) = 0
        BY RowsOfLength
      <3>2. /\ ~Astray => log = Rows(Len(log))
            /\ ~Astray' => log' = Rows(Len(log')) /\ Len(log') <= stored'
            /\ Len(log) \in Nat /\ Len(log') \in Nat /\ stored' \in Nat
        BY <2>2, <2>3 DEF RowsInv, LogInv, RowTypes
      <3>3. shown = Rows(Len(shown)) /\ Len(shown) \in Nat
        <4>1. CASE Astray
          BY <3>1, <4>1
        <4>2. CASE ~Astray
          BY <3>2, <4>2
        <4> QED BY <4>1, <4>2
      <3>4. shown' = Rows(Len(shown')) /\ Len(shown') <= stored' /\ Len(shown') \in Nat
        <4>1. CASE Astray'
          <5>1. shown' = <<>>
            BY <4>1
          <5> HIDE DEF shown
          <5> QED BY <3>1, <3>2, <5>1
        <4>2. CASE ~Astray'
          <5>1. shown' = log'
            BY <4>2
          <5> HIDE DEF shown
          <5> QED BY <3>2, <4>2, <5>1
        <4> QED BY <4>1, <4>2
      <3> QED BY <3>2, <3>3, <3>4
    <2>a. log' = <<>> => shown' = <<>>
      OBVIOUS
    <2>b. (Astray' <=> Astray) => (log' = log => shown' = shown)
      OBVIOUS
    <2>c. Astray' => shown' = <<>>
      OBVIOUS
    <2>5. stored' = stored /\ Len(shown) <= Len(shown') => [Conversation!Next]_<<stored, shown>>
      <3> SUFFICES ASSUME stored' = stored, Len(shown) <= Len(shown'), Len(shown) # Len(shown')
                   PROVE  Conversation!Next
        BY <2>4
      <3>1. Len(shown') \in Len(shown)+1..stored
        BY <2>4
      <3>2. shown' = Conversation!Rows(Len(shown'))
        BY <2>4 DEF Rows, Conversation!Rows
      <3> HIDE DEF shown
      <3> QED BY <3>1, <3>2 DEF shown, Conversation!Next, Conversation!Show
    <2>6. stored' = stored /\ shown' = shown => [Conversation!Next]_<<stored, shown>>
      OBVIOUS
    <2>7. stored' = stored /\ shown' = <<>> => [Conversation!Next]_<<stored, shown>>
      BY DEF Conversation!Next, Conversation!Forget
    <2>8. CASE StoreRow
      <3>1. stored' = stored + 1 /\ log' = log /\ (Astray' <=> Astray)
        BY <2>8, SameName DEF StoreRow, connVars
      <3>2. shown' = shown
        BY <2>b, <3>1
      <3> HIDE DEF shown
      <3> QED BY <3>1, <3>2 DEF shown, Conversation!Next, Conversation!Store
    <2>9. CASE \/ WriteFile \/ StartTurn \/ EndTurn \/ SendLevel \/ PollRefused \/ Follow \/ UNCHANGED vars
               \/ SendHello \/ HelloAnswered \/ ReadMessages \/ ReadLast \/ HistoryFails \/ FinishHello \/ Flush
               \/ FlushAnswered \/ RequestDies \/ ReplyLost \/ GiveUp \/ Reload
      <3>1. stored' = stored /\ log' = log /\ (Astray' <=> Astray)
        BY <2>9, SameName DEF WriteFile, StartTurn, EndTurn, SendLevel, PollRefused, Follow, vars, SendHello, HelloAnswered,
                    ReadMessages, ReadLast, HistoryFails, FinishHello, Flush, FlushAnswered, RequestDies, ReplyLost,
                    GiveUp, RequestFails, Reload, claudeVars, connVars
      <3> QED BY <2>6, <2>b, <3>1
    <2>d. CASE Rename
      <3>1. stored' = stored /\ log' = log
        BY <2>d DEF Rename, connVars
      <3>2. CASE Astray' <=> Astray
        BY <2>6, <2>b, <3>1, <3>2
      <3>3. CASE Astray' /\ ~Astray
        BY <2>7, <2>c, <3>1, <3>3
      <3>4. Astray => Astray'
        <4>1. /\ registered' = registered /\ path' = path /\ connName' = connName /\ tmuxName' = tmuxName + 1
              /\ connName <= tmuxName /\ connName \in Nat /\ tmuxName \in Nat
          BY <2>2, <2>d DEF Rename, connVars, TypeInv, Values, CompleteInv, NamesPast
        <4> QED BY <4>1 DEF Astray
      <3> QED BY <3>2, <3>3, <3>4
    <2>10. CASE \E c \in calls : ServeHello(c) \/ Admit(c) \/ BeginApply(c)
      <3> PICK c \in calls : ServeHello(c) \/ Admit(c) \/ BeginApply(c)
        BY <2>10
      <3>1. stored' = stored
        BY DEF ServeHello, Admit, BeginApply, claudeVars
      <3>2. CASE Admit(c) \/ BeginApply(c)
        <4>1. log' = log /\ (Astray' <=> Astray)
          BY <3>2, SameName DEF Admit, BeginApply, claudeVars, connVars
        <4> QED BY <2>6, <2>b, <3>1, <4>1
      <3>3. CASE ServeHello(c) /\ log' = <<>>
        BY <2>7, <2>a, <3>1, <3>3
      <3>4. CASE ServeHello(c) /\ log' # <<>>
        <4>1. log' = log /\ registered /\ registered' /\ connName' = connName /\ c.name = connName /\ tmuxName' = tmuxName
              /\ path' = (path \/ Stamped(c))
          BY <3>4 DEF ServeHello, claudeVars
        <4>2. Astray => Astray'
          BY <4>1 DEF Astray, Stamped
        <4> QED BY <2>6, <2>7, <2>b, <2>c, <3>1, <4>1, <4>2
      <3> QED BY <3>2, <3>3, <3>4
    <2>11. CASE ApplyRow
      <3>1. stored' = stored /\ (~Astray => Len(log) <= Len(log')) /\ (Astray' <=> Astray)
        BY <2>2, <2>11, RowsApplied, RowsApplying DEF ApplyRow, claudeVars
      <3>2. Len(shown) <= Len(shown')
        BY <2>4, <3>1
      <3> QED BY <2>5, <3>1, <3>2
    <2>12. CASE ApplyTurn \/ ApplyHistory
      <3>1. stored' = stored /\ log' = log /\ (Astray' <=> Astray)
        BY <2>2, <2>12, RowsApplying DEF ApplyTurn, ApplyHistory, claudeVars, connVars
      <3> QED BY <2>6, <2>b, <3>1
    <2>13. CASE Rebuild
      <3>1. stored' = stored /\ log = <<>> /\ Len(<<>>) = 0
        BY <2>2, <2>13, RowsRebuilt DEF Rebuild, claudeVars
      <3>2. Len(shown) <= Len(shown')
        BY <2>4, <3>1
      <3> QED BY <2>5, <3>1, <3>2
    <2>14. CASE EndApply \/ Restart
      <3>1. CASE EndApply
        <4>1. stored' = stored /\ log' = log /\ (Astray' <=> Astray)
          BY <3>1, SameName DEF EndApply, claudeVars
        <4> QED BY <2>6, <2>b, <4>1
      <3>2. CASE Restart
        <4>1. stored' = stored /\ log' = <<>>
          BY <3>2 DEF Restart, claudeVars
        <4> QED BY <2>7, <2>a, <4>1
      <3> QED BY <2>14, <3>1, <3>2
    <2> QED BY <2>8, <2>9, <2>d, <2>10, <2>11, <2>12, <2>13, <2>14 DEF Next, Engine, Mod, Service, Fault
  <1>3. ASSUME CompleteInv, ~InStep, ~InStep', [Next]_vars
        PROVE  [Conversation!Next]_<<stored, shown>>
    <2>1. shown' = shown
      BY <1>3
    <2>2. stored' = stored \/ stored' = stored + 1
      BY <1>3, StoredStep
    <2> HIDE DEF shown
    <2> QED BY <2>1, <2>2 DEF shown, Conversation!Next, Conversation!Store
  <1>4. CompleteInv /\ CompleteInv' /\ [Next]_vars => [Conversation!Next]_<<stored, shown>>
    <2> SUFFICES ASSUME CompleteInv, CompleteInv', [Next]_vars
                 PROVE  [Conversation!Next]_<<stored, shown>>
      OBVIOUS
    <2>1. InStep' <=> InStep
      BY ScopeStep DEF InStep
    <2> HIDE DEF shown
    <2> QED BY <1>2, <1>3, <2>1
  <1> QED BY <1>1, <1>4, CompleteAlways, PTL DEF Spec, ShowsConversation, Conversation!Spec

-----------------------------------------------------------------------------
(* However requests overlap, while the mod is neither reloaded nor its      *)
(* session renamed: no row twice.                                          *)

\* The transcript keeps up with Claude, and there is one module and one name.
Steady == scope.reloads = 0 /\ scope.renames = 0 /\ ~scope.lag

\* The histories among evs: how many rows the messages held, and the row named.
TalesOf(evs) == {<<evs[i].n, evs[i].last>> : i \in {j \in DOMAIN evs : evs[j].type = "history"}}

\* What is queued, posted, with session-events or being applied.
Batches == {queue, posted, applying.batch} \cup {c.batch : c \in calls}
MovingRows == UNION {RowsOf(s) : s \in Batches}
MovingTales == UNION {TalesOf(s) : s \in Batches}

\* Nothing in s is new.
Old(s) == RowsOf(s) \subseteq MovingRows /\ TalesOf(s) \subseteq MovingTales

LEMMA TalesIn ==
    ASSUME NEW s \in Seq(Event), NEW T,
           \A i \in 1..Len(s) : s[i].type = "history" => <<s[i].n, s[i].last>> \in T
    PROVE  TalesOf(s) \subseteq T
  <1>1. DOMAIN s = 1..Len(s)
    BY LenProperties
  <1> QED BY <1>1 DEF TalesOf

LEMMA TalesHas ==
    ASSUME NEW s \in Seq(Event), NEW i \in 1..Len(s), s[i].type = "history"
    PROVE  <<s[i].n, s[i].last>> \in TalesOf(s)
  <1>1. i \in DOMAIN s
    BY LenProperties
  <1> QED BY <1>1 DEF TalesOf

LEMMA TalesConcat ==
    ASSUME NEW s \in Seq(Event), NEW t \in Seq(Event)
    PROVE  TalesOf(s \o t) \subseteq TalesOf(s) \cup TalesOf(t)
  <1> DEFINE u == s \o t
             T == TalesOf(s) \cup TalesOf(t)
  <1>1. /\ u \in Seq(Event) /\ Len(u) = Len(s) + Len(t)
        /\ \A i \in 1..Len(s) + Len(t) : u[i] = IF i <= Len(s) THEN s[i] ELSE t[i - Len(s)]
    BY ConcatProperties
  <1>2. Len(s) \in Nat /\ Len(t) \in Nat
    BY LenProperties
  <1> HIDE DEF u
  <1>3. ASSUME NEW i \in 1..Len(u), u[i].type = "history" PROVE <<u[i].n, u[i].last>> \in T
    <2>1. CASE i <= Len(s)
      <3>1. i \in 1..Len(s) /\ u[i] = s[i]
        BY <1>1, <1>2, <2>1
      <3>2. <<s[i].n, s[i].last>> \in TalesOf(s)
        BY <1>3, <3>1, TalesHas
      <3> QED BY <3>1, <3>2
    <2>2. CASE ~(i <= Len(s))
      <3>1. i - Len(s) \in 1..Len(t) /\ u[i] = t[i - Len(s)]
        BY <1>1, <1>2, <2>2
      <3>2. <<t[i - Len(s)].n, t[i - Len(s)].last>> \in TalesOf(t)
        BY <1>3, <3>1, TalesHas
      <3> QED BY <3>1, <3>2
    <2> QED BY <2>1, <2>2
  <1> HIDE DEF T
  <1>4. TalesOf(u) \subseteq T
    BY <1>1, <1>3, TalesIn
  <1> QED BY <1>4 DEF u, T

LEMMA TalesOne ==
    ASSUME NEW e \in Event
    PROVE  /\ <<e>> \in Seq(Event)
           /\ TalesOf(<<e>>) = IF e.type = "history" THEN {<<e.n, e.last>>} ELSE {}
           /\ RowsOf(<<e>>) = IF e.type = "row" THEN {e.n} ELSE {}
  BY DEF TalesOf, RowsOf

LEMMA OldBatch ==
    ASSUME NEW s \in Batches
    PROVE  Old(s)
  BY DEF Old, MovingRows, MovingTales

LEMMA OldEmpty == Old(<<>>)
  BY DEF Old, RowsOf, TalesOf

LEMMA OldConcat ==
    ASSUME NEW s \in Seq(Event), NEW t \in Seq(Event), Old(s), Old(t)
    PROVE  s \o t \in Seq(Event) /\ Old(s \o t)
  <1>1. s \o t \in Seq(Event)
    BY ConcatProperties
  <1>2. RowsOf(s \o t) = RowsOf(s) \cup RowsOf(t) /\ TalesOf(s \o t) \subseteq TalesOf(s) \cup TalesOf(t)
    BY RowsConcat, TalesConcat
  <1> QED BY <1>1, <1>2 DEF Old

LEMMA OldKept ==
    ASSUME NEW q \in Seq(Event), NEW K \in SUBSET (DOMAIN q), Old(q)
    PROVE  Kept(q, K) \in Seq(Event) /\ Old(Kept(q, K))
  <1> DEFINE s == Kept(q, K)
  <1>0. PICK h : Placed(q, K, h)
    BY KeptEvents
  <1>1. s \in Seq(Event) /\ DOMAIN s = 1..Cardinality(K) /\ RowsOf(s) \subseteq RowsOf(q)
    BY KeptEvents, RowsKept
  <1>2. h \in [DOMAIN s -> K] /\ \A i \in DOMAIN s : s[i] = q[h[i]]
    BY <1>0, <1>1 DEF Placed
  <1> HIDE DEF s
  <1>3. TalesOf(s) \subseteq TalesOf(q)
    <2>1. \A i \in DOMAIN s : h[i] \in DOMAIN q
      BY <1>2
    <2> QED BY <1>2, <2>1 DEF TalesOf
  <1>4. s \in Seq(Event) /\ Old(s)
    BY <1>1, <1>3 DEF Old
  <1> QED BY <1>4 DEF s

LEMMA OldCovered ==
    ASSUME NEW q \in Seq(Event), Old(q)
    PROVE  Old([i \in DOMAIN q |-> [q[i] EXCEPT !.covered = TRUE]])
  <1> DEFINE s == [i \in DOMAIN q |-> [q[i] EXCEPT !.covered = TRUE]]
  <1>1. \A i \in DOMAIN q : q[i] \in Event
    BY LenProperties
  <1>2. DOMAIN s = DOMAIN q
        /\ \A i \in DOMAIN q : s[i].type = q[i].type /\ s[i].n = q[i].n /\ s[i].last = q[i].last
    BY <1>1 DEF Event
  <1> HIDE DEF s
  <1>3. RowsOf(s) \subseteq RowsOf(q) /\ TalesOf(s) \subseteq TalesOf(q)
    BY <1>2 DEF RowsOf, TalesOf
  <1>4. Old(s)
    BY <1>3 DEF Old
  <1> QED BY <1>4 DEF s

LEMMA OldTail ==
    ASSUME NEW s \in Seq(Event), s # <<>>, Old(s)
    PROVE  /\ Head(s) \in Event /\ Tail(s) \in Seq(Event) /\ Old(Tail(s))
           /\ Head(s).type = "row" => Head(s).n \in RowsOf(s)
           /\ Head(s).type = "history" => <<Head(s).n, Head(s).last>> \in TalesOf(s)
           /\ HistoryFirst(s) <=> Head(s).type = "history"
           /\ RowsOf(Tail(s)) \subseteq RowsOf(s) /\ TalesOf(Tail(s)) \subseteq TalesOf(s)
  <1> DEFINE t == Tail(s)
  <1>1. Head(s) \in Event /\ t \in Seq(Event) /\ Len(s) \in Nat /\ Len(t) = Len(s) - 1 /\ Len(s) # 0
        /\ \A i \in 1..Len(t) : t[i] = s[i + 1]
    BY HeadTailProperties, LenProperties, EmptySeq
  <1>2. 1 \in 1..Len(s) /\ Head(s) = s[1]
    BY <1>1
  <1> HIDE DEF t
  <1>3. \A i \in 1..Len(t) : i + 1 \in 1..Len(s)
    BY <1>1
  <1>4. RowsOf(t) \subseteq RowsOf(s)
    BY <1>1, <1>3, RowsIn
  <1>5. TalesOf(t) \subseteq TalesOf(s)
    <2>1. ASSUME NEW i \in 1..Len(t), t[i].type = "history" PROVE <<t[i].n, t[i].last>> \in TalesOf(s)
      <3>1. i + 1 \in 1..Len(s) /\ t[i] = s[i + 1]
        BY <1>1, <1>3
      <3>2. <<s[i + 1].n, s[i + 1].last>> \in TalesOf(s)
        BY <2>1, <3>1, TalesHas
      <3> QED BY <3>1, <3>2
    <2> QED BY <1>1, <2>1, TalesIn
  <1>6. Head(s).type = "row" => Head(s).n \in RowsOf(s)
    BY <1>2, RowsIn
  <1>7. Head(s).type = "history" => <<Head(s).n, Head(s).last>> \in TalesOf(s)
    BY <1>2, TalesHas
  <1>8. HistoryFirst(s) <=> Head(s).type = "history"
    BY <1>2 DEF HistoryFirst
  <1>9. Old(t)
    BY <1>4, <1>5 DEF Old
  <1> QED BY <1>1, <1>4, <1>5, <1>6, <1>7, <1>8, <1>9 DEF t

\* What Push leaves of the queue, before what it adds.
LEMMA OldPush ==
    ASSUME NEW q \in Seq(Event), NEW e \in Event, ~e.covered, Old(q), e.type # "history"
    PROVE  /\ TalesOf(Push(q, e)) \subseteq MovingTales
           /\ RowsOf(Push(q, e)) \subseteq MovingRows \cup (IF e.type = "row" THEN {e.n} ELSE {})
  <1> DEFINE s == IF e.type = "level" THEN Kept(q, {i \in DOMAIN q : q[i].type # "level"}) ELSE q
  <1>1. s \in Seq(Event) /\ Old(s)
    BY OldKept
  <1>2. Push(q, e) = Append(s, e)
    BY DEF Push
  <1> HIDE DEF s
  <1>3. Append(s, e) = s \o <<e>>
    BY <1>1, AppendIsConcat
  <1>4. <<e>> \in Seq(Event) /\ TalesOf(<<e>>) = {} /\ RowsOf(<<e>>) = IF e.type = "row" THEN {e.n} ELSE {}
    BY TalesOne
  <1>5. RowsOf(s \o <<e>>) = RowsOf(s) \cup RowsOf(<<e>>)
    BY <1>1, <1>4, RowsConcat
  <1>6. TalesOf(s \o <<e>>) \subseteq TalesOf(s) \cup TalesOf(<<e>>)
    BY <1>1, <1>4, TalesConcat
  <1> QED BY <1>1, <1>2, <1>3, <1>4, <1>5, <1>6 DEF Old

-----------------------------------------------------------------------------
\* One module and one name; a call's token has been given out; a batch that was
\* let in is of the connection there is.
ZeroInv ==
    /\ instance = 0 /\ tmuxName = 0 /\ tmuxSession = 0 /\ connInstance = 0 /\ connName = 0
    /\ fileRows = stored /\ lastRow <= stored
    /\ \A c \in calls : c.kind = "hello" => c.instance = 0 /\ c.name = 0
LetInInv ==
    /\ \A c \in calls : c.token <= tokens
    /\ \A c \in calls : c.kind = "events" => c.token # 0
    /\ \A c \in calls : c.at = "admitted" => registered
    /\ connToken # 0 => registered
    /\ applying.at = "free" => applying = NoApply
    /\ applying.at # "free" => registered /\ applying.live
    /\ applying.at = "rebuild" => owed
PumpInv ==
    /\ pump = "post" => token \in {0, hello.token}
    /\ pump # "post" => posted = <<>>
SteadyInv == ZeroInv /\ LetInInv /\ PumpInv

LEMMA SteadyInit == Init => SteadyInv
  BY DEF Init, SteadyInv, ZeroInv, LetInInv, PumpInv, NoApply

LEMMA ZeroStep ==
    ASSUME Steady, TypeInv, ZeroInv, [Next]_vars
    PROVE  ZeroInv' /\ ~Reload /\ ~Rename
  <1>0. Values /\ CallType /\ CountType /\ stored \in Nat /\ fileRows \in Nat /\ tmuxName \in Nat
    BY DEF TypeInv, Values
  <1>1. ~Reload
    BY <1>0 DEF Reload, Steady, CountType
  <1>2. ~Rename
    BY <1>0 DEF Rename, Steady
  <1> SUFFICES ZeroInv'
    BY <1>1, <1>2
  <1>3. CASE StoreRow
    BY <1>0, <1>3 DEF StoreRow, Steady, ZeroInv, connVars
  <1>4. CASE WriteFile
    BY <1>0, <1>4 DEF WriteFile, ZeroInv
  <1>5. CASE StartTurn \/ EndTurn \/ SendLevel \/ PollRefused
    BY <1>5 DEF StartTurn, EndTurn, SendLevel, PollRefused, ZeroInv, connVars, claudeVars
  <1>6. CASE SendHello
    <2>1. HelloCall.instance = instance /\ HelloCall.name = tmuxSession'
      BY <1>6 DEF SendHello, HelloCall
    <2> QED BY <1>6, <2>1 DEF SendHello, ZeroInv, connVars, claudeVars
  <1>7. CASE HelloAnswered \/ ReadMessages \/ ReadLast \/ FinishHello \/ HistoryFails \/ FlushAnswered \/ UNCHANGED vars
    BY <1>7 DEF HelloAnswered, ReadMessages, ReadLast, FinishHello, HistoryFails, FlushAnswered, ZeroInv,
                vars, modVars, connVars, claudeVars
  <1>8. CASE Flush
    <2>1. EventsCall(queue).kind # "hello"
      BY DEF EventsCall
    <2> QED BY <1>8, <2>1 DEF Flush, ZeroInv, connVars, claudeVars
  <1>9. CASE RequestDies \/ ReplyLost
    BY <1>9 DEF RequestDies, ReplyLost, RequestFails, ZeroInv, connVars, claudeVars
  <1>10. CASE GiveUp
    <2>1. calls' = {[c EXCEPT !.waited = FALSE] : c \in calls}
      BY <1>10 DEF GiveUp
    <2>2. \A c \in calls : LET d == [c EXCEPT !.waited = FALSE] IN
                             d.kind = c.kind /\ d.instance = c.instance /\ d.name = c.name
      BY <1>0 DEF CallType, Call
    <2>3. ASSUME NEW d \in calls', d.kind = "hello" PROVE d.instance = 0 /\ d.name = 0
      <3>1. PICK c \in calls : d = [c EXCEPT !.waited = FALSE]
        BY <2>1
      <3>2. c.kind = "hello" /\ d.instance = c.instance /\ d.name = c.name
        BY <2>2, <2>3, <3>1
      <3> QED BY <3>2 DEF ZeroInv
    <2> QED BY <1>10, <2>3 DEF GiveUp, RequestFails, ZeroInv, connVars, claudeVars
  <1>11. ASSUME NEW c \in calls, ServeHello(c) PROVE ZeroInv'
    BY <1>11 DEF ServeHello, ZeroInv, modVars, claudeVars
  <1>12. ASSUME NEW c \in calls, Admit(c) PROVE ZeroInv'
    <2>1. calls' \subseteq calls \cup {[c EXCEPT !.at = "admitted"]} /\ c.kind = "events"
      BY <1>12 DEF Admit
    <2>2. [c EXCEPT !.at = "admitted"].kind = "events"
      BY <1>0, <2>1 DEF CallType, Call
    <2> QED BY <1>12, <2>1, <2>2 DEF Admit, ZeroInv, modVars, connVars, claudeVars
  <1>13. ASSUME NEW c \in calls, BeginApply(c) PROVE ZeroInv'
    BY <1>13 DEF BeginApply, ZeroInv, modVars, connVars, claudeVars
  <1>14. CASE ApplyRow \/ ApplyTurn \/ ApplyHistory \/ Rebuild \/ EndApply \/ Follow
    BY <1>14 DEF ApplyRow, ApplyTurn, ApplyHistory, Rebuild, EndApply, Follow, ZeroInv, modVars, connVars, claudeVars
  <1>15. CASE Restart
    BY <1>15 DEF Restart, ZeroInv, modVars, claudeVars
  <1> QED BY <1>1, <1>2, <1>3, <1>4, <1>5, <1>6, <1>7, <1>8, <1>9, <1>10, <1>11, <1>12, <1>13, <1>14, <1>15
          DEF Next, Engine, Mod, Service, Fault

LEMMA LetInKept ==
    ASSUME LetInInv, calls' \subseteq calls, tokens' = tokens, registered' = registered, owed' = owed,
           connToken' = connToken \/ connToken' = 0, applying' = applying
    PROVE  LetInInv'
  BY DEF LetInInv

\* The batch being applied goes on, or is over.
LEMMA LetInApplied ==
    ASSUME LetInInv, calls' = calls, tokens' = tokens, registered' = registered,
           connToken' = connToken \/ connToken' = 0, applying.at # "free",
           \/ applying' = NoApply
           \/ applying'.at \in {"fold", "rebuild"} /\ applying'.live = applying.live
              /\ (applying'.at = "rebuild" => owed')
    PROVE  LetInInv'
  BY DEF LetInInv, NoApply

LEMMA LetInStep ==
    ASSUME Steady, TypeInv, TokenInv, ZeroInv, LetInInv, [Next]_vars
    PROVE  LetInInv'
  <1>0. Numbers /\ ApplyType /\ ~Reload /\ ~Rename /\ calls \subseteq Call
    BY NumbersIn, ZeroStep DEF TypeInv, CallType
  <1>1. CASE StoreRow \/ WriteFile \/ StartTurn \/ EndTurn \/ SendLevel \/ PollRefused \/ HelloAnswered \/ ReadMessages
             \/ ReadLast \/ FinishHello \/ HistoryFails \/ FlushAnswered \/ RequestDies \/ ReplyLost \/ Follow
             \/ UNCHANGED vars
    <2>1. /\ calls' \subseteq calls /\ tokens' = tokens /\ registered' = registered /\ owed' = owed
          /\ connToken' = connToken \/ connToken' = 0
          /\ applying' = applying
      BY <1>1 DEF StoreRow, WriteFile, StartTurn, EndTurn, SendLevel, PollRefused, HelloAnswered, ReadMessages, ReadLast,
                  FinishHello, HistoryFails, FlushAnswered, RequestDies, ReplyLost, RequestFails, Follow,
                  vars, connVars, countVars, claudeVars, modVars
    <2> QED BY <2>1, LetInKept
  <1>2. CASE SendHello
    <2>1. calls' = calls \cup {HelloCall} /\ tokens' = tokens /\ registered' = registered /\ owed' = owed
          /\ connToken' = connToken /\ applying' = applying
      BY <1>2 DEF SendHello, connVars, countVars
    <2>2. HelloCall.token = 0 /\ HelloCall.kind = "hello" /\ HelloCall.at = "sent"
      BY DEF HelloCall
    <2> QED BY <1>0, <2>1, <2>2 DEF LetInInv, Numbers
  <1>3. CASE Flush
    <2>1. calls' = calls \cup {EventsCall(queue)} /\ tokens' = tokens /\ registered' = registered /\ owed' = owed
          /\ connToken' = connToken /\ applying' = applying /\ token # 0
      BY <1>3 DEF Flush, connVars, countVars
    <2>2. EventsCall(queue).token = token /\ EventsCall(queue).at = "sent"
      BY DEF EventsCall
    <2> QED BY <1>0, <2>1, <2>2 DEF LetInInv, TokenInv
  <1>4. CASE GiveUp
    <2>1. calls' = {[c EXCEPT !.waited = FALSE] : c \in calls} /\ applying' = [applying EXCEPT !.waited = FALSE]
          /\ tokens' = tokens /\ registered' = registered /\ owed' = owed /\ connToken' = connToken
      BY <1>4 DEF GiveUp, RequestFails, connVars
    <2>2. \A c \in calls : LET d == [c EXCEPT !.waited = FALSE] IN d.token = c.token /\ d.kind = c.kind /\ d.at = c.at
      BY <1>0 DEF Call
    <2>3. \A d \in calls' : \E c \in calls : d.token = c.token /\ d.kind = c.kind /\ d.at = c.at
      BY <2>1, <2>2
    <2>4. applying'.at = applying.at /\ applying'.live = applying.live
      BY <1>0, <2>1 DEF ApplyType
    <2>5. applying = NoApply => applying' = NoApply
      <3>1. NoApply.waited = FALSE
        BY DEF NoApply
      <3>2. applying = NoApply => applying' = [NoApply EXCEPT !.waited = FALSE]
        BY <2>1
      <3> QED BY <3>1, <3>2 DEF NoApply
    <2> QED BY <2>1, <2>3, <2>4, <2>5 DEF LetInInv
  <1>5. ASSUME NEW c \in calls, ServeHello(c) PROVE LetInInv'
    <2>1. /\ calls' \subseteq calls /\ tokens' = tokens + 1 /\ registered' /\ connToken' = tokens + 1
      BY <1>5 DEF ServeHello
    <2>2. \A d \in calls : d.token \in Nat
      BY <1>0 DEF Call
    <2>3. \A d \in calls' : d.token <= tokens'
      BY <1>0, <2>1, <2>2 DEF LetInInv, Numbers
    <2>4. CASE registered
      <3>1. applying' = applying /\ owed' = owed
        BY <1>5, <2>4 DEF ServeHello, ZeroInv
      <3> QED BY <2>1, <2>3, <2>4, <3>1 DEF LetInInv
    <2>5. CASE ~registered
      <3>1. applying = NoApply /\ applying' = [applying EXCEPT !.live = FALSE] /\ NoApply.live = FALSE
        BY <1>5, <2>5 DEF ServeHello, LetInInv, NoApply
      <3>2. applying' = NoApply
        BY <3>1 DEF NoApply
      <3> QED BY <2>1, <2>3, <3>2 DEF LetInInv, NoApply
    <2> QED BY <2>4, <2>5
  <1>6. ASSUME NEW c \in calls, Admit(c) PROVE LetInInv'
    <2>1. /\ tokens' = tokens /\ registered' = registered /\ owed' = owed /\ connToken' = connToken /\ applying' = applying
          /\ c.kind = "events"
      BY <1>6 DEF Admit, connVars, countVars
    <2>2. CASE c.token = connToken
      <3>1. calls' = (calls \ {c}) \cup {[c EXCEPT !.at = "admitted"]} /\ registered
        BY <1>6, <2>1, <2>2 DEF Admit, LetInInv
      <3>2. [c EXCEPT !.at = "admitted"].token = c.token
        BY <1>0 DEF Call
      <3> QED BY <2>1, <3>1, <3>2 DEF LetInInv
    <2>3. CASE c.token # connToken
      <3>1. calls' \subseteq calls
        BY <1>6, <2>3 DEF Admit
      <3> QED BY <2>1, <3>1, LetInKept
    <2> QED BY <2>2, <2>3
  <1>7. ASSUME NEW c \in calls, BeginApply(c) PROVE LetInInv'
    <2>1. /\ calls' \subseteq calls /\ applying'.at = "fold" /\ applying'.live /\ c.at = "admitted"
          /\ tokens' = tokens /\ registered' = registered /\ owed' = owed /\ connToken' = connToken
      BY <1>7 DEF BeginApply, connVars, countVars
    <2> QED BY <2>1 DEF LetInInv
  <1>8. CASE ApplyRow \/ ApplyTurn \/ ApplyHistory \/ Rebuild \/ EndApply
    <2>1. /\ calls' = calls /\ tokens' = tokens /\ registered' = registered /\ applying.at # "free"
          /\ connToken' = connToken \/ connToken' = 0
      <3>1. CASE ApplyRow \/ ApplyTurn \/ Rebuild
        BY <3>1 DEF ApplyRow, ApplyTurn, Rebuild, TakeEvent, countVars
      <3>2. CASE ApplyHistory
        BY <3>2 DEF ApplyHistory, TakeEvent, countVars, connVars
      <3>3. CASE EndApply
        BY <3>3 DEF EndApply, countVars
      <3> QED BY <1>8, <3>1, <3>2, <3>3
    <2>2. CASE ApplyRow \/ ApplyTurn
      <3>1. applying'.at = "fold" /\ applying'.live = applying.live
        BY <1>0, <2>2 DEF ApplyRow, ApplyTurn, TakeEvent, ApplyType
      <3> QED BY <2>1, <3>1, LetInApplied
    <2>3. CASE ApplyHistory
      <3>1. applying'.live = applying.live /\ owed' = owed /\ applying'.at \in {"fold", "rebuild"}
            /\ (applying'.at = "rebuild" => owed)
        BY <1>0, <2>3 DEF ApplyHistory, TakeEvent, ApplyType, connVars
      <3> QED BY <2>1, <3>1, LetInApplied
    <2>4. CASE Rebuild
      <3>1. applying'.at = "fold" /\ applying'.live = applying.live
        BY <1>0, <2>4 DEF Rebuild, ApplyType
      <3> QED BY <2>1, <3>1, LetInApplied
    <2>5. CASE EndApply
      <3>1. applying' = NoApply
        BY <2>5 DEF EndApply
      <3> QED BY <2>1, <3>1, LetInApplied
    <2> QED BY <1>8, <2>2, <2>3, <2>4, <2>5
  <1>9. CASE Restart
    <2>1. calls' = {c \in calls : c.at = "sent"} /\ connToken' = 0 /\ applying' = NoApply /\ tokens' = tokens
      BY <1>9 DEF Restart
    <2> QED BY <2>1 DEF LetInInv, NoApply
  <1> QED BY <1>0, <1>1, <1>2, <1>3, <1>4, <1>5, <1>6, <1>7, <1>8, <1>9 DEF Next, Engine, Mod, Service, Fault

LEMMA PumpStep ==
    ASSUME TypeInv, WaitInv, PumpInv, [Next]_vars
    PROVE  PumpInv'
  <1>0. Values
    BY DEF TypeInv
  <1>1. CASE StoreRow \/ StartTurn \/ PollRefused
    BY <1>1 DEF StoreRow, StartTurn, PollRefused, Rehello, PumpInv
  <1>2. CASE WriteFile \/ EndTurn \/ SendLevel \/ Rename \/ EndApply \/ ApplyRow \/ ApplyTurn \/ ApplyHistory \/ Rebuild
             \/ Follow \/ Restart \/ UNCHANGED vars
    BY <1>2 DEF WriteFile, EndTurn, SendLevel, Rename, EndApply, ApplyRow, ApplyTurn, ApplyHistory, Rebuild, Follow,
                Restart, PumpInv, vars, modVars
  <1>3. CASE SendHello \/ HelloAnswered \/ ReadMessages \/ ReadLast \/ FinishHello \/ HistoryFails
    BY <1>3 DEF SendHello, HelloAnswered, ReadMessages, ReadLast, FinishHello, HistoryFails, PumpInv
  <1>4. CASE Flush
    <2>1. hello'.token = token
      BY <1>4 DEF Flush, NoHello
    <2> QED BY <1>4, <2>1 DEF Flush, PumpInv
  <1>5. CASE FlushAnswered \/ RequestDies \/ ReplyLost \/ GiveUp \/ Reload
    BY <1>5 DEF FlushAnswered, RequestDies, ReplyLost, GiveUp, RequestFails, Reload, PumpInv
  <1>6. CASE \E c \in calls : ServeHello(c) \/ Admit(c) \/ BeginApply(c)
    BY <1>6 DEF ServeHello, Admit, BeginApply, PumpInv, modVars
  <1> QED BY <1>1, <1>2, <1>3, <1>4, <1>5, <1>6 DEF Next, Engine, Mod, Service, Fault

LEMMA SteadyStep ==
    ASSUME Steady, TypeInv, WaitInv, TokenInv, SteadyInv, [Next]_vars
    PROVE  SteadyInv' /\ ~Reload /\ ~Rename
  BY ZeroStep, LetInStep, PumpStep DEF SteadyInv

LEMMA OldAll ==
    /\ Old(queue) /\ Old(posted) /\ Old(applying.batch)
    /\ \A c \in calls : Old(c.batch)
  <1>1. queue \in Batches /\ posted \in Batches /\ applying.batch \in Batches /\ \A c \in calls : c.batch \in Batches
    BY DEF Batches
  <1> QED BY <1>1, OldBatch

LEMMA MovesOld ==
    ASSUME Old(queue'), Old(posted'), Old(applying'.batch), \A c \in calls' : Old(c.batch)
    PROVE  MovingRows' \subseteq MovingRows /\ MovingTales' \subseteq MovingTales
  <1>1. \A s \in Batches' : Old(s)
    BY DEF Batches
  <1>2. MovingRows' = UNION {RowsOf(s) : s \in Batches'} /\ MovingTales' = UNION {TalesOf(s) : s \in Batches'}
    BY DEF MovingRows, MovingTales
  <1> QED BY <1>1, <1>2 DEF Old

\* A failed request's batch goes back, and calls and batch are no more waited on.
LEMMA MovesBack ==
    ASSUME TypeInv, queue' = posted \o queue, posted' = <<>>,
           \A d \in calls' : \E c \in calls : d.batch = c.batch, applying'.batch = applying.batch
    PROVE  MovingRows' \subseteq MovingRows /\ MovingTales' \subseteq MovingTales
  <1>1. queue \in Seq(Event) /\ posted \in Seq(Event)
    BY DEF TypeInv, Values
  <1>2. Old(posted \o queue) /\ Old(<<>>)
    BY <1>1, OldAll, OldConcat, OldEmpty
  <1>3. \A d \in calls' : Old(d.batch)
    BY OldAll
  <1> QED BY <1>2, <1>3, OldAll, MovesOld

\* Only a row stored and a history read are new.
LEMMA MovesStep ==
    ASSUME TypeInv, [Next]_vars, ~StoreRow, ~FinishHello, ~Reload
    PROVE  MovingRows' \subseteq MovingRows /\ MovingTales' \subseteq MovingTales
  <1>0. /\ queue \in Seq(Event) /\ posted \in Seq(Event) /\ calls \subseteq Call /\ ApplyType
        /\ running \in BOOLEAN /\ RebuildInv
    BY DEF TypeInv, Values, CallType, Flags
  <1>1. CASE WriteFile \/ Rename \/ PollRefused \/ ReadMessages \/ ReadLast \/ Follow \/ UNCHANGED vars
    <2>1. queue' = queue /\ posted' = posted /\ calls' = calls /\ applying' = applying
      BY <1>1 DEF WriteFile, Rename, PollRefused, ReadMessages, ReadLast, Follow, vars, modVars
    <2> QED BY <2>1, OldAll, MovesOld
  <1>2. CASE StartTurn \/ EndTurn \/ SendLevel
    <2>1. PICK e \in Event : ~e.covered /\ e.type \in {"turn", "level"} /\ queue' = Push(queue, e)
      <3>1. /\ Ev("turn", 0, 0, TRUE).type = "turn" /\ Ev("turn", 0, 0, FALSE).type = "turn"
            /\ Ev("level", 0, 0, running).type = "level"
        BY DEF Ev
      <3>2. CASE StartTurn
        BY <3>1, <3>2, Queued DEF StartTurn
      <3>3. CASE EndTurn
        BY <3>1, <3>3, Queued DEF EndTurn
      <3>4. CASE SendLevel
        BY <3>1, <3>4, Queued DEF SendLevel
      <3> QED BY <1>2, <3>2, <3>3, <3>4
    <2>2. posted' = posted /\ calls' = calls /\ applying' = applying
      BY <1>2 DEF StartTurn, EndTurn, SendLevel
    <2>3. Old(queue')
      BY <1>0, <2>1, OldAll, OldPush DEF Old
    <2> QED BY <2>2, <2>3, OldAll, MovesOld
  <1>3. CASE SendHello
    <2>1. queue' = queue /\ posted' = posted /\ calls' = calls \cup {HelloCall} /\ applying' = applying
      BY <1>3 DEF SendHello
    <2>2. HelloCall.batch = <<>>
      BY DEF HelloCall
    <2> QED BY <2>1, <2>2, OldAll, OldEmpty, MovesOld
  <1>4. CASE HelloAnswered
    <2>1. posted' = posted /\ calls' = calls /\ applying' = applying
          /\ (queue' = queue \/ queue' = [i \in DOMAIN queue |-> [queue[i] EXCEPT !.covered = TRUE]])
      BY <1>4 DEF HelloAnswered
    <2>2. Old(queue')
      BY <1>0, <2>1, OldAll, OldCovered
    <2> QED BY <2>1, <2>2, OldAll, MovesOld
  <1>5. CASE HistoryFails
    <2>1. queue' = queue /\ posted' = posted /\ calls' = calls /\ applying' = applying
      BY <1>5 DEF HistoryFails
    <2> QED BY <2>1, OldAll, MovesOld
  <1>6. CASE Flush
    <2>1. queue' = <<>> /\ posted' = queue /\ calls' = calls \cup {EventsCall(queue)} /\ applying' = applying
      BY <1>6 DEF Flush
    <2>2. EventsCall(queue).batch = queue
      BY DEF EventsCall
    <2> QED BY <2>1, <2>2, OldAll, OldEmpty, MovesOld
  <1>7. CASE FlushAnswered
    <2>1. posted' = <<>> /\ calls' = calls /\ applying' = applying /\ (queue' = queue \/ queue' = posted \o queue)
      BY <1>7 DEF FlushAnswered
    <2>2. Old(queue')
      BY <1>0, <2>1, OldAll, OldConcat
    <2> QED BY <2>1, <2>2, OldAll, OldEmpty, MovesOld
  <1>8. CASE RequestDies \/ ReplyLost
    <2>1. queue' = posted \o queue /\ posted' = <<>> /\ calls' = calls /\ applying' = applying
      BY <1>8 DEF RequestDies, ReplyLost, RequestFails
    <2> QED BY <2>1, MovesBack
  <1>9. CASE GiveUp
    <2>1. /\ queue' = posted \o queue /\ posted' = <<>>
          /\ calls' = {[c EXCEPT !.waited = FALSE] : c \in calls}
          /\ applying' = [applying EXCEPT !.waited = FALSE]
      BY <1>9 DEF GiveUp, RequestFails
    <2>2. \A c \in calls : [c EXCEPT !.waited = FALSE].batch = c.batch
      BY <1>0 DEF Call
    <2>3. \A d \in calls' : \E c \in calls : d.batch = c.batch
      BY <2>1, <2>2
    <2>4. applying'.batch = applying.batch
      BY <1>0, <2>1 DEF ApplyType
    <2> QED BY <2>1, <2>3, <2>4, MovesBack
  <1>10. ASSUME NEW c \in calls, ServeHello(c) PROVE MovingRows' \subseteq MovingRows /\ MovingTales' \subseteq MovingTales
    <2>1. queue' = queue /\ posted' = posted /\ calls' = calls \ {c}
          /\ (applying' = applying \/ applying' = [applying EXCEPT !.live = FALSE])
      BY <1>10 DEF ServeHello, modVars
    <2>2. applying'.batch = applying.batch
      BY <1>0, <2>1 DEF ApplyType
    <2> QED BY <2>1, <2>2, OldAll, MovesOld
  <1>11. ASSUME NEW c \in calls, Admit(c) PROVE MovingRows' \subseteq MovingRows /\ MovingTales' \subseteq MovingTales
    <2>1. queue' = queue /\ posted' = posted /\ calls' \subseteq calls \cup {[c EXCEPT !.at = "admitted"]} /\ applying' = applying
      BY <1>11 DEF Admit, modVars
    <2>2. [c EXCEPT !.at = "admitted"].batch = c.batch
      BY <1>0 DEF Call
    <2>3. \A d \in calls' : Old(d.batch)
      BY <2>1, <2>2, OldAll
    <2> QED BY <2>1, <2>3, OldAll, MovesOld
  <1>12. ASSUME NEW c \in calls, BeginApply(c) PROVE MovingRows' \subseteq MovingRows /\ MovingTales' \subseteq MovingTales
    <2>1. queue' = queue /\ posted' = posted /\ calls' = calls \ {c} /\ applying'.batch = c.batch
      BY <1>12 DEF BeginApply, modVars
    <2> QED BY <2>1, OldAll, MovesOld
  <1>13. CASE ApplyRow \/ ApplyTurn \/ ApplyHistory \/ Rebuild
    <2>1. queue' = queue /\ posted' = posted /\ calls' = calls
      BY <1>13 DEF ApplyRow, ApplyTurn, ApplyHistory, Rebuild, modVars
    <2>2. applying.batch # <<>> /\ (applying'.batch = applying.batch \/ applying'.batch = Tail(applying.batch))
      BY <1>0, <1>13 DEF ApplyRow, ApplyTurn, ApplyHistory, Rebuild, TakeEvent, ApplyType, RebuildInv
    <2>3. applying.batch \in Seq(Event)
      BY <1>0 DEF ApplyType
    <2>4. Old(applying'.batch)
      BY <2>2, <2>3, OldAll, OldTail
    <2> QED BY <2>1, <2>4, OldAll, MovesOld
  <1>14. CASE EndApply \/ Restart
    <2>1. queue' = queue /\ posted' = posted /\ calls' \subseteq calls /\ applying' = NoApply
      BY <1>14 DEF EndApply, Restart, modVars
    <2>2. NoApply.batch = <<>>
      BY DEF NoApply
    <2> QED BY <2>1, <2>2, OldAll, OldEmpty, MovesOld
  <1> QED BY <1>1, <1>2, <1>3, <1>4, <1>5, <1>6, <1>7, <1>8, <1>9, <1>10, <1>11, <1>12, <1>13, <1>14
          DEF Next, Engine, Mod, Service, Fault

LEMMA MovesStored ==
    ASSUME TypeInv, StoreRow
    PROVE  MovingRows' \subseteq MovingRows \cup {stored + 1} /\ MovingTales' \subseteq MovingTales
  <1>1. PICK prompt \in BOOLEAN :
          /\ Ev("row", stored + 1, 0, prompt) \in Event /\ ~Ev("row", stored + 1, 0, prompt).covered
          /\ queue' = Push(queue, Ev("row", stored + 1, 0, prompt))
    BY Queued
  <1>2. Ev("row", stored + 1, 0, prompt).type = "row" /\ Ev("row", stored + 1, 0, prompt).n = stored + 1
    BY DEF Ev
  <1>3. queue \in Seq(Event)
    BY DEF TypeInv, Values
  <1>4. TalesOf(queue') \subseteq MovingTales /\ RowsOf(queue') \subseteq MovingRows \cup {stored + 1}
    BY <1>1, <1>2, <1>3, OldAll, OldPush
  <1>5. posted' = posted /\ calls' = calls /\ applying' = applying
    BY DEF StoreRow
  <1>6. \A s \in Batches' : TalesOf(s) \subseteq MovingTales /\ RowsOf(s) \subseteq MovingRows \cup {stored + 1}
    BY <1>4, <1>5, OldAll DEF Batches, Old
  <1>7. MovingRows' = UNION {RowsOf(s) : s \in Batches'} /\ MovingTales' = UNION {TalesOf(s) : s \in Batches'}
    BY DEF MovingRows, MovingTales
  <1> QED BY <1>6, <1>7

LEMMA MovesRead ==
    ASSUME TypeInv, FinishHello
    PROVE  /\ MovingRows' \subseteq MovingRows
           /\ MovingTales' \subseteq MovingTales \cup (IF hello.covers THEN {<<hello.n, hello.last>>} ELSE {})
           /\ asks = hello.asked /\ hello.covers => HistoryFirst(queue')
  <1> DEFINE told == IF hello.covers THEN {<<hello.n, hello.last>>} ELSE {}
             e == Ev("history", hello.n, hello.last, hello.on)
             level == Ev("level", 0, 0, running)
             left == IF hello.covers THEN Kept(queue, {i \in DOMAIN queue : ~queue[i].covered}) ELSE queue
             history == IF hello.covers THEN <<e>> ELSE <<>>
             lv == \E i \in DOMAIN left : left[i].type = "level"
             pre == IF lv THEN history ELSE Append(history, level)
  <1>1. /\ queue \in Seq(Event) /\ hello.n \in Nat /\ hello.last \in Nat /\ hello.on \in BOOLEAN
        /\ running \in BOOLEAN
    <2>1. /\ queue \in Seq(Event)
          /\ hello \in [asked : Nat, token : Nat, covers : BOOLEAN, n : Nat, last : Nat, on : BOOLEAN]
      BY DEF TypeInv, Values
    <2>2. running \in BOOLEAN
      BY DEF TypeInv, Flags
    <2> QED BY <2>1, <2>2
  <1>2. posted' = posted /\ calls' = calls /\ applying' = applying
    BY DEF FinishHello
  <1>3. /\ e \in Event /\ e.type = "history" /\ e.n = hello.n /\ e.last = hello.last
        /\ level \in Event /\ level.type = "level"
    <2>1. e \in Event
      BY <1>1, EventTypes
    <2>2. e.type = "history" /\ e.n = hello.n /\ e.last = hello.last /\ level.type = "level"
      BY DEF Ev
    <2>3. level \in Event
      BY Queued
    <2> QED BY <2>1, <2>2, <2>3
  <1>4. left \in Seq(Event) /\ Old(left)
    BY <1>1, OldAll, OldKept
  <1>5. asks = hello.asked => queue' = pre \o left
    BY DEF FinishHello, Prepend
  <1>6. asks # hello.asked => queue' = queue
    BY DEF FinishHello
  <1> HIDE DEF e, level, left
  <1>7. history \in Seq(Event) /\ RowsOf(history) = {} /\ TalesOf(history) = told
        /\ (hello.covers => HistoryFirst(history))
    <2>1. CASE hello.covers
      <3>1. <<e>>[1] = e /\ <<e>> # <<>>
        OBVIOUS
      <3> QED BY <1>3, <2>1, <3>1, TalesOne DEF HistoryFirst
    <2>2. CASE ~hello.covers
      BY <2>2 DEF RowsOf, TalesOf
    <2> QED BY <2>1, <2>2
  <1> HIDE DEF history
  <1>8. pre \in Seq(Event) /\ RowsOf(pre) = {} /\ TalesOf(pre) \subseteq told /\ (hello.covers => HistoryFirst(pre))
    <2>1. CASE lv
      BY <1>7, <2>1
    <2>2. CASE ~lv
      <3>1. pre = history \o <<level>>
        BY <1>3, <1>7, <2>2, AppendIsConcat
      <3>2. <<level>> \in Seq(Event) /\ RowsOf(<<level>>) = {} /\ TalesOf(<<level>>) = {}
        BY <1>3, TalesOne
      <3> HIDE DEF pre
      <3>3. RowsOf(history \o <<level>>) = {} /\ TalesOf(history \o <<level>>) \subseteq told
        <4>1. RowsOf(history \o <<level>>) = RowsOf(history) \cup RowsOf(<<level>>)
          BY <1>7, <3>2, RowsConcat
        <4>2. TalesOf(history \o <<level>>) \subseteq TalesOf(history) \cup TalesOf(<<level>>)
          BY <1>7, <3>2, TalesConcat
        <4> QED BY <1>7, <3>2, <4>1, <4>2
      <3>5. pre \in Seq(Event)
        BY <1>7, <3>1, <3>2, ConcatProperties
      <3>4. hello.covers => HistoryFirst(pre)
        BY <1>7, <3>1, <3>2, HeadConcat
      <3> QED BY <3>1, <3>3, <3>4, <3>5
    <2> QED BY <2>1, <2>2
  <1> HIDE DEF pre, told
  <1>9. /\ RowsOf(pre \o left) = RowsOf(pre) \cup RowsOf(left)
        /\ TalesOf(pre \o left) \subseteq TalesOf(pre) \cup TalesOf(left)
        /\ hello.covers => HistoryFirst(pre \o left)
    BY <1>4, <1>8, RowsConcat, TalesConcat, HeadConcat
  <1>10. RowsOf(queue') \subseteq MovingRows /\ TalesOf(queue') \subseteq MovingTales \cup told
    <2>1. CASE asks = hello.asked
      BY <1>4, <1>5, <1>8, <1>9, <2>1 DEF Old
    <2>2. CASE asks # hello.asked
      BY <1>6, <2>2, OldAll DEF Old
    <2> QED BY <2>1, <2>2
  <1>11. \A s \in Batches' : RowsOf(s) \subseteq MovingRows /\ TalesOf(s) \subseteq MovingTales \cup told
    BY <1>2, <1>10, OldAll DEF Batches, Old
  <1>12. MovingRows' = UNION {RowsOf(s) : s \in Batches'} /\ MovingTales' = UNION {TalesOf(s) : s \in Batches'}
    BY DEF MovingRows, MovingTales
  <1>13. MovingRows' \subseteq MovingRows /\ MovingTales' \subseteq MovingTales \cup told
    BY <1>11, <1>12
  <1> QED BY <1>5, <1>9, <1>13 DEF told

-----------------------------------------------------------------------------
\* What is on its way Claude stored, and a history that names no row was read
\* before any of the rows on their way was stored.
MoveInv ==
    /\ MovingRows \subseteq 1..stored
    /\ \A t \in MovingTales :
         /\ t[1] \in 0..stored /\ t[2] \in 0..stored
         /\ t[2] = 0 => \A r \in MovingRows : t[1] < r
    /\ lastRow = 0 => MovingRows = {} /\ \A t \in MovingTales : t[2] = 0
    /\ pump = "last" => hello.n <= stored
    /\ pump = "level" /\ hello.covers =>
         /\ hello.n <= stored /\ hello.last <= lastRow
         /\ hello.last = 0 => \A r \in MovingRows : hello.n < r

LEMMA MoveInit == Init => MoveInv
  <1> SUFFICES ASSUME Init PROVE MoveInv
    OBVIOUS
  <1>1. Batches = {<<>>}
    BY DEF Init, Batches, NoApply
  <1>2. MovingRows = {} /\ MovingTales = {}
    BY <1>1 DEF MovingRows, MovingTales, RowsOf, TalesOf
  <1> QED BY <1>2 DEF Init, MoveInv

LEMMA MoveKept ==
    ASSUME MoveInv, stored' = stored, lastRow' = lastRow,
           MovingRows' \subseteq MovingRows, MovingTales' \subseteq MovingTales,
           pump' = "last" => hello'.n <= stored,
           pump' = "level" /\ hello'.covers =>
             /\ hello'.n <= stored /\ hello'.last <= lastRow
             /\ hello'.last = 0 => \A r \in MovingRows : hello'.n < r
    PROVE  MoveInv'
  BY DEF MoveInv

LEMMA MoveStored ==
    ASSUME TypeInv, ZeroInv, MoveInv, StoreRow
    PROVE  MoveInv'
  <1>1. MovingRows' \subseteq MovingRows \cup {stored + 1} /\ MovingTales' \subseteq MovingTales
    BY MovesStored
  <1>2. stored' = stored + 1 /\ lastRow' = stored + 1 /\ pump' = pump /\ hello' = hello
    BY DEF StoreRow
  <1>3. /\ stored \in Nat /\ lastRow \in Nat /\ lastRow <= stored
        /\ hello \in [asked : Nat, token : Nat, covers : BOOLEAN, n : Nat, last : Nat, on : BOOLEAN]
    BY DEF TypeInv, Values, ZeroInv
  <1>4. hello.n \in Nat /\ hello.last \in Nat
    BY <1>3
  <1>5. MovingRows' \subseteq 1..stored'
    BY <1>1, <1>2, <1>3 DEF MoveInv
  <1>6. ASSUME NEW t \in MovingTales'
        PROVE  /\ t[1] \in 0..stored' /\ t[2] \in 0..stored'
               /\ t[2] = 0 => \A r \in MovingRows' : t[1] < r
    <2>1. t[1] \in 0..stored /\ t[2] \in 0..stored /\ (t[2] = 0 => \A r \in MovingRows : t[1] < r)
      BY <1>1, <1>6 DEF MoveInv
    <2>2. t[1] < stored + 1
      BY <1>3, <2>1
    <2> QED BY <1>1, <1>2, <1>3, <2>1, <2>2
  <1>7. lastRow' # 0
    BY <1>2, <1>3
  <1>8. /\ pump = "last" => hello.n <= stored + 1
        /\ pump = "level" /\ hello.covers =>
             /\ hello.n <= stored + 1 /\ hello.last <= stored + 1
             /\ hello.last = 0 => \A r \in MovingRows' : hello.n < r
    <2>1. pump = "level" /\ hello.covers => hello.n < stored + 1
      BY <1>3, <1>4 DEF MoveInv
    <2> QED BY <1>1, <1>3, <1>4, <2>1 DEF MoveInv
  <1> QED BY <1>2, <1>5, <1>6, <1>7, <1>8 DEF MoveInv

LEMMA MoveFinish ==
    ASSUME TypeInv, ZeroInv, MoveInv, FinishHello
    PROVE  MoveInv'
  <1> DEFINE told == <<hello.n, hello.last>>
  <1>1. /\ MovingRows' \subseteq MovingRows
        /\ MovingTales' \subseteq MovingTales \cup (IF hello.covers THEN {told} ELSE {})
    BY MovesRead
  <1>2. stored' = stored /\ lastRow' = lastRow /\ pump' = "idle" /\ pump = "level"
    BY DEF FinishHello, claudeVars
  <1>3. told[1] = hello.n /\ told[2] = hello.last
    OBVIOUS
  <1>4. /\ stored \in Nat /\ lastRow \in Nat /\ lastRow <= stored
        /\ hello \in [asked : Nat, token : Nat, covers : BOOLEAN, n : Nat, last : Nat, on : BOOLEAN]
    BY DEF TypeInv, Values, ZeroInv
  <1>5. hello.n \in Nat /\ hello.last \in Nat
    BY <1>4
  <1> HIDE DEF told
  <1>6. hello.covers => /\ told[1] \in 0..stored /\ told[2] \in 0..stored
                        /\ told[2] = 0 => \A r \in MovingRows : told[1] < r
                        /\ lastRow = 0 => told[2] = 0
    BY <1>2, <1>3, <1>4, <1>5 DEF MoveInv
  <1>7. \A t \in MovingTales' : t \in MovingTales \/ (hello.covers /\ t = told)
    BY <1>1
  <1> QED BY <1>1, <1>2, <1>6, <1>7 DEF MoveInv

LEMMA MoveStep ==
    ASSUME TypeInv, SteadyInv, MoveInv, [Next]_vars, ~Reload
    PROVE  MoveInv'
  <1>0. /\ ZeroInv /\ stored \in Nat /\ lastRow \in Nat
        /\ hello \in [asked : Nat, token : Nat, covers : BOOLEAN, n : Nat, last : Nat, on : BOOLEAN]
    BY DEF TypeInv, Values, SteadyInv
  <1>1. CASE StoreRow
    BY <1>0, <1>1, MoveStored
  <1>2. CASE FinishHello
    BY <1>0, <1>2, MoveFinish
  <1>3. CASE ~StoreRow /\ ~FinishHello
    <2>1. MovingRows' \subseteq MovingRows /\ MovingTales' \subseteq MovingTales
      BY <1>3, MovesStep
    <2>2. CASE ReadMessages
      <3>1. stored' = stored /\ lastRow' = lastRow /\ pump' = "last" /\ hello'.n = stored
        BY <1>0, <2>2 DEF ReadMessages, claudeVars
      <3> QED BY <1>0, <2>1, <3>1, MoveKept
    <2>3. CASE ReadLast
      <3>1. /\ stored' = stored /\ lastRow' = lastRow /\ pump = "last" /\ pump' = "level"
            /\ hello'.n = hello.n /\ hello'.last = lastRow
        BY <1>0, <2>3 DEF ReadLast, claudeVars
      <3>2. hello'.n <= stored /\ hello'.last <= lastRow /\ (hello'.last = 0 => MovingRows = {})
        BY <1>0, <3>1 DEF MoveInv
      <3> QED BY <2>1, <3>1, <3>2, MoveKept
    <2>4. CASE HelloAnswered
      <3>1. stored' = stored /\ lastRow' = lastRow /\ pump' # "last" /\ (pump' = "level" => ~hello'.covers)
        BY <1>0, <2>4 DEF HelloAnswered, claudeVars
      <3> QED BY <2>1, <3>1, MoveKept
    <2>5. CASE ~ReadMessages /\ ~ReadLast /\ ~HelloAnswered
      <3>1. /\ stored' = stored /\ lastRow' = lastRow
            /\ pump' \in {"last", "level"} => pump' = pump /\ hello' = hello
        <4>1. CASE WriteFile \/ StartTurn \/ EndTurn \/ SendLevel \/ Rename \/ PollRefused \/ Follow \/ Restart
                   \/ UNCHANGED vars
          BY <4>1 DEF WriteFile, StartTurn, EndTurn, SendLevel, Rename, PollRefused, Follow, Restart,
                      vars, modVars, claudeVars
        <4>2. CASE SendHello \/ HistoryFails \/ Flush \/ FlushAnswered \/ RequestDies \/ ReplyLost \/ GiveUp
          BY <4>2 DEF SendHello, HistoryFails, Flush, FlushAnswered, RequestDies, ReplyLost, GiveUp, RequestFails,
                      claudeVars
        <4>3. CASE \E c \in calls : ServeHello(c) \/ Admit(c) \/ BeginApply(c)
          BY <4>3 DEF ServeHello, Admit, BeginApply, modVars, claudeVars
        <4>4. CASE ApplyRow \/ ApplyTurn \/ ApplyHistory \/ Rebuild \/ EndApply
          BY <4>4 DEF ApplyRow, ApplyTurn, ApplyHistory, Rebuild, EndApply, modVars, claudeVars
        <4> QED BY <1>3, <2>5, <4>1, <4>2, <4>3, <4>4 DEF Next, Engine, Mod, Service, Fault
      <3>2. /\ pump' = "last" => hello'.n <= stored
            /\ pump' = "level" /\ hello'.covers =>
                 /\ hello'.n <= stored /\ hello'.last <= lastRow
                 /\ hello'.last = 0 => \A r \in MovingRows : hello'.n < r
        BY <3>1 DEF MoveInv
      <3> QED BY <2>1, <3>1, <3>2, MoveKept
    <2> QED BY <2>2, <2>3, <2>4, <2>5
  <1> QED BY <1>1, <1>2, <1>3

-----------------------------------------------------------------------------
\* A batch the connection takes, or will.
Taken(c) == c.at = "admitted" \/ (c.kind = "events" /\ c.token = connToken)

\* It names no row.
Bare(s) == RowsOf(s) = {} /\ \A t \in TalesOf(s) : t[2] = 0

\* A log that is owed its history gets it first, and one whose transcript is not
\* known gets no row.
Right(s) == (owed => HistoryFirst(s)) /\ (~path => Bare(s))

BatchInv == registered =>
    /\ \A c \in calls : Taken(c) => Right(c.batch)
    /\ applying.at # "free" => Right(applying.batch)

\* What the mod will send under the connection's token.
LeadInv == registered /\ connToken # 0 =>
    /\ pump = "hello" /\ reply # NoReply /\ reply.token = connToken =>
         (owed => reply.history) /\ (asks = hello.asked /\ ~path => Begun)
    /\ Greeted /\ hello.token = connToken =>
         (owed => hello.covers) /\ (asks = hello.asked /\ ~path => Begun)
    /\ token = connToken => (~path => Begun) /\ (owed /\ pump = "idle" => HistoryFirst(queue))
    /\ pump = "post" /\ hello.token = connToken /\ owed => HistoryFirst(posted) /\ reply.status # 200

AskInv == pump = "hello" /\ asks = hello.asked => \A c \in calls : c.waited /\ ~c.file => Begun

LEMMA LeadInit == Init => AskInv /\ BatchInv /\ LeadInv
  BY DEF Init, AskInv, BatchInv, LeadInv

\* What sets the flag of an untold transcript or stores a row.
LEMMA BegunKept ==
    ASSUME [Next]_vars, ~StoreRow, ~SendHello, ~Reload
    PROVE  stampOwed' = stampOwed /\ stored' = stored
  <1>1. CASE WriteFile \/ StartTurn \/ EndTurn \/ SendLevel \/ Rename \/ PollRefused \/ Follow \/ Restart
             \/ UNCHANGED vars
    BY <1>1 DEF WriteFile, StartTurn, EndTurn, SendLevel, Rename, PollRefused, Follow, Restart,
                vars, modVars, claudeVars
  <1>2. CASE HistoryFails \/ Flush \/ FlushAnswered \/ RequestDies \/ ReplyLost \/ GiveUp \/ HelloAnswered
             \/ ReadMessages \/ ReadLast \/ FinishHello
    BY <1>2 DEF HistoryFails, Flush, FlushAnswered, RequestDies, ReplyLost, GiveUp, RequestFails,
                HelloAnswered, ReadMessages, ReadLast, FinishHello, claudeVars
  <1>3. CASE \E c \in calls : ServeHello(c) \/ Admit(c) \/ BeginApply(c)
    BY <1>3 DEF ServeHello, Admit, BeginApply, modVars, claudeVars
  <1>4. CASE ApplyRow \/ ApplyTurn \/ ApplyHistory \/ Rebuild \/ EndApply
    BY <1>4 DEF ApplyRow, ApplyTurn, ApplyHistory, Rebuild, EndApply, modVars, claudeVars
  <1> QED BY <1>1, <1>2, <1>3, <1>4 DEF Next, Engine, Mod, Service, Fault

\* The first row of a session whose transcript was not there asks for a hello.
LEMMA BegunStored ==
    ASSUME TypeInv, TokenInv, Steady, StoreRow, Begun, asks' = hello.asked \/ token' # 0
    PROVE  FALSE
  <1>0. stored \in Nat
    BY DEF TypeInv, Values
  <1>1. fileRows' = stored + 1 /\ stampOwed
    BY DEF StoreRow, Steady, Begun
  <1>2. asks' = asks + 1 /\ token' = 0
    <2>1. fileRows' > 0
      BY <1>0, <1>1
    <2>2. stampOwed /\ fileRows' > 0 => Rehello
      BY DEF StoreRow
    <2> QED BY <1>1, <2>1, <2>2 DEF Rehello
  <1>3. hello.asked <= asks /\ hello.asked \in Nat /\ asks \in Nat
    BY NumbersIn DEF TokenInv, Numbers
  <1> QED BY <1>2, <1>3

LEMMA AskKept ==
    ASSUME AskInv, pump' = "hello" => pump = "hello", hello' = hello \/ pump' # "hello", asks' = asks, Begun => Begun',
           \A d \in calls' : d.waited => \E c \in calls : c.waited /\ c.file = d.file
    PROVE  AskInv'
  BY DEF AskInv

LEMMA AskStep ==
    ASSUME TypeInv, WaitInv, TokenInv, Steady, SteadyInv, AskInv, [Next]_vars, ~Reload
    PROVE  AskInv'
  <1>0. calls \subseteq Call /\ ZeroInv /\ Numbers
    BY NumbersIn DEF TypeInv, CallType, SteadyInv
  <1>1. CASE StoreRow
    <2> SUFFICES ASSUME pump' = "hello", asks' = hello'.asked, NEW c \in calls', c.waited, ~c.file PROVE FALSE
      BY DEF AskInv
    <2>1. pump' = pump /\ hello' = hello /\ calls' = calls
      BY <1>1 DEF StoreRow
    <2>2. asks = hello.asked
      <3>1. asks' = asks \/ asks' = asks + 1
        BY <1>1 DEF StoreRow, Rehello
      <3> QED BY <1>0, <2>1, <3>1 DEF TokenInv, Numbers
    <2>3. Begun
      BY <2>1, <2>2 DEF AskInv
    <2> QED BY <1>1, <2>1, <2>3, BegunStored
  <1>2. CASE SendHello
    <2>1. /\ calls' = calls \cup {HelloCall} /\ stampOwed' = (fileRows = 0) /\ stored' = stored
          /\ pump = "idle"
      BY <1>2 DEF SendHello, claudeVars
    <2>2. \A c \in calls : ~c.waited
      BY <2>1 DEF WaitInv, Waiting
    <2>3. fileRows > 0 => HelloCall.file
      BY DEF HelloCall
    <2>3a. stored \in Nat
      BY DEF TypeInv, Values
    <2>4. fileRows = stored /\ stored \in Nat
      BY <1>0, <2>3a DEF ZeroInv
    <2>5. ~HelloCall.file => Begun'
      <3>1. ~HelloCall.file => fileRows = 0
        BY <2>3, <2>4
      <3>2. fileRows = 0 => stampOwed'
        BY <2>1
      <3> QED BY <2>1, <2>4, <3>1, <3>2 DEF Begun
    <2> QED BY <2>1, <2>2, <2>5 DEF AskInv
  <1>3. CASE PollRefused \/ StartTurn
    <2>1. /\ pump' = pump /\ hello' = hello /\ calls' = calls /\ stampOwed' = stampOwed /\ stored' = stored
          /\ asks' = asks \/ asks' = asks + 1
      BY <1>3 DEF PollRefused, StartTurn, Rehello, claudeVars
    <2>2. asks' = hello.asked => asks = hello.asked
      BY <1>0, <2>1 DEF TokenInv, Numbers
    <2> QED BY <2>1, <2>2 DEF AskInv, Begun
  <1>4. CASE ~StoreRow /\ ~SendHello /\ ~PollRefused /\ ~StartTurn
    <2>1. Begun => Begun'
      BY <1>4, BegunKept DEF Begun
    <2>2. CASE WriteFile \/ EndTurn \/ SendLevel \/ Rename \/ Follow \/ Restart \/ UNCHANGED vars
      <3>1. pump' = pump /\ hello' = hello /\ asks' = asks /\ calls' \subseteq calls
        BY <2>2 DEF WriteFile, EndTurn, SendLevel, Rename, Follow, Restart, vars, modVars
      <3> QED BY <2>1, <3>1, AskKept
    <2>3. CASE HistoryFails \/ Flush \/ FlushAnswered \/ RequestDies \/ ReplyLost \/ GiveUp \/ HelloAnswered
               \/ ReadMessages \/ ReadLast \/ FinishHello
      <3>1. pump' # "hello"
        BY <2>3 DEF HistoryFails, Flush, FlushAnswered, RequestDies, ReplyLost, GiveUp, RequestFails,
                    HelloAnswered, ReadMessages, ReadLast, FinishHello
      <3> QED BY <3>1 DEF AskInv
    <2>4. ASSUME NEW c \in calls, ServeHello(c) \/ Admit(c) \/ BeginApply(c) PROVE AskInv'
      <3>1. /\ pump' = pump /\ hello' = hello /\ asks' = asks
            /\ calls' \subseteq calls \cup {[c EXCEPT !.at = "admitted"]}
        BY <2>4 DEF ServeHello, Admit, BeginApply, modVars
      <3>2. [c EXCEPT !.at = "admitted"].waited = c.waited /\ [c EXCEPT !.at = "admitted"].file = c.file
        BY <1>0 DEF Call
      <3> QED BY <2>1, <3>1, <3>2, AskKept
    <2>5. CASE ApplyRow \/ ApplyTurn \/ ApplyHistory \/ Rebuild \/ EndApply
      <3>1. pump' = pump /\ hello' = hello /\ asks' = asks /\ calls' = calls
        BY <2>5 DEF ApplyRow, ApplyTurn, ApplyHistory, Rebuild, EndApply, modVars
      <3> QED BY <2>1, <3>1, AskKept
    <2> QED BY <1>4, <2>2, <2>3, <2>4, <2>5 DEF Next, Engine, Mod, Service, Fault
  <1> QED BY <1>1, <1>2, <1>3, <1>4

\* A log whose transcript is not known can be sent no row: none is stored.
LEMMA BareBegun ==
    ASSUME TypeInv, MoveInv, Begun, NEW s \in Batches
    PROVE  Bare(s)
  <1>1. stored = 0
    BY DEF Begun
  <1>2. RowsOf(s) \subseteq MovingRows /\ TalesOf(s) \subseteq MovingTales
    BY OldBatch DEF Old
  <1>3. \A t \in MovingTales : t[2] \in 0..0
    BY <1>1 DEF MoveInv
  <1>4. MovingRows = {}
    <2>1. MovingRows \subseteq 1..0
      BY <1>1 DEF MoveInv
    <2> QED BY <2>1
  <1>5. RowsOf(s) = {}
    BY <1>2, <1>4
  <1>6. \A t \in TalesOf(s) : t[2] = 0
    BY <1>2, <1>3
  <1> QED BY <1>5, <1>6 DEF Bare

\* What leaves the mod's pump and session-events' token alone.
LEMMA LeadKept ==
    ASSUME TokenInv, Numbers, LeadInv,
           registered' = registered, connToken' = connToken, owed' => owed, path => path', Begun => Begun',
           asks' = asks \/ asks' = asks + 1, token' = token \/ token' = 0,
           pump' = pump, hello' = hello, posted' = posted, reply' = reply,
           owed /\ HistoryFirst(queue) => HistoryFirst(queue')
    PROVE  LeadInv'
  <1>1. asks' = hello.asked => asks = hello.asked
    BY DEF TokenInv, Numbers
  <1>2. Greeted' = Greeted
    BY DEF Greeted
  <1> QED BY <1>1, <1>2 DEF LeadInv

\* What the mod queues goes behind a history.
LEMMA LeadQueued ==
    ASSUME TypeInv, StoreRow \/ StartTurn \/ EndTurn \/ SendLevel, HistoryFirst(queue)
    PROVE  HistoryFirst(queue')
  <1>1. queue \in Seq(Event)
    BY DEF TypeInv, Values
  <1>2. CASE StoreRow
    <2>1. PICK prompt \in BOOLEAN :
            /\ Ev("row", stored + 1, 0, prompt) \in Event /\ ~Ev("row", stored + 1, 0, prompt).covered
            /\ queue' = Push(queue, Ev("row", stored + 1, 0, prompt))
      BY <1>2, Queued
    <2> QED BY <1>1, <2>1, PushFirst
  <1>3. CASE StartTurn \/ EndTurn
    BY <1>1, <1>3, Queued, PushFirst DEF StartTurn, EndTurn
  <1>4. CASE SendLevel
    BY <1>1, <1>4, Queued, PushFirst DEF SendLevel
  <1> QED BY <1>2, <1>3, <1>4

LEMMA LeadStored ==
    ASSUME TypeInv, TokenInv, Steady, LeadInv, StoreRow
    PROVE  LeadInv'
  <1> SUFFICES ASSUME registered', connToken' # 0 PROVE LeadInv'
    BY DEF LeadInv
  <1>0. Numbers
    BY NumbersIn
  <1>1. /\ registered' = registered /\ connToken' = connToken /\ owed' = owed /\ path' = path
        /\ pump' = pump /\ hello' = hello /\ posted' = posted /\ reply' = reply
        /\ asks' = asks \/ asks' = asks + 1
        /\ token' = token \/ token' = 0
    BY DEF StoreRow, Rehello, connVars
  <1>2. asks' = hello.asked => asks = hello.asked
    BY <1>0, <1>1 DEF TokenInv, Numbers
  <1>3. ~(Begun /\ (asks' = hello.asked \/ token' # 0))
    BY BegunStored
  <1>4. HistoryFirst(queue) => HistoryFirst(queue')
    BY LeadQueued
  <1>5. Greeted' = Greeted
    BY <1>1 DEF Greeted
  <1> QED BY <1>1, <1>2, <1>3, <1>4, <1>5 DEF LeadInv

LEMMA LeadBack ==
    ASSUME TypeInv, WaitInv, PumpInv, LeadInv, RequestFails, stored' = stored, pump \in {"hello", "post"}
    PROVE  LeadInv'
  <1> SUFFICES ASSUME registered', connToken' # 0 PROVE LeadInv'
    BY DEF LeadInv
  <1>1. /\ registered' = registered /\ connToken' = connToken /\ owed' = owed /\ path' = path
        /\ pump' = "idle" /\ token' = token /\ queue' = posted \o queue /\ stampOwed' = stampOwed
    BY DEF RequestFails, connVars
  <1>2. queue \in Seq(Event) /\ posted \in Seq(Event)
    BY DEF TypeInv, Values
  <1>3. ~Greeted'
    BY <1>1 DEF Greeted
  <1>4. ASSUME token = connToken PROVE (~path => Begun') /\ (owed => HistoryFirst(queue'))
    <2>1. ~path => Begun'
      BY <1>1, <1>4 DEF LeadInv, Begun
    <2>2. pump = "post" /\ hello.token = connToken
      BY <1>1, <1>4 DEF WaitInv, PumpInv
    <2>3. owed => HistoryFirst(posted)
      BY <1>1, <2>2 DEF LeadInv
    <2> QED BY <1>1, <1>2, <2>1, <2>3, HeadConcat
  <1> QED BY <1>1, <1>3, <1>4 DEF LeadInv

LEMMA LeadServed ==
    ASSUME TypeInv, WaitInv, TokenInv, ZeroInv, AskInv, NEW c \in calls, ServeHello(c)
    PROVE  LeadInv'
  <1>0. Numbers
    BY NumbersIn
  <1>1. /\ c.kind = "hello" /\ connToken' = tokens + 1 /\ token' = token /\ pump' = pump /\ hello' = hello
        /\ asks' = asks /\ posted' = posted /\ queue' = queue /\ stampOwed' = stampOwed /\ stored' = stored
        /\ Answer(c, [status |-> 200, token |-> tokens + 1, history |-> owed'])
    BY DEF ServeHello, modVars, claudeVars
  <1>2. token # connToken' /\ hello.token # connToken' /\ reply.token # connToken'
    BY <1>0, <1>1 DEF TokenInv, Numbers
  <1>3. ~path' => ~c.file
    BY DEF ServeHello, ZeroInv, Stamped
  <1>4. CASE c.waited
    <2>1. reply' = [status |-> 200, token |-> tokens + 1, history |-> owed']
      BY <1>1, <1>4 DEF Answer
    <2>2. pump = "hello" /\ asks = hello.asked /\ ~path' => Begun'
      BY <1>1, <1>3, <1>4 DEF AskInv, Begun
    <2>3. reply'.history = owed'
      BY <2>1
    <2> QED BY <1>1, <1>2, <2>2, <2>3 DEF LeadInv
  <1>5. CASE ~c.waited
    <2>1. reply' = reply
      BY <1>1, <1>5 DEF Answer
    <2> QED BY <1>1, <1>2, <2>1 DEF LeadInv
  <1> QED BY <1>4, <1>5

LEMMA LeadPump ==
    ASSUME TypeInv, WaitInv, TokenInv, SteadyInv, LeadInv, [Next]_vars,
           SendHello \/ HelloAnswered \/ ReadMessages \/ ReadLast \/ FinishHello \/ HistoryFails \/ Flush \/ FlushAnswered
    PROVE  LeadInv'
  <1> SUFFICES ASSUME registered', connToken' # 0 PROVE LeadInv'
    BY DEF LeadInv
  <1>0. queue \in Seq(Event) /\ posted \in Seq(Event) /\ Numbers /\ PumpInv
        /\ hello \in [asked : Nat, token : Nat, covers : BOOLEAN, n : Nat, last : Nat, on : BOOLEAN]
    BY NumbersIn DEF TypeInv, Values, SteadyInv
  <1>1. registered' = registered /\ connToken' = connToken /\ owed' = owed /\ path' = path
    BY DEF SendHello, HelloAnswered, ReadMessages, ReadLast, FinishHello, HistoryFails, Flush, FlushAnswered, connVars
  <1>2. ~SendHello => (Begun <=> Begun')
    <2>1. CASE HelloAnswered \/ ReadMessages \/ ReadLast \/ FinishHello
      BY <2>1 DEF HelloAnswered, ReadMessages, ReadLast, FinishHello, Begun, claudeVars
    <2>2. CASE HistoryFails \/ Flush \/ FlushAnswered
      BY <2>2 DEF HistoryFails, Flush, FlushAnswered, Begun, claudeVars
    <2> QED BY <2>1, <2>2
  <1>3. CASE SendHello
    <2>1. pump' = "hello" /\ token' = 0 /\ reply' = reply /\ pump = "idle"
      BY <1>3 DEF SendHello
    <2>2. reply = NoReply
      BY <2>1 DEF WaitInv
    <2> QED BY <1>1, <2>1, <2>2 DEF LeadInv, Greeted
  <1>4. CASE HelloAnswered
    <2>1. /\ pump = "hello" /\ reply # NoReply /\ asks' = asks /\ token' = token /\ token = 0
          /\ pump' \in {"idle", "messages", "level"}
      BY <1>4 DEF HelloAnswered, WaitInv
    <2>2. CASE asks # hello.asked
      <3>1. pump' = "idle"
        BY <1>4, <2>2 DEF HelloAnswered
      <3> QED BY <1>1, <2>1, <3>1 DEF LeadInv, Greeted
    <2>3. CASE asks = hello.asked
      <3>1. hello'.token = reply.token /\ hello'.covers = reply.history
        BY <1>0, <1>4, <2>3 DEF HelloAnswered
      <3> QED BY <1>1, <1>2, <1>4, <2>1, <2>3, <3>1 DEF LeadInv, Greeted, SendHello
    <2> QED BY <2>2, <2>3
  <1>5. CASE ReadMessages \/ ReadLast
    <2>1. /\ pump \in {"messages", "last"} /\ pump' \in {"last", "level"} /\ asks' = asks /\ token' = token /\ token = 0
          /\ hello'.token = hello.token /\ hello'.covers = hello.covers /\ hello'.asked = hello.asked
      BY <1>0, <1>5 DEF ReadMessages, ReadLast, WaitInv
    <2>2. Begun <=> Begun'
      BY <1>2, <1>5 DEF SendHello, ReadMessages, ReadLast
    <2> QED BY <1>1, <2>1, <2>2 DEF LeadInv, Greeted
  <1>6. CASE FinishHello
    <2>1. pump = "level" /\ pump' = "idle" /\ asks' = asks /\ token = 0
      BY <1>6 DEF FinishHello, WaitInv
    <2>2. CASE asks # hello.asked
      <3>1. token' = token
        BY <1>6, <2>2 DEF FinishHello
      <3> QED BY <1>1, <2>1, <3>1 DEF LeadInv, Greeted
    <2>3. CASE asks = hello.asked
      <3>1. token' = hello.token /\ (hello.covers => HistoryFirst(queue'))
        BY <1>6, <2>3, MovesRead DEF FinishHello
      <3>2. Begun <=> Begun'
        BY <1>2, <2>1 DEF SendHello
      <3> QED BY <1>1, <2>1, <2>3, <3>1, <3>2 DEF LeadInv, Greeted
    <2> QED BY <2>2, <2>3
  <1>7. CASE HistoryFails
    <2>1. pump \in {"messages", "last"} /\ pump' = "idle" /\ token' = token /\ token = 0
      BY <1>7 DEF HistoryFails, WaitInv
    <2> QED BY <1>1, <2>1 DEF LeadInv, Greeted
  <1>8. CASE Flush
    <2>1. pump = "idle" /\ pump' = "post" /\ posted' = queue /\ token' = token /\ hello'.token = token /\ reply' = reply
      BY <1>8 DEF Flush, NoHello
    <2>2. reply = NoReply /\ reply.status # 200
      BY <2>1 DEF WaitInv, NoReply
    <2>3. Begun <=> Begun'
      BY <1>2, <1>8, <2>1 DEF SendHello
    <2> QED BY <1>1, <2>1, <2>2, <2>3 DEF LeadInv, Greeted
  <1>9. CASE FlushAnswered
    <2>1. pump = "post" /\ pump' = "idle"
      BY <1>9 DEF FlushAnswered
    <2>2. CASE reply.status = 200
      <3>1. token' = token
        BY <1>9, <2>2 DEF FlushAnswered
      <3>2. token = connToken => hello.token = connToken
        BY <1>0, <1>1, <2>1 DEF PumpInv
      <3>3. Begun <=> Begun'
        BY <1>2, <2>1 DEF SendHello
      <3> QED BY <1>1, <2>1, <2>2, <3>1, <3>2, <3>3 DEF LeadInv, Greeted
    <2>3. CASE reply.status # 200
      <3>1. token' = 0
        BY <1>0, <1>9, <2>1, <2>3 DEF FlushAnswered, PumpInv
      <3> QED BY <1>1, <2>1, <3>1 DEF LeadInv, Greeted
    <2> QED BY <2>2, <2>3
  <1> QED BY <1>3, <1>4, <1>5, <1>6, <1>7, <1>8, <1>9

\* session-events, at a batch: what it answers, and what the log is owed.
LEMMA LeadApplied ==
    ASSUME TypeInv, WaitInv, TokenInv, SteadyInv, LeadInv, BatchInv, [Next]_vars,
           (\E c \in calls : Admit(c) \/ BeginApply(c)) \/ ApplyRow \/ ApplyTurn \/ ApplyHistory \/ Rebuild \/ EndApply
    PROVE  LeadInv'
  <1> SUFFICES ASSUME registered', connToken' # 0 PROVE LeadInv'
    BY DEF LeadInv
  <1>0. Numbers /\ ZeroInv /\ LetInInv /\ CallType
    BY NumbersIn DEF SteadyInv, TypeInv
  <1>1. /\ registered' = registered /\ connToken' = connToken /\ path' = path
        /\ owed' = owed \/ owed' = FALSE
    <2>1. CASE \E c \in calls : Admit(c) \/ BeginApply(c)
      BY <2>1 DEF Admit, BeginApply, connVars
    <2>2. CASE ApplyRow \/ ApplyTurn
      BY <2>2 DEF ApplyRow, ApplyTurn
    <2>3. CASE ApplyHistory
      BY <2>3 DEF ApplyHistory, connVars
    <2>4. CASE Rebuild
      BY <2>4 DEF Rebuild
    <2>5. CASE EndApply
      BY <1>0, <2>5 DEF EndApply, ZeroInv
    <2> QED BY <2>1, <2>2, <2>3, <2>4, <2>5
  <1>2. /\ asks' = asks /\ token' = token /\ pump' = pump /\ hello' = hello /\ posted' = posted /\ queue' = queue
        /\ Begun <=> Begun'
    <2>1. /\ asks' = asks /\ token' = token /\ pump' = pump /\ hello' = hello /\ posted' = posted /\ queue' = queue
          /\ stampOwed' = stampOwed /\ stored' = stored
      <3>1. CASE \E c \in calls : Admit(c) \/ BeginApply(c)
        BY <3>1 DEF Admit, BeginApply, modVars, claudeVars
      <3>2. CASE ApplyRow \/ ApplyTurn \/ ApplyHistory \/ Rebuild \/ EndApply
        BY <3>2 DEF ApplyRow, ApplyTurn, ApplyHistory, Rebuild, EndApply, modVars, claudeVars
      <3> QED BY <3>1, <3>2
    <2> QED BY <2>1 DEF Begun
  <1>3. CASE reply' = reply
    <2>1. owed' => owed
      BY <1>1
    <2>2. path => path'
      BY <1>1
    <2> QED BY <1>0, <1>1, <1>2, <1>3, <2>1, <2>2, LeadKept
  <1>4. ASSUME NEW c \in calls, Admit(c), reply' # reply PROVE LeadInv'
    <2>1. reply' = [status |-> 409, token |-> 0, history |-> FALSE]
      BY <1>4 DEF Admit, Answer
    <2>2. reply'.token = 0 /\ reply'.status # 200
      BY <2>1
    <2>3. Greeted' = Greeted
      BY <1>2 DEF Greeted
    <2> QED BY <1>1, <1>2, <2>2, <2>3 DEF LeadInv
  <1>5. CASE EndApply /\ reply' # reply
    <2>1. reply' = [status |-> 200, token |-> 0, history |-> FALSE] /\ owed' = owed
          /\ applying.at = "fold" /\ applying.batch = <<>>
      BY <1>5 DEF EndApply
    <2>2. reply'.token = 0
      BY <2>1
    <2>3. ~owed
      BY <1>1, <2>1 DEF BatchInv, Right, HistoryFirst
    <2>4. Greeted' = Greeted
      BY <1>2 DEF Greeted
    <2> QED BY <1>1, <1>2, <2>1, <2>2, <2>3, <2>4 DEF LeadInv
  <1>6. CASE ApplyRow \/ ApplyTurn \/ ApplyHistory \/ Rebuild \/ \E c \in calls : BeginApply(c)
    <2>1. reply' = reply
      BY <1>6 DEF ApplyRow, ApplyTurn, ApplyHistory, Rebuild, BeginApply
    <2> QED BY <1>3, <2>1
  <1> QED BY <1>3, <1>4, <1>5, <1>6

LEMMA LeadStep ==
    ASSUME TypeInv, WaitInv, TokenInv, Steady, SteadyInv, AskInv, LeadInv, BatchInv, [Next]_vars, ~Reload
    PROVE  LeadInv'
  <1>0. Numbers /\ ZeroInv /\ PumpInv
    BY NumbersIn DEF SteadyInv
  <1>1. CASE StoreRow
    BY <1>1, LeadStored
  <1>2. CASE WriteFile \/ StartTurn \/ EndTurn \/ SendLevel \/ Rename \/ PollRefused \/ UNCHANGED vars
    <2>1. /\ registered' = registered /\ connToken' = connToken /\ owed' = owed /\ path' = path
          /\ asks' = asks \/ asks' = asks + 1
          /\ token' = token \/ token' = 0
          /\ pump' = pump /\ hello' = hello /\ posted' = posted /\ reply' = reply
      BY <1>2 DEF WriteFile, StartTurn, EndTurn, SendLevel, Rename, PollRefused, Rehello, vars, modVars, connVars
    <2>2. Begun' <=> Begun
      <3>1. stored' = stored /\ stampOwed' = stampOwed
        <4>1. CASE WriteFile \/ StartTurn \/ EndTurn \/ SendLevel
          BY <4>1 DEF WriteFile, StartTurn, EndTurn, SendLevel, modVars, claudeVars
        <4>2. CASE Rename \/ PollRefused \/ UNCHANGED vars
          BY <4>2 DEF Rename, PollRefused, vars, modVars, claudeVars
        <4> QED BY <1>2, <4>1, <4>2
      <3> QED BY <3>1 DEF Begun
    <2>3. HistoryFirst(queue) => HistoryFirst(queue')
      <3>1. CASE WriteFile \/ Rename \/ PollRefused \/ UNCHANGED vars
        BY <3>1 DEF WriteFile, Rename, PollRefused, vars, modVars
      <3>2. CASE StartTurn \/ EndTurn \/ SendLevel
        BY <3>2, LeadQueued
      <3> QED BY <1>2, <3>1, <3>2
    <2> QED BY <1>0, <2>1, <2>2, <2>3, LeadKept
  <1>3. CASE SendHello \/ HelloAnswered \/ ReadMessages \/ ReadLast \/ FinishHello \/ HistoryFails \/ Flush \/ FlushAnswered
    BY <1>3, LeadPump
  <1>4. CASE RequestDies \/ ReplyLost \/ GiveUp
    <2>1. RequestFails /\ stored' = stored
      BY <1>4, BegunKept DEF RequestDies, ReplyLost, GiveUp, StoreRow, SendHello, RequestFails, Reload, claudeVars
    <2>2. pump \in {"hello", "post"}
      BY <1>4 DEF RequestDies, ReplyLost, GiveUp, WaitInv
    <2> QED BY <1>0, <2>1, <2>2, LeadBack
  <1>5. ASSUME NEW c \in calls, ServeHello(c) PROVE LeadInv'
    BY <1>0, <1>5, LeadServed
  <1>6. CASE (\E c \in calls : Admit(c) \/ BeginApply(c)) \/ ApplyRow \/ ApplyTurn \/ ApplyHistory \/ Rebuild \/ EndApply
    BY <1>6, LeadApplied
  <1>7. CASE Follow
    BY <1>0, <1>7 DEF Follow, ZeroInv
  <1>8. CASE Restart
    BY <1>8 DEF Restart, LeadInv
  <1> QED BY <1>1, <1>2, <1>3, <1>4, <1>5, <1>6, <1>7, <1>8 DEF Next, Engine, Mod, Service, Fault

-----------------------------------------------------------------------------
LEMMA BatchKept ==
    ASSUME BatchInv, registered' = registered, owed' => owed, path => path',
           \A d \in calls' : Taken(d)' => \E c \in calls : Taken(c) /\ d.batch = c.batch,
           applying'.at # "free" => applying.at # "free" /\ applying'.batch = applying.batch
    PROVE  BatchInv'
  <1> SUFFICES ASSUME registered' PROVE BatchInv'
    BY DEF BatchInv
  <1>1. \A s : Right(s) => (owed' => HistoryFirst(s)) /\ (~path' => Bare(s))
    BY DEF Right
  <1>2. ASSUME NEW d \in calls', Taken(d)' PROVE (owed' => HistoryFirst(d.batch)) /\ (~path' => Bare(d.batch))
    BY <1>1, <1>2 DEF BatchInv
  <1>3. applying'.at # "free" => (owed' => HistoryFirst(applying'.batch)) /\ (~path' => Bare(applying'.batch))
    BY <1>1 DEF BatchInv
  <1> QED BY <1>2, <1>3 DEF BatchInv, Right, Bare

\* The batch being applied loses its head.
LEMMA BatchApplied ==
    ASSUME TypeInv, LetInInv, BatchInv, ~owed', path' = path, calls' = calls, connToken' = connToken,
           applying.at # "free", applying.batch # <<>>, applying'.batch = Tail(applying.batch)
    PROVE  BatchInv'
  <1> SUFFICES ASSUME registered, ~path PROVE BatchInv'
    BY DEF BatchInv, LetInInv, Right, Taken
  <1>1. applying.batch \in Seq(Event)
    BY DEF TypeInv, ApplyType
  <1>2. Bare(applying.batch)
    BY DEF BatchInv, Right
  <1>3. Bare(applying'.batch)
    <2>1. RowsOf(Tail(applying.batch)) \subseteq RowsOf(applying.batch)
          /\ TalesOf(Tail(applying.batch)) \subseteq TalesOf(applying.batch)
      BY <1>1, OldAll, OldTail
    <2> QED BY <1>2, <2>1 DEF Bare
  <1>4. \A c \in calls : Taken(c) => Bare(c.batch)
    BY DEF BatchInv, Right
  <1> QED BY <1>3, <1>4 DEF BatchInv, Right, Taken, Bare

\* A row or an edge of the turn is never taken by a log that is owed its history.
LEMMA OwedFirst ==
    ASSUME TypeInv, LetInInv, BatchInv, applying.at # "free", owed
    PROVE  registered /\ applying.live /\ applying.batch # <<>> /\ Head(applying.batch).type = "history"
  <1>1. registered /\ applying.live /\ HistoryFirst(applying.batch) /\ applying.batch \in Seq(Event)
    BY DEF LetInInv, BatchInv, Right, TypeInv, ApplyType
  <1>2. applying.batch # <<>>
    BY <1>1 DEF HistoryFirst
  <1> QED BY <1>1, <1>2, OldAll, OldTail

LEMMA BatchFlush ==
    ASSUME TypeInv, MoveInv, LeadInv, BatchInv, Flush
    PROVE  BatchInv'
  <1> DEFINE e == EventsCall(queue)
  <1>1. /\ calls' = calls \cup {e} /\ applying' = applying /\ registered' = registered /\ connToken' = connToken
        /\ owed' = owed /\ path' = path /\ token # 0 /\ pump = "idle"
    BY DEF Flush, connVars
  <1>2. e.batch = queue /\ e.token = token /\ e.at = "sent"
    BY DEF EventsCall
  <1> HIDE DEF e
  <1>3. ASSUME registered, token = connToken PROVE Right(queue)
    <2>1. (owed => HistoryFirst(queue)) /\ (~path => Begun)
      BY <1>1, <1>3 DEF LeadInv
    <2>2. queue \in Batches
      BY DEF Batches
    <2>3. ~path => Bare(queue)
      BY <2>1, <2>2, BareBegun
    <2> QED BY <2>1, <2>3 DEF Right
  <1>4. registered => \A d \in calls' : Taken(d) => Right(d.batch)
    BY <1>1, <1>2, <1>3 DEF BatchInv, Taken
  <1> QED BY <1>1, <1>4 DEF BatchInv, Taken, Right, Bare

LEMMA BatchStep ==
    ASSUME Steady, TypeInv, WaitInv, TokenInv, SteadyInv, MoveInv, LeadInv, BatchInv, [Next]_vars, ~Reload
    PROVE  BatchInv'
  <1>0. ZeroInv /\ LetInInv /\ calls \subseteq Call /\ ApplyType /\ RebuildInv
    BY DEF SteadyInv, TypeInv, CallType
  <1>1. CASE StoreRow \/ WriteFile \/ StartTurn \/ EndTurn \/ SendLevel \/ PollRefused \/ HelloAnswered \/ ReadMessages
             \/ ReadLast \/ FinishHello \/ HistoryFails \/ FlushAnswered \/ RequestDies \/ ReplyLost \/ Rename
             \/ UNCHANGED vars
    <2>1. /\ calls' = calls /\ applying' = applying /\ registered' = registered /\ connToken' = connToken
          /\ owed' = owed /\ path' = path
      BY <1>1 DEF StoreRow, WriteFile, StartTurn, EndTurn, SendLevel, PollRefused, HelloAnswered, ReadMessages,
                  ReadLast, FinishHello, HistoryFails, FlushAnswered, RequestDies, ReplyLost, RequestFails, Rename,
                  vars, connVars
    <2> QED BY <2>1 DEF BatchInv, Taken, Right, Bare
  <1>2. CASE SendHello
    <2>1. /\ calls' = calls \cup {HelloCall} /\ applying' = applying /\ registered' = registered
          /\ connToken' = connToken /\ owed' = owed /\ path' = path
      BY <1>2 DEF SendHello, connVars
    <2>2. ~Taken(HelloCall)
      BY DEF HelloCall, Taken
    <2> QED BY <2>1, <2>2 DEF BatchInv, Taken, Right, Bare
  <1>3. CASE Flush
    BY <1>3, BatchFlush
  <1>4. CASE GiveUp
    <2>1. /\ calls' = {[c EXCEPT !.waited = FALSE] : c \in calls} /\ applying' = [applying EXCEPT !.waited = FALSE]
          /\ registered' = registered /\ connToken' = connToken /\ owed' = owed /\ path' = path
      BY <1>4 DEF GiveUp, RequestFails, connVars
    <2>2. \A c \in calls : LET d == [c EXCEPT !.waited = FALSE] IN
                             d.token = c.token /\ d.kind = c.kind /\ d.at = c.at /\ d.batch = c.batch
      BY <1>0 DEF Call
    <2>3. \A d \in calls' : \E c \in calls : d.token = c.token /\ d.kind = c.kind /\ d.at = c.at /\ d.batch = c.batch
      BY <2>1, <2>2
    <2>4. applying'.at = applying.at /\ applying'.batch = applying.batch
      BY <1>0, <2>1 DEF ApplyType
    <2>5. ASSUME NEW d \in calls', Taken(d)' PROVE \E c \in calls : Taken(c) /\ d.batch = c.batch
      BY <2>1, <2>3, <2>5 DEF Taken
    <2> QED BY <2>1, <2>4, <2>5, BatchKept
  <1>5. ASSUME NEW c \in calls, ServeHello(c) PROVE BatchInv'
    <2>1. calls' = calls \ {c} /\ connToken' = tokens + 1 /\ tokens \in Nat
      BY <1>5, NumbersIn DEF ServeHello, Numbers
    <2>2. \A d \in calls : d.token \in Nat /\ d.token <= tokens
      BY <1>0 DEF LetInInv, Call
    <2>3. \A d \in calls' : Taken(d)' => d.at = "admitted"
      <3>1. \A d \in calls : d.token # tokens + 1
        BY <2>1, <2>2
      <3> QED BY <2>1, <3>1 DEF Taken
    <2>4. CASE registered
      <3>1. registered' /\ owed' = owed /\ applying' = applying
        BY <1>0, <1>5, <2>4 DEF ServeHello, ZeroInv
      <3>2. path' = (path \/ c.file)
        BY <1>0, <1>5, <2>4 DEF ServeHello, ZeroInv, Stamped
      <3>3. ~path' => ~path
        BY <3>2
      <3>4. \A d \in calls' : Taken(d)' => d \in calls /\ Taken(d)
        BY <2>1, <2>3 DEF Taken
      <3>5. \A s : Right(s) => (owed' => HistoryFirst(s)) /\ (~path' => Bare(s))
        BY <3>1, <3>3 DEF Right
      <3>6. \A d \in calls' : Taken(d)' => (owed' => HistoryFirst(d.batch)) /\ (~path' => Bare(d.batch))
        BY <2>4, <3>4, <3>5 DEF BatchInv
      <3>7. applying'.at # "free" => (owed' => HistoryFirst(applying'.batch)) /\ (~path' => Bare(applying'.batch))
        BY <2>4, <3>1, <3>5 DEF BatchInv
      <3> QED BY <3>6, <3>7 DEF BatchInv, Right, Bare
    <2>5. CASE ~registered
      <3>1. \A d \in calls' : ~Taken(d)'
        BY <1>0, <2>1, <2>3, <2>5 DEF LetInInv
      <3>2. applying.at = "free" /\ (applying' = applying \/ applying' = [applying EXCEPT !.live = FALSE])
        BY <1>0, <1>5, <2>5 DEF ServeHello, LetInInv
      <3>3. applying'.at = "free"
        BY <1>0, <3>2 DEF ApplyType
      <3> QED BY <3>1, <3>3 DEF BatchInv
    <2> QED BY <2>4, <2>5
  <1>6. ASSUME NEW c \in calls, Admit(c) PROVE BatchInv'
    <2>1. /\ applying' = applying /\ registered' = registered /\ connToken' = connToken /\ owed' = owed /\ path' = path
          /\ c.kind = "events"
      BY <1>6 DEF Admit, connVars
    <2>2. ASSUME NEW d \in calls', Taken(d)' PROVE \E b \in calls : Taken(b) /\ d.batch = b.batch
      <3>1. CASE d \in calls
        BY <2>1, <2>2, <3>1 DEF Taken
      <3>2. CASE d \notin calls
        <4>1. d = [c EXCEPT !.at = "admitted"] /\ c.token = connToken
          BY <1>6, <3>2 DEF Admit
        <4>2. d.batch = c.batch
          BY <1>0, <4>1 DEF Call
        <4> QED BY <2>1, <4>1, <4>2 DEF Taken
      <3> QED BY <3>1, <3>2
    <2> QED BY <2>1, <2>2, BatchKept
  <1>7. ASSUME NEW c \in calls, BeginApply(c) PROVE BatchInv'
    <2>1. /\ applying'.batch = c.batch /\ calls' \subseteq calls /\ c.at = "admitted" /\ registered' = registered
          /\ connToken' = connToken /\ owed' = owed /\ path' = path
      BY <1>7 DEF BeginApply, connVars
    <2>2. Taken(c)
      BY <2>1 DEF Taken
    <2> QED BY <2>1, <2>2 DEF BatchInv, Taken, Right, Bare
  <1>8. CASE ApplyRow \/ ApplyTurn \/ ApplyHistory \/ Rebuild
    <2>1. /\ calls' = calls /\ registered' = registered /\ connToken' = connToken /\ path' = path
          /\ applying.at # "free" /\ applying.batch # <<>>
      <3>1. CASE ApplyRow \/ ApplyTurn \/ ApplyHistory
        BY <3>1 DEF ApplyRow, ApplyTurn, ApplyHistory, TakeEvent, connVars
      <3>2. CASE Rebuild
        BY <1>0, <3>2 DEF Rebuild, RebuildInv
      <3> QED BY <1>8, <3>1, <3>2
    <2>2. CASE ApplyRow \/ ApplyTurn
      <3>1. owed' = owed /\ applying'.batch = Tail(applying.batch) /\ Head(applying.batch).type # "history"
        BY <1>0, <2>2 DEF ApplyRow, ApplyTurn, TakeEvent, ApplyType
      <3>2. ~owed'
        BY <1>0, <2>1, <3>1, OwedFirst
      <3> QED BY <1>0, <2>1, <3>1, <3>2, BatchApplied
    <2>3. CASE ApplyHistory /\ owed
      <3>1. owed' = owed /\ applying'.batch = applying.batch
        BY <1>0, <2>3 DEF ApplyHistory, ApplyType, connVars
      <3>2. \A d \in calls' : Taken(d)' => d \in calls /\ Taken(d)
        BY <2>1 DEF Taken
      <3> QED BY <2>1, <3>1, <3>2, BatchKept
    <2>4. CASE ApplyHistory /\ ~owed
      <3>1. ~owed' /\ applying'.batch = Tail(applying.batch)
        BY <1>0, <2>4 DEF ApplyHistory, ApplyType, connVars
      <3> QED BY <1>0, <2>1, <3>1, BatchApplied
    <2>5. CASE Rebuild
      <3>1. ~owed' /\ applying'.batch = Tail(applying.batch)
        BY <1>0, <2>5 DEF Rebuild, ApplyType
      <3> QED BY <1>0, <2>1, <3>1, BatchApplied
    <2> QED BY <1>8, <2>2, <2>3, <2>4, <2>5
  <1>9. CASE EndApply
    <2>1. /\ calls' = calls /\ registered' = registered /\ connToken' = connToken /\ path' = path /\ owed' = owed
          /\ applying' = NoApply
      BY <1>0, <1>9 DEF EndApply, ZeroInv
    <2>2. applying'.at = "free"
      BY <2>1 DEF NoApply
    <2> QED BY <2>1, <2>2 DEF BatchInv, Taken, Right, Bare
  <1>10. CASE Follow
    BY <1>0, <1>10 DEF Follow, ZeroInv
  <1>11. CASE Restart
    BY <1>11 DEF Restart, BatchInv
  <1> QED BY <1>1, <1>2, <1>3, <1>4, <1>5, <1>6, <1>7, <1>8, <1>9, <1>10, <1>11 DEF Next, Engine, Mod, Service, Fault

-----------------------------------------------------------------------------
\* No row in the log is one of those on their way, unless it is known to be there.
DrawnInv ==
    /\ \A i \in DOMAIN log : log[i] \in 1..stored /\ (log[i] \in MovingRows => log[i] \in logRows)
    /\ \A i, j \in DOMAIN log : i # j => log[i] # log[j]
    /\ owed \/ ~registered => log = <<>>

LEMMA DrawnKept ==
    ASSUME DrawnInv, log' = log, logRows' = logRows, owed' => owed, registered => registered', stored' = stored,
           MovingRows' \subseteq MovingRows
    PROVE  DrawnInv'
  BY DEF DrawnInv

LEMMA DrawnNone ==
    ASSUME log' = <<>>
    PROVE  DrawnInv'
  BY DEF DrawnInv

LEMMA DrawnRow ==
    ASSUME TypeInv, SteadyInv, MoveInv, BatchInv, DrawnInv, MovingRows' \subseteq MovingRows, ApplyRow
    PROVE  DrawnInv'
  <1> DEFINE row == Head(applying.batch)
  <1>0. LetInInv /\ log \in Seq(Nat) /\ applying.batch \in Seq(Event) /\ stored \in Nat
    BY DEF SteadyInv, TypeInv, Values, ApplyType
  <1>1. /\ applying.at # "free" /\ applying.batch # <<>> /\ row.type = "row"
        /\ registered' = registered /\ owed' = owed /\ stored' = stored
    BY DEF ApplyRow, TakeEvent, claudeVars
  <1>2. registered /\ ~owed
    BY <1>0, <1>1, OwedFirst DEF LetInInv
  <1>3. row.n \in MovingRows /\ row.n \in 1..stored
    <2>1. row.n \in RowsOf(applying.batch) /\ RowsOf(applying.batch) \subseteq MovingRows
      BY <1>0, <1>1, OldAll, OldTail DEF Old
    <2> QED BY <2>1 DEF MoveInv
  <1>4. \/ log' = log /\ logRows' = logRows
        \/ log' = Append(log, row.n) /\ logRows' = logRows \cup {row.n} /\ row.n \notin logRows
    BY DEF ApplyRow
  <1> HIDE DEF row
  <1>5. CASE log' = log /\ logRows' = logRows
    BY <1>1, <1>5, DrawnKept
  <1>6. CASE log' = Append(log, row.n) /\ logRows' = logRows \cup {row.n} /\ row.n \notin logRows
    <2>1. \A i \in DOMAIN log : log[i] # row.n
      BY <1>3, <1>6 DEF DrawnInv
    <2>2. /\ DOMAIN log' = 1..Len(log) + 1 /\ DOMAIN log = 1..Len(log) /\ Len(log) \in Nat
          /\ \A i \in 1..Len(log) : log'[i] = log[i]
          /\ log'[Len(log) + 1] = row.n
      <3>1. row.n \in Nat
        BY <1>0, <1>3
      <3> QED BY <1>0, <1>6, <3>1, LenProperties, AppendProperties
    <2>3. \A i \in DOMAIN log' : i \in DOMAIN log \/ i = Len(log) + 1
      BY <2>2
    <2>4. \A i \in DOMAIN log' : log'[i] \in 1..stored' /\ (log'[i] \in MovingRows' => log'[i] \in logRows')
      BY <1>1, <1>3, <1>6, <2>2, <2>3 DEF DrawnInv
    <2>5. \A i, j \in DOMAIN log' : i # j => log'[i] # log'[j]
      BY <2>1, <2>2, <2>3 DEF DrawnInv
    <2> QED BY <1>1, <1>2, <2>4, <2>5 DEF DrawnInv
  <1> QED BY <1>4, <1>5, <1>6

LEMMA DrawnRebuilt ==
    ASSUME TypeInv, SteadyInv, MoveInv, BatchInv, DrawnInv, MovingRows' \subseteq MovingRows, Rebuild
    PROVE  DrawnInv'
  <1> DEFINE h == Head(applying.batch)
             byFile == path /\ (IF h.last > 0 THEN fileRows >= h.last ELSE ~h.on /\ fileRows > 0)
             upTo == IF h.last > 0 THEN h.last ELSE fileRows
             n == IF byFile THEN upTo ELSE h.n
  <1>0. ZeroInv /\ LetInInv /\ log \in Seq(Nat) /\ applying.batch \in Seq(Event) /\ stored \in Nat
        /\ applying.at = "rebuild"
    BY DEF SteadyInv, TypeInv, Values, ApplyType, Rebuild
  <1>1. registered /\ owed /\ applying.live
    BY <1>0 DEF LetInInv
  <1>2. applying.batch # <<>> /\ h.type = "history" /\ h \in Event
    BY <1>0, <1>1, OwedFirst, OldAll, OldTail
  <1>3. registered' = registered /\ ~owed' /\ stored' = stored /\ log = <<>>
    BY <1>1 DEF Rebuild, DrawnInv, claudeVars
  <1>4. log' = log \o Rows(n) /\ (byFile => logRows' = logRows \cup 1..n)
    <2>1. CASE byFile
      BY <1>1, <2>1 DEF Rebuild
    <2>2. CASE ~byFile
      BY <1>1, <2>2 DEF Rebuild
    <2> QED BY <2>1, <2>2
  <1>5. <<h.n, h.last>> \in TalesOf(applying.batch) /\ TalesOf(applying.batch) \subseteq MovingTales
    BY <1>0, <1>2, OldAll, OldTail DEF Old
  <1>6. <<h.n, h.last>>[1] = h.n /\ <<h.n, h.last>>[2] = h.last
    OBVIOUS
  <1>7. /\ h.n \in 0..stored /\ h.last \in 0..stored
        /\ h.last = 0 => \A r \in MovingRows : h.n < r
    BY <1>5, <1>6 DEF MoveInv
  <1>8. ~path => h.last = 0
    <2>1. ~path => \A t \in TalesOf(applying.batch) : t[2] = 0
      BY <1>0, <1>1 DEF BatchInv, Right, Bare
    <2> QED BY <1>5, <1>6, <2>1
  <1>9. fileRows = stored
    BY <1>0 DEF ZeroInv
  <1>10. ~byFile => h.last = 0
    BY <1>0, <1>7, <1>8, <1>9
  <1>11. n \in 0..stored
    BY <1>0, <1>7, <1>9
  <1> HIDE DEF h
  <1>12. ~byFile => \A r \in MovingRows : n < r
    BY <1>7, <1>10
  <1> HIDE DEF byFile, n, upTo
  <1>13. log' = Rows(n)
    <2>1. Rows(n) \in Seq(Nat)
      BY <1>0, <1>11 DEF Rows
    <2> QED BY <1>3, <1>4, <2>1, ConcatEmptySeq
  <1>14. DOMAIN log' = 1..n /\ \A i \in 1..n : log'[i] = i
    BY <1>13 DEF Rows
  <1>15. MovingRows \subseteq 1..stored
    BY DEF MoveInv
  <1>16. \A i \in DOMAIN log' : log'[i] \in 1..stored' /\ (log'[i] \in MovingRows' => log'[i] \in logRows')
    <2> SUFFICES ASSUME NEW i \in 1..n PROVE i \in 1..stored /\ (i \in MovingRows => i \in logRows')
      BY <1>3, <1>14
    <2>1. i \in 1..stored
      BY <1>0, <1>11
    <2>2. byFile => i \in logRows'
      BY <1>4
    <2>3. i \in MovingRows => byFile
      BY <1>0, <1>11, <1>12
    <2> QED BY <2>1, <2>2, <2>3
  <1>17. \A i, j \in DOMAIN log' : i # j => log'[i] # log'[j]
    BY <1>14
  <1> QED BY <1>1, <1>3, <1>16, <1>17 DEF DrawnInv

LEMMA DrawnStep ==
    ASSUME Steady, TypeInv, SteadyInv, MoveInv, BatchInv, DrawnInv, [Next]_vars, ~Reload
    PROVE  DrawnInv'
  <1>0. ZeroInv /\ stored \in Nat
    BY DEF SteadyInv, TypeInv, Values
  <1>1. CASE StoreRow
    <2>1. stored' = stored + 1 /\ UNCHANGED connVars
      BY <1>1 DEF StoreRow
    <2>2. log' = log /\ logRows' = logRows /\ owed' = owed /\ registered' = registered
      BY <2>1 DEF connVars
    <2>3. MovingRows' \subseteq MovingRows \cup {stored + 1}
      BY <1>1, MovesStored
    <2>4. \A i \in DOMAIN log : log[i] \in 1..stored' /\ log[i] # stored + 1
      BY <1>0, <2>1 DEF DrawnInv
    <2>5. \A i \in DOMAIN log : log[i] \in MovingRows' => log[i] \in logRows
      BY <2>3, <2>4 DEF DrawnInv
    <2> QED BY <2>2, <2>4, <2>5 DEF DrawnInv
  <1>2. ~StoreRow => MovingRows' \subseteq MovingRows
    BY MovesStep, MovesRead
  <1>3. CASE WriteFile \/ StartTurn \/ EndTurn \/ SendLevel \/ Rename \/ PollRefused \/ UNCHANGED vars
             \/ SendHello \/ HelloAnswered \/ ReadMessages \/ ReadLast \/ HistoryFails \/ FinishHello \/ Flush
             \/ FlushAnswered \/ RequestDies \/ ReplyLost \/ GiveUp
    <2>1. log' = log /\ logRows' = logRows /\ owed' = owed /\ registered' = registered
      BY <1>3 DEF WriteFile, StartTurn, EndTurn, SendLevel, Rename, PollRefused, vars, SendHello, HelloAnswered,
                  ReadMessages, ReadLast, HistoryFails, FinishHello, Flush, FlushAnswered, RequestDies, ReplyLost,
                  GiveUp, RequestFails, connVars
    <2>2. ~StoreRow => stored' = stored
      BY <1>3 DEF WriteFile, StartTurn, EndTurn, SendLevel, Rename, PollRefused, vars, SendHello, HelloAnswered,
                  ReadMessages, ReadLast, HistoryFails, FinishHello, Flush, FlushAnswered, RequestDies, ReplyLost,
                  GiveUp, RequestFails, claudeVars
    <2> QED BY <1>1, <1>2, <2>1, <2>2, DrawnKept
  <1>4. ASSUME NEW c \in calls, ServeHello(c) PROVE DrawnInv'
    <2>1. CASE registered
      <3>1. log' = log /\ logRows' = logRows /\ owed' = owed /\ registered' /\ stored' = stored
        BY <1>0, <1>4, <2>1 DEF ServeHello, ZeroInv, claudeVars
      <3>2. ~StoreRow
        BY <1>0, <3>1 DEF StoreRow
      <3> QED BY <1>2, <3>1, <3>2, DrawnKept
    <2>2. CASE ~registered
      BY <1>4, <2>2, DrawnNone DEF ServeHello
    <2> QED BY <2>1, <2>2
  <1>5. CASE (\E c \in calls : Admit(c) \/ BeginApply(c)) \/ ApplyTurn \/ ApplyHistory \/ EndApply
    <2>1. log' = log /\ logRows' = logRows /\ owed' = owed /\ registered' = registered /\ stored' = stored
      BY <1>5 DEF Admit, BeginApply, ApplyTurn, ApplyHistory, EndApply, connVars, claudeVars
    <2>2. ~StoreRow
      BY <1>0, <2>1 DEF StoreRow
    <2> QED BY <1>2, <2>1, <2>2, DrawnKept
  <1>6. CASE ApplyRow \/ Rebuild
    <2>1. stored' = stored
      BY <1>6 DEF ApplyRow, Rebuild, claudeVars
    <2>2. ~StoreRow
      BY <1>0, <2>1 DEF StoreRow
    <2> QED BY <1>2, <1>6, <2>2, DrawnRow, DrawnRebuilt
  <1>7. CASE Follow
    BY <1>0, <1>7 DEF Follow, ZeroInv
  <1>8. CASE Restart
    BY <1>8, DrawnNone DEF Restart
  <1> QED BY <1>1, <1>3, <1>4, <1>5, <1>6, <1>7, <1>8 DEF Next, Engine, Mod, Service, Fault

-----------------------------------------------------------------------------
OnceInv ==
    /\ TypeInv /\ WaitInv /\ TokenInv /\ NameInv
    /\ Steady => SteadyInv /\ MoveInv /\ AskInv /\ LeadInv /\ BatchInv /\ DrawnInv

NeverTwice == Steady => \A i, j \in DOMAIN log : i # j => log[i] # log[j]

\* However many of the mod's requests outlive its wait, are resent beside the first
\* copy, or are lost, and however often session-events restarts: while the mod's module
\* and the session's name stay what they are and the transcript keeps up, no row of the
\* conversation is drawn twice (rebuildLog, apply on a history, feedRow).
THEOREM RowsDrawnOnce == Spec => []NeverTwice
  <1>1. Init => OnceInv
    <2>1. Init => DrawnInv
      BY DEF Init, DrawnInv
    <2> QED BY <2>1, TypeInit, WaitInit, NameInit, SteadyInit, MoveInit, LeadInit DEF OnceInv
  <1>2. OnceInv /\ [Next]_vars => OnceInv'
    <2> SUFFICES ASSUME OnceInv, [Next]_vars PROVE OnceInv'
      OBVIOUS
    <2>1. TypeInv' /\ WaitInv'
      BY TypeStep, WaitStep DEF OnceInv
    <2>2. TokenInv' /\ NameInv'
      BY NameStep DEF OnceInv
    <2>3. ASSUME Steady
          PROVE  SteadyInv' /\ MoveInv' /\ AskInv' /\ LeadInv' /\ BatchInv' /\ DrawnInv'
      <3>1. TypeInv /\ WaitInv /\ TokenInv /\ SteadyInv /\ MoveInv /\ AskInv /\ LeadInv /\ BatchInv /\ DrawnInv
        BY <2>3 DEF OnceInv
      <3>2. SteadyInv' /\ ~Reload
        BY <2>3, <3>1, SteadyStep
      <3>3. MoveInv'
        BY <3>1, <3>2, MoveStep
      <3>4. AskInv'
        BY <2>3, <3>1, <3>2, AskStep
      <3>5. LeadInv'
        BY <2>3, <3>1, <3>2, LeadStep
      <3>6. BatchInv'
        BY <2>3, <3>1, <3>2, BatchStep
      <3>7. DrawnInv'
        BY <2>3, <3>1, <3>2, DrawnStep
      <3> QED BY <3>2, <3>3, <3>4, <3>5, <3>6, <3>7
    <2>4. Steady' <=> Steady
      BY ScopeStep DEF Steady
    <2> QED BY <2>1, <2>2, <2>3, <2>4 DEF OnceInv
  <1>3. OnceInv => NeverTwice
    BY DEF OnceInv, NeverTwice, DrawnInv
  <1> QED BY <1>1, <1>2, <1>3, PTL DEF Spec

=============================================================================
