------------------------- MODULE DecisionStep_proofs -------------------------
(***************************************************************************)
(* Proofs about DecisionStep, for every set of employees, every definition *)
(* of a step, every answer of the directory and every number of rounds.    *)
(* The lists are compared position by position once (Spliced, Restated),   *)
(* and the rest is said of their sets of positions and how many they are.  *)
(***************************************************************************)
EXTENDS DecisionStepInductive, LeastNumber, SequenceTheorems, FiniteSetTheorems

Lists == Seq(Entries)
USE DEF Lists
LiveStates == EntryStates \ DeadStates

-----------------------------------------------------------------------------
(* Positions and how many they are.                                         *)

\* The least of some numbers is one of them.
LEMMA MinIs ==
    ASSUME NEW S \in SUBSET Nat, S # {}
    PROVE  Min(S) \in S /\ \A m \in S : Min(S) <= m
  <1>1. \E n \in S : \A m \in S : n <= m
    BY LeastNat
  <1> QED BY <1>1 DEF Min

\* The states, spelt out.
LEMMA StateNames ==
    /\ DecidedStates = {"approved", "remarks", "rejected", "signed", "refused",
                        "acknowledged", "registered"}
    /\ LiveStates = OpenStates \cup DecidedStates \cup {"carried"}
    /\ OpenStates \cap DeadStates = {} /\ OpenStates \cap ApprovedStates = {}
  <1>1. DOMAIN DecisionsOf = {"approval", "sign", "acknowledge", "register"}
    BY DEF DecisionsOf
  <1>2. DecidedStates = UNION {DecisionsOf["approval"], DecisionsOf["sign"],
                               DecisionsOf["acknowledge"], DecisionsOf["register"]}
    BY <1>1 DEF DecidedStates
  <1>3. DecidedStates = {"approved", "remarks", "rejected", "signed", "refused",
                         "acknowledged", "registered"}
    BY <1>2 DEF DecisionsOf
  <1> QED BY <1>3 DEF LiveStates, EntryStates, OpenStates, DeadStates, ApprovedStates

\* A list is a function of its positions, which are finitely many numbers.
LEMMA ListIs ==
    ASSUME NEW s \in Lists
    PROVE  /\ Len(s) \in Nat /\ DOMAIN s = 1..Len(s) /\ IsFiniteSet(DOMAIN s)
           /\ s \in [DOMAIN s -> Entries]
  <1>1. Len(s) \in Nat /\ DOMAIN s = 1..Len(s) /\ s \in [1..Len(s) -> Entries]
    BY LenProperties
  <1>2. IsFiniteSet(1..Len(s))
    BY <1>1, FS_Interval
  <1> QED BY <1>1, <1>2

\* The positions with one of some states are finitely many numbers.
LEMMA WithinIs ==
    ASSUME NEW s \in Lists, NEW states
    PROVE  /\ Within(s, states) \in SUBSET (DOMAIN s) /\ Within(s, states) \in SUBSET Nat
           /\ IsFiniteSet(Within(s, states))
           /\ Cardinality(Within(s, states)) \in Nat
           /\ Cardinality(Within(s, states)) = 0 <=> Within(s, states) = {}
  <1>1. Within(s, states) \in SUBSET (DOMAIN s)
    BY DEF Within
  <1>2. DOMAIN s \subseteq Nat /\ IsFiniteSet(DOMAIN s)
    BY ListIs
  <1>3. IsFiniteSet(Within(s, states))
    BY <1>1, <1>2, FS_Subset
  <1> QED BY <1>1, <1>2, <1>3, FS_CardinalityType, FS_EmptySet

\* The live positions are those within the live states.
LEMMA LiveIs ==
    ASSUME NEW s \in Lists
    PROVE  Live(s) = Within(s, LiveStates)
  <1>1. \A i \in DOMAIN s : s[i].state \in EntryStates
    BY ListIs DEF Entries
  <1> QED BY <1>1 DEF Live, Within, LiveStates

\* What the counting of a step reads of a list.
LEMMA CountsAre ==
    ASSUME NEW s \in Lists
    PROVE  /\ Approvals(s) \in Nat /\ Cardinality(Open(s)) \in Nat
           /\ Cardinality(Live(s)) \in Nat
           /\ Cardinality(Live(s)) = 0 <=> Live(s) = {}
           /\ Cardinality(Open(s)) = 0 <=> Open(s) = {}
           /\ step \in Steps =>
                /\ Needed(s) \in Nat
                /\ Needed(s) = IF \/ step.quorum = All
                                  \/ Cardinality(Live(s)) <= step.quorum
                               THEN Cardinality(Live(s)) ELSE step.quorum
  <1>1. /\ Approvals(s) \in Nat /\ Cardinality(Open(s)) \in Nat
        /\ Cardinality(Live(s)) \in Nat
        /\ Cardinality(Live(s)) = 0 <=> Live(s) = {}
        /\ Cardinality(Open(s)) = 0 <=> Open(s) = {}
    BY WithinIs, LiveIs DEF Approvals, Open
  <1>2. ASSUME step \in Steps
        PROVE  Needed(s) = IF \/ step.quorum = All
                              \/ Cardinality(Live(s)) <= step.quorum
                           THEN Cardinality(Live(s)) ELSE step.quorum
    <2>1. step.quorum \in Nat
      BY <1>2, StepsAssumption
    <2>2. \A a, b \in Nat : Min({a, b}) = IF b <= a THEN b ELSE a
      <3>1. ASSUME NEW a \in Nat, NEW b \in Nat PROVE Min({a, b}) = IF b <= a THEN b ELSE a
        <4> DEFINE S == {a, b}
        <4>1. Min(S) \in S /\ \A m \in S : Min(S) <= m
          <5>1. S \in SUBSET Nat /\ S # {}
            OBVIOUS
          <5> HIDE DEF S
          <5> QED BY <5>1, MinIs
        <4> QED BY <4>1
      <3> QED BY <3>1
    <2> QED BY <1>1, <2>1, <2>2 DEF Needed
  <1>3. step \in Steps => step.quorum \in Nat
    BY StepsAssumption
  <1> QED BY <1>1, <1>2, <1>3

-----------------------------------------------------------------------------
(* Lists into which others are put.                                         *)

\* The list t is s with the entries of new put in somewhere: every entry of
\* either has a place of its own in t, and t has no others.
Spliced(s, new, t) ==
    \E place \in [DOMAIN s -> DOMAIN t], seat \in [DOMAIN new -> DOMAIN t] :
        /\ \A i, j \in DOMAIN s : place[i] = place[j] => i = j
        /\ \A i, j \in DOMAIN new : seat[i] = seat[j] => i = j
        /\ \A i \in DOMAIN s, j \in DOMAIN new : place[i] # seat[j]
        /\ \A k \in DOMAIN t : \/ \E i \in DOMAIN s : k = place[i]
                               \/ \E j \in DOMAIN new : k = seat[j]
        /\ \A i \in DOMAIN s : t[place[i]] = s[i]
        /\ \A j \in DOMAIN new : t[seat[j]] = new[j]

\* When all of s, with all of new behind its first k, makes up t.
LEMMA PlacesBehind ==
    ASSUME NEW n \in Nat, NEW m \in Nat, NEW k \in 0..n, NEW s, NEW new, NEW t,
           DOMAIN s = 1..n, DOMAIN new = 1..m, DOMAIN t = 1..(n + m),
           \A i \in 1..k : t[i] = s[i],
           \A j \in 1..m : t[k + j] = new[j],
           \A i \in (k + 1)..n : t[m + i] = s[i]
    PROVE  Spliced(s, new, t)
  <1> DEFINE place == [i \in 1..n |-> IF i <= k THEN i ELSE m + i]
             seat == [j \in 1..m |-> k + j]
  <1>1. /\ place \in [1..n -> 1..(n + m)] /\ seat \in [1..m -> 1..(n + m)]
        /\ \A i, j \in 1..n : place[i] = place[j] => i = j
        /\ \A i, j \in 1..m : seat[i] = seat[j] => i = j
        /\ \A i \in 1..n, j \in 1..m : place[i] # seat[j]
    OBVIOUS
  <1>2. ASSUME NEW p \in 1..(n + m)
        PROVE  (\E i \in 1..n : p = place[i]) \/ (\E j \in 1..m : p = seat[j])
    <2>1. CASE p <= k
      BY <2>1
    <2>2. CASE k < p /\ p <= k + m
      <3>1. p - k \in 1..m /\ k + (p - k) = p
        BY <2>2
      <3> QED BY <3>1
    <2>3. CASE k + m < p
      <3>1. p - m \in 1..n /\ m + (p - m) = p /\ ~(p - m <= k)
        BY <2>3
      <3> QED BY <3>1
    <2> QED BY <2>1, <2>2, <2>3
  <1>3. /\ \A i \in 1..n : t[place[i]] = s[i]
        /\ \A j \in 1..m : t[seat[j]] = new[j]
    <2>1. \A i \in 1..n : place[i] = IF i <= k THEN i ELSE m + i
      OBVIOUS
    <2>2. \A j \in 1..m : seat[j] = k + j
      OBVIOUS
    <2> HIDE DEF place, seat
    <2>3. ASSUME NEW i \in 1..n PROVE t[place[i]] = s[i]
      <3>1. CASE i <= k
        <4>1. i \in 1..k /\ place[i] = i
          BY <2>1, <3>1
        <4> QED BY <4>1
      <3>2. CASE ~(i <= k)
        <4>1. i \in (k + 1)..n /\ place[i] = m + i
          BY <2>1, <3>2
        <4> QED BY <4>1
      <3> QED BY <3>1, <3>2
    <2> QED BY <2>2, <2>3
  <1> HIDE DEF place, seat
  <1>4. /\ place \in [DOMAIN s -> DOMAIN t] /\ seat \in [DOMAIN new -> DOMAIN t]
        /\ \A i, j \in DOMAIN s : place[i] = place[j] => i = j
        /\ \A i, j \in DOMAIN new : seat[i] = seat[j] => i = j
        /\ \A i \in DOMAIN s, j \in DOMAIN new : place[i] # seat[j]
    BY <1>1
  <1>5. /\ \A p \in DOMAIN t : \/ \E i \in DOMAIN s : p = place[i]
                              \/ \E j \in DOMAIN new : p = seat[j]
        /\ \A i \in DOMAIN s : t[place[i]] = s[i]
        /\ \A j \in DOMAIN new : t[seat[j]] = new[j]
    <2>1. ASSUME NEW p \in DOMAIN t
          PROVE  (\E i \in DOMAIN s : p = place[i]) \/ (\E j \in DOMAIN new : p = seat[j])
      <3>1. p \in 1..(n + m)
        OBVIOUS
      <3> QED BY <1>2, <3>1
    <2>2. /\ \A i \in DOMAIN s : t[place[i]] = s[i]
          /\ \A j \in DOMAIN new : t[seat[j]] = new[j]
      BY <1>3
    <2> QED BY <2>1, <2>2
  <1> QED BY <1>4, <1>5, Zenon DEF Spliced

\* Entries put in behind the first k.
LEMMA PutBehind ==
    ASSUME NEW s \in Lists, NEW new \in Lists, NEW k \in 0..Len(s)
    PROVE  LET t == SubSeq(s, 1, k) \o new \o SubSeq(s, k + 1, Len(s))
           IN  t \in Lists /\ Spliced(s, new, t)
  <1>1. PICK n \in Nat, m \in Nat :
             /\ n = Len(s) /\ DOMAIN s = 1..n /\ \A i \in 1..n : s[i] \in Entries
             /\ m = Len(new) /\ DOMAIN new = 1..m
             /\ k \in 0..n
    BY ListIs
  <1> DEFINE front == SubSeq(s, 1, k)
             back == SubSeq(s, k + 1, n)
             both == front \o new
             t == both \o back
  <1>2. /\ front \in Lists /\ Len(front) = k
        /\ \A i \in 1..k : front[i] = s[i]
    <2>1. \A i \in 1..k : s[i] \in Entries
      BY <1>1
    <2>2. /\ front \in Seq(Entries) /\ Len(front) = IF 1 <= k THEN k - 1 + 1 ELSE 0
          /\ \A i \in 1..(k - 1 + 1) : front[i] = s[1 + i - 1]
      BY <1>1, <2>1, SubSeqProperties
    <2>3. k - 1 + 1 = k /\ \A i \in 1..k : 1 + i - 1 = i
      BY <1>1
    <2> HIDE DEF front
    <2>4. Len(front) = k
      BY <1>1, <2>2
    <2> QED BY <2>2, <2>3, <2>4
  <1>3. /\ back \in Lists /\ Len(back) = n - k
        /\ \A i \in 1..(n - k) : back[i] = s[k + i]
    <2>1. \A i \in (k + 1)..n : s[i] \in Entries
      BY <1>1
    <2>2. k + 1 \in Int /\ n \in Int
      BY <1>1
    <2>3. /\ back \in Seq(Entries)
          /\ Len(back) = IF k + 1 <= n THEN n - (k + 1) + 1 ELSE 0
          /\ \A i \in 1..(n - (k + 1) + 1) : back[i] = s[k + 1 + i - 1]
      BY <2>1, <2>2, SubSeqProperties
    <2>4. n - (k + 1) + 1 = n - k /\ \A i \in 1..(n - k) : k + 1 + i - 1 = k + i
      BY <1>1
    <2>5. (IF k + 1 <= n THEN n - (k + 1) + 1 ELSE 0) = n - k
      BY <1>1
    <2> HIDE DEF back
    <2> QED BY <2>3, <2>4, <2>5
  <1> HIDE DEF front, back
  <1>4. /\ both \in Lists /\ Len(both) = k + m
        /\ \A i \in 1..(k + m) : both[i] = IF i <= k THEN front[i] ELSE new[i - k]
    BY <1>1, <1>2, ConcatProperties
  <1> HIDE DEF both
  <1>5. /\ t \in Lists /\ Len(t) = k + m + (n - k)
        /\ \A i \in 1..(k + m + (n - k)) :
             t[i] = IF i <= k + m THEN both[i] ELSE back[i - (k + m)]
    <2>1. /\ t \in Lists /\ Len(t) = Len(both) + Len(back)
          /\ \A i \in 1..(Len(both) + Len(back)) :
               t[i] = IF i <= Len(both) THEN both[i] ELSE back[i - Len(both)]
      BY <1>3, <1>4, ConcatProperties
    <2> HIDE DEF t
    <2> QED BY <1>3, <1>4, <2>1
  <1> HIDE DEF t
  <1>6. DOMAIN t = 1..(n + m)
    <2>1. DOMAIN t = 1..Len(t)
      BY <1>5, ListIs
    <2>2. k + m + (n - k) = n + m
      BY <1>1
    <2> QED BY <1>5, <2>1, <2>2
  <1>7. /\ \A i \in 1..k : t[i] = s[i]
        /\ \A j \in 1..m : t[k + j] = new[j]
        /\ \A i \in (k + 1)..n : t[m + i] = s[i]
    <2>1. ASSUME NEW i \in 1..k PROVE t[i] = s[i]
      <3>1. i \in 1..(k + m + (n - k)) /\ i \in 1..(k + m) /\ i <= k /\ i <= k + m
        BY <1>1
      <3> QED BY <1>2, <1>4, <1>5, <3>1
    <2>2. ASSUME NEW j \in 1..m PROVE t[k + j] = new[j]
      <3>1. /\ k + j \in 1..(k + m) /\ k + j \in 1..(k + m + (n - k)) /\ ~(k + j <= k)
            /\ k + j <= k + m /\ (k + j) - k = j
        BY <1>1
      <3> QED BY <1>4, <1>5, <3>1
    <2>3. ASSUME NEW i \in (k + 1)..n PROVE t[m + i] = s[i]
      <3>1. /\ m + i \in 1..(k + m + (n - k)) /\ ~(m + i <= k + m)
            /\ (m + i) - (k + m) = i - k /\ i - k \in 1..(n - k) /\ k + (i - k) = i
        BY <1>1
      <3>2. t[m + i] = back[i - k] /\ back[i - k] = s[i]
        BY <1>3, <1>5, <3>1
      <3> QED BY <3>2
    <2> QED BY <2>1, <2>2, <2>3
  <1>8. Spliced(s, new, t)
    BY <1>1, <1>6, <1>7, PlacesBehind
  <1> QED BY <1>1, <1>5, <1>8 DEF t, both, front, back

\* One entry put in at a position.
LEMMA InsertPuts ==
    ASSUME NEW s \in Lists, NEW i \in 1..(Len(s) + 1), NEW e \in Entries
    PROVE  InsertAt(s, i, e) \in Lists /\ Spliced(s, <<e>>, InsertAt(s, i, e))
  <1>1. Len(s) \in Nat
    BY ListIs
  <1>2. i - 1 \in 0..Len(s) /\ (i - 1) + 1 = i
    BY <1>1
  <1>3. <<e>> \in Lists
    OBVIOUS
  <1>4. InsertAt(s, i, e) = SubSeq(s, 1, i - 1) \o <<e>> \o SubSeq(s, (i - 1) + 1, Len(s))
    BY <1>2 DEF InsertAt
  <1> QED BY <1>2, <1>3, <1>4, PutBehind

\* Entries put in at the end.
LEMMA EndPuts ==
    ASSUME NEW s \in Lists, NEW new \in Lists
    PROVE  s \o new \in Lists /\ Spliced(s, new, s \o new)
  <1>1. PICK n \in Nat, m \in Nat :
             n = Len(s) /\ DOMAIN s = 1..n /\ m = Len(new) /\ DOMAIN new = 1..m
    BY ListIs
  <1> DEFINE t == s \o new
  <1>2. /\ t \in Lists /\ Len(t) = n + m
        /\ \A i \in 1..(n + m) : t[i] = IF i <= n THEN s[i] ELSE new[i - n]
    BY <1>1, ConcatProperties
  <1> HIDE DEF t
  <1>3. DOMAIN t = 1..(n + m)
    BY <1>2, ListIs
  <1>4. \A i \in 1..n : t[i] = s[i]
    BY <1>2
  <1>5. ASSUME NEW j \in 1..m PROVE t[n + j] = new[j]
    <2>1. n + j \in 1..(n + m) /\ ~(n + j <= n) /\ (n + j) - n = j
      OBVIOUS
    <2> QED BY <1>2, <2>1
  <1>6. n \in 0..n /\ (n + 1)..n = {}
    OBVIOUS
  <1>7. /\ n \in 0..n
        /\ \A i \in 1..n : t[i] = s[i]
        /\ \A j \in 1..m : t[n + j] = new[j]
        /\ \A i \in (n + 1)..n : t[m + i] = s[i]
    BY <1>4, <1>5, <1>6
  <1>8. Spliced(s, new, t)
    <2>1. \A k \in 0..n : k = n => /\ \A i \in 1..k : t[i] = s[i]
                                   /\ \A j \in 1..m : t[k + j] = new[j]
                                   /\ \A i \in (k + 1)..n : t[m + i] = s[i]
      BY <1>7
    <2>2. PICK k \in 0..n : k = n
      BY <1>7
    <2>3. DOMAIN s = 1..n /\ DOMAIN new = 1..m
      BY <1>1
    <2> QED BY <1>3, <2>1, <2>2, <2>3, PlacesBehind
  <1> QED BY <1>2, <1>8 DEF t

\* What is in t is in one of the two, and nothing of them is lost.
MadeOf(s, new, t) ==
    /\ \A k \in DOMAIN t : \/ \E i \in DOMAIN s : t[k] = s[i]
                           \/ \E j \in DOMAIN new : t[k] = new[j]
    /\ \A i \in DOMAIN s : \E k \in DOMAIN t : t[k] = s[i]
    /\ \A j \in DOMAIN new : \E k \in DOMAIN t : t[k] = new[j]

\* That is what putting in gives.
LEMMA SplicedParts ==
    ASSUME NEW s, NEW new, NEW t, Spliced(s, new, t)
    PROVE  MadeOf(s, new, t)
  <1>1. PICK place \in [DOMAIN s -> DOMAIN t], seat \in [DOMAIN new -> DOMAIN t] :
          /\ \A k \in DOMAIN t : \/ \E i \in DOMAIN s : k = place[i]
                                 \/ \E j \in DOMAIN new : k = seat[j]
          /\ \A i \in DOMAIN s : t[place[i]] = s[i]
          /\ \A j \in DOMAIN new : t[seat[j]] = new[j]
    BY DEF Spliced
  <1>2. ASSUME NEW k \in DOMAIN t
        PROVE  (\E i \in DOMAIN s : t[k] = s[i]) \/ (\E j \in DOMAIN new : t[k] = new[j])
    BY <1>1
  <1>3. ASSUME NEW i \in DOMAIN s PROVE \E k \in DOMAIN t : t[k] = s[i]
    BY <1>1
  <1>4. ASSUME NEW j \in DOMAIN new PROVE \E k \in DOMAIN t : t[k] = new[j]
    BY <1>1
  <1> QED BY <1>2, <1>3, <1>4 DEF MadeOf

\* f takes S one to one onto T.
Matches(f, S, T) ==
    /\ \A i \in S : f[i] \in T
    /\ \A y \in T : \E i \in S : f[i] = y
    /\ \A i, j \in S : f[i] = f[j] => i = j

\* An image one to one has as many elements.
LEMMA ImageCount ==
    ASSUME NEW S, IsFiniteSet(S), NEW T, NEW f, Matches(f, S, T)
    PROVE  IsFiniteSet(T) /\ Cardinality(T) = Cardinality(S)
  <1> DEFINE g == [i \in S |-> f[i]]
  <1>1. g \in Bijection(S, T)
    <2>1. g \in [S -> T] /\ \A i, j \in S : g[i] = g[j] => i = j
      BY DEF Matches
    <2>2. \A y \in T : \E i \in S : g[i] = y
      BY DEF Matches
    <2> QED BY <2>1, <2>2 DEF Bijection, Injection, Surjection, IsInjective
  <1>2. ExistsBijection(S, T)
    BY <1>1 DEF ExistsBijection
  <1> QED BY <1>2, FS_Bijection

\* Entries put in add up.
LEMMA SplicedCount ==
    ASSUME NEW s \in Lists, NEW new \in Lists, NEW t \in Lists, Spliced(s, new, t), NEW states
    PROVE  Cardinality(Within(t, states)) =
             Cardinality(Within(s, states)) + Cardinality(Within(new, states))
  <1>1. PICK place \in [DOMAIN s -> DOMAIN t], seat \in [DOMAIN new -> DOMAIN t] :
          /\ \A i, j \in DOMAIN s : place[i] = place[j] => i = j
          /\ \A i, j \in DOMAIN new : seat[i] = seat[j] => i = j
          /\ \A i \in DOMAIN s, j \in DOMAIN new : place[i] # seat[j]
          /\ \A k \in DOMAIN t : \/ \E i \in DOMAIN s : k = place[i]
                                 \/ \E j \in DOMAIN new : k = seat[j]
          /\ \A i \in DOMAIN s : t[place[i]] = s[i]
          /\ \A j \in DOMAIN new : t[seat[j]] = new[j]
    BY DEF Spliced
  <1> DEFINE A == {place[i] : i \in Within(s, states)}
             B == {seat[j] : j \in Within(new, states)}
  <1>2. Within(s, states) \subseteq DOMAIN s /\ Within(new, states) \subseteq DOMAIN new
    BY DEF Within
  <1>3. /\ IsFiniteSet(A) /\ Cardinality(A) = Cardinality(Within(s, states))
        /\ IsFiniteSet(B) /\ Cardinality(B) = Cardinality(Within(new, states))
    <2> DEFINE S == Within(s, states)
               N == Within(new, states)
    <2>1. IsFiniteSet(S) /\ IsFiniteSet(N)
      BY WithinIs
    <2>2. Matches(place, S, A)
      BY <1>1, <1>2 DEF Matches
    <2>3. Matches(seat, N, B)
      BY <1>1, <1>2 DEF Matches
    <2> HIDE DEF A, B, S, N
    <2>4. IsFiniteSet(A) /\ Cardinality(A) = Cardinality(S)
      BY <2>1, <2>2, ImageCount
    <2>5. IsFiniteSet(B) /\ Cardinality(B) = Cardinality(N)
      BY <2>1, <2>3, ImageCount
    <2> QED BY <2>4, <2>5 DEF S, N
  <1>4. Within(t, states) = A \cup B
    <2>1. ASSUME NEW k \in Within(t, states) PROVE k \in A \cup B
      <3>1. k \in DOMAIN t /\ t[k].state \in states
        BY <2>1 DEF Within
      <3>2. CASE \E i \in DOMAIN s : k = place[i]
        BY <1>1, <3>1, <3>2 DEF Within
      <3>3. CASE \E j \in DOMAIN new : k = seat[j]
        BY <1>1, <3>1, <3>3 DEF Within
      <3> QED BY <1>1, <3>1, <3>2, <3>3
    <2>2. ASSUME NEW i \in Within(s, states) PROVE place[i] \in Within(t, states)
      BY <1>1, <2>2 DEF Within
    <2>3. ASSUME NEW j \in Within(new, states) PROVE seat[j] \in Within(t, states)
      BY <1>1, <2>3 DEF Within
    <2> QED BY <2>1, <2>2, <2>3
  <1>5. A \cap B = {}
    BY <1>1, <1>2
  <1> HIDE DEF A, B
  <1>6. /\ Cardinality(A \cup B) = Cardinality(A) + Cardinality(B) - Cardinality(A \cap B)
        /\ Cardinality(A \cap B) = 0
    BY <1>3, <1>5, FS_Union, FS_EmptySet
  <1>7. Cardinality(A) \in Nat /\ Cardinality(B) \in Nat
    BY <1>3, FS_CardinalityType
  <1> QED BY <1>3, <1>4, <1>6, <1>7

-----------------------------------------------------------------------------
(* What the handlers keep of a list.                                        *)

\* A list as a step that is being decided has it.
Good(s) ==
    /\ s \in Lists /\ Fits(s) /\ OneEach(s) /\ Followed(s)
    /\ Within(s, {"cancelled"}) = {}

\* No answer of s is missing in t, and t has as many questions more as entries.
Keeps(s, t) == \A i \in Within(s, DecidedStates) : s[i] \in Range(t)
More(s, t) ==
    /\ \E d \in Nat : /\ Cardinality(Live(t)) = Cardinality(Live(s)) + d
                      /\ Cardinality(Open(t)) = Cardinality(Open(s)) + d
    /\ Approvals(t) = Approvals(s)
    /\ Within(t, {"rejected"}) = {} <=> Within(s, {"rejected"}) = {}
    /\ Within(s, {"pending"}) # {} => Within(t, {"pending"}) # {}

\* Questions asked of more people leave an undecided step undecided.
LEMMA MoreUndecided ==
    ASSUME step \in Steps, NEW s \in Lists, NEW t \in Lists, More(s, t), Undecided(s)
    PROVE  Undecided(t)
  <1>1. PICK d \in Nat : /\ Cardinality(Live(t)) = Cardinality(Live(s)) + d
                         /\ Cardinality(Open(t)) = Cardinality(Open(s)) + d
    BY DEF More
  <1>2. Approvals(t) = Approvals(s) /\ (Within(t, {"rejected"}) = {} <=> Within(s, {"rejected"}) = {})
    BY DEF More
  <1>3. \A r \in Lists : /\ Approvals(r) \in Nat /\ Cardinality(Open(r)) \in Nat
                         /\ Cardinality(Live(r)) \in Nat /\ Needed(r) \in Nat
                         /\ Needed(r) = IF \/ step.quorum = All
                                           \/ Cardinality(Live(r)) <= step.quorum
                                        THEN Cardinality(Live(r)) ELSE step.quorum
    BY CountsAre
  <1>4. step.quorum \in Nat
    BY StepsAssumption
  <1>5. Needed(s) <= Needed(t) /\ Needed(t) <= Needed(s) + d
    BY <1>1, <1>3, <1>4
  <1>6. Approvals(t) < Needed(t)
    BY <1>2, <1>3, <1>5 DEF Undecided
  <1>7. Impossible(t) => Impossible(s)
    BY <1>1, <1>2, <1>3, <1>5 DEF Impossible
  <1> QED BY <1>2, <1>6, <1>7 DEF Undecided

\* One after the other.
LEMMA MoreAndMore ==
    ASSUME NEW r \in Lists, NEW s \in Lists, NEW t \in Lists, More(r, s), More(s, t)
    PROVE  More(r, t)
  <1>1. PICK c \in Nat : /\ Cardinality(Live(s)) = Cardinality(Live(r)) + c
                         /\ Cardinality(Open(s)) = Cardinality(Open(r)) + c
    BY DEF More
  <1>2. PICK d \in Nat : /\ Cardinality(Live(t)) = Cardinality(Live(s)) + d
                         /\ Cardinality(Open(t)) = Cardinality(Open(s)) + d
    BY DEF More
  <1>3. /\ Cardinality(Live(r)) \in Nat /\ Cardinality(Open(r)) \in Nat
    BY CountsAre
  <1>4. /\ c + d \in Nat
        /\ Cardinality(Live(t)) = Cardinality(Live(r)) + (c + d)
        /\ Cardinality(Open(t)) = Cardinality(Open(r)) + (c + d)
    BY <1>1, <1>2, <1>3
  <1> QED BY <1>4 DEF More

\* Answers kept by one call and by the next are kept by both.
LEMMA KeepsAndKeeps ==
    ASSUME NEW r, NEW s, NEW t, Keeps(r, s), Keeps(s, t)
    PROVE  Keeps(r, t)
  <1>1. ASSUME NEW i \in Within(r, DecidedStates) PROVE r[i] \in Range(t)
    <2>1. r[i].state \in DecidedStates
      BY DEF Within
    <2>2. PICK k \in DOMAIN s : s[k] = r[i]
      BY DEF Keeps, Range
    <2>3. k \in Within(s, DecidedStates)
      BY <2>1, <2>2 DEF Within
    <2> QED BY <2>2, <2>3 DEF Keeps
  <1> QED BY <1>1 DEF Keeps

\* Questions put to people who do not take part yet.
LEMMA Joined ==
    ASSUME NEW s \in Lists, NEW new \in Lists, NEW t \in Lists, Spliced(s, new, t),
           Fits(s), OneEach(s), Within(s, {"cancelled"}) = {}, Fits(new), OneEach(new),
           \A j \in DOMAIN new : new[j].state \in OpenStates /\ ~TakesPart(s, new[j].user)
    PROVE  /\ Fits(t) /\ OneEach(t) /\ Within(t, {"cancelled"}) = {}
           /\ Followed(s) => Followed(t)
           /\ More(s, t) /\ Keeps(s, t)
           /\ \A u : TakesPart(t, u) => TakesPart(s, u) \/ \E j \in DOMAIN new : new[j].user = u
  <1>1. /\ \A k \in DOMAIN t : \/ \E i \in DOMAIN s : t[k] = s[i]
                               \/ \E j \in DOMAIN new : t[k] = new[j]
        /\ \A i \in DOMAIN s : \E k \in DOMAIN t : t[k] = s[i]
        /\ \A j \in DOMAIN new : \E k \in DOMAIN t : t[k] = new[j]
    <2>1. MadeOf(s, new, t)
      BY SplicedParts
    <2> QED BY <2>1 DEF MadeOf
  <1>2. \A j \in DOMAIN new : /\ new[j].state \notin DeadStates
                              /\ new[j].state \notin ApprovedStates
                              /\ new[j].state # "rejected" /\ new[j].state # "cancelled"
                              /\ new[j].state # "delegated"
    BY DEF OpenStates, DeadStates, ApprovedStates
  <1>3. Fits(t)
    <2>1. ASSUME NEW k \in DOMAIN t
          PROVE  t[k].state \in StatesHere /\ (t[k].state = "waiting" => step.mode = "sequential")
      <3>1. CASE \E i \in DOMAIN s : t[k] = s[i]
        BY <3>1 DEF Fits
      <3>2. CASE \E j \in DOMAIN new : t[k] = new[j]
        BY <3>2 DEF Fits
      <3> QED BY <1>1, <3>1, <3>2
    <2> QED BY <2>1 DEF Fits
  <1>4. Within(t, {"cancelled"}) = {}
    <2>1. ASSUME NEW k \in DOMAIN t PROVE t[k].state # "cancelled"
      BY <1>1, <1>2, <2>1 DEF Within
    <2> QED BY <2>1 DEF Within
  <1>5. ASSUME Followed(s) PROVE Followed(t)
    <2>1. ASSUME NEW k \in DOMAIN t, t[k].state = "delegated"
          PROVE  \E l \in DOMAIN t : t[l].user = t[k].delegatedTo
      <3>1. PICK i \in DOMAIN s : t[k] = s[i]
        BY <1>1, <1>2, <2>1
      <3>2. i \in Within(s, {"delegated"})
        BY <2>1, <3>1 DEF Within
      <3>3. PICK j \in DOMAIN s : s[j].user = s[i].delegatedTo
        BY <1>5, <3>2 DEF Followed
      <3>4. PICK l \in DOMAIN t : t[l] = s[j]
        BY <1>1
      <3> QED BY <3>1, <3>3, <3>4
    <2> QED BY <2>1 DEF Followed, Within
  <1>6. Keeps(s, t)
    <2>1. ASSUME NEW i \in DOMAIN s PROVE s[i] \in Range(t)
      <3>1. PICK k \in DOMAIN t : t[k] = s[i]
        BY <1>1
      <3> QED BY <3>1 DEF Range
    <2> QED BY <2>1 DEF Keeps, Within
  <1>7. ASSUME NEW u, TakesPart(t, u)
        PROVE  TakesPart(s, u) \/ \E j \in DOMAIN new : new[j].user = u
    <2>1. PICK k \in DOMAIN t : t[k].state \notin DeadStates /\ t[k].user = u
      BY <1>7 DEF TakesPart, Live, Within
    <2>2. ASSUME NEW i \in DOMAIN s, t[k] = s[i] PROVE TakesPart(s, u)
      BY <2>1, <2>2 DEF TakesPart, Live, Within
    <2> QED BY <1>1, <2>1, <2>2
  <1>8. OneEach(t)
    <2>1. PICK place \in [DOMAIN s -> DOMAIN t], seat \in [DOMAIN new -> DOMAIN t] :
            /\ \A k \in DOMAIN t : \/ \E i \in DOMAIN s : k = place[i]
                                   \/ \E j \in DOMAIN new : k = seat[j]
            /\ \A i \in DOMAIN s : t[place[i]] = s[i]
            /\ \A j \in DOMAIN new : t[seat[j]] = new[j]
      BY DEF Spliced
    <2>2. ASSUME NEW k \in Live(t), NEW l \in Live(t), t[k].user = t[l].user PROVE k = l
      <3>1. /\ k \in DOMAIN t /\ t[k].state \notin DeadStates
            /\ l \in DOMAIN t /\ t[l].state \notin DeadStates
        BY <2>2 DEF Live, Within
      <3>2. ASSUME NEW i \in DOMAIN s, NEW j \in DOMAIN s, k = place[i], l = place[j]
            PROVE  k = l
        <4>1. i \in Live(s) /\ j \in Live(s) /\ s[i].user = s[j].user
          BY <2>1, <2>2, <3>1, <3>2 DEF Live, Within
        <4> QED BY <3>2, <4>1 DEF OneEach
      <3>3. ASSUME NEW i \in DOMAIN new, NEW j \in DOMAIN new, k = seat[i], l = seat[j]
            PROVE  k = l
        <4>1. i \in Live(new) /\ j \in Live(new) /\ new[i].user = new[j].user
          BY <2>1, <2>2, <3>1, <3>3 DEF Live, Within
        <4> QED BY <3>3, <4>1 DEF OneEach
      <3>4. ASSUME NEW i \in DOMAIN s, NEW j \in DOMAIN new,
                   s[i].state \notin DeadStates, s[i].user = new[j].user
            PROVE  FALSE
        BY <3>4 DEF TakesPart, Live, Within
      <3>5. ASSUME NEW i \in DOMAIN s, NEW j \in DOMAIN new,
                   (k = place[i] /\ l = seat[j]) \/ (l = place[i] /\ k = seat[j])
            PROVE  FALSE
        <4>1. t[place[i]] = s[i] /\ t[seat[j]] = new[j]
          BY <2>1
        <4>2. CASE k = place[i] /\ l = seat[j]
          <5>1. s[i].state \notin DeadStates /\ s[i].user = new[j].user
            BY <2>2, <3>1, <4>1, <4>2
          <5> QED BY <3>4, <5>1
        <4>3. CASE l = place[i] /\ k = seat[j]
          <5>1. s[i].state \notin DeadStates /\ s[i].user = new[j].user
            BY <2>2, <3>1, <4>1, <4>3
          <5> QED BY <3>4, <5>1
        <4> QED BY <3>5, <4>2, <4>3
      <3> QED BY <2>1, <3>1, <3>2, <3>3, <3>5
    <2> QED BY <2>2 DEF OneEach
  <1>9. More(s, t)
    <2>1. /\ Within(new, LiveStates) = DOMAIN new /\ Within(new, OpenStates) = DOMAIN new
          /\ Within(new, ApprovedStates) = {} /\ Within(new, {"rejected"}) = {}
      <3>1. \A j \in DOMAIN new : new[j].state \in LiveStates
        BY <1>2, StateNames
      <3> QED BY <1>2, <3>1 DEF Within
    <2>2. \A states : Cardinality(Within(t, states)) =
                        Cardinality(Within(s, states)) + Cardinality(Within(new, states))
      BY SplicedCount
    <2>3. /\ \A states : Cardinality(Within(s, states)) \in Nat
          /\ Cardinality(DOMAIN new) \in Nat /\ Cardinality({}) = 0
      BY <2>1, WithinIs, FS_EmptySet
    <2>4. /\ Cardinality(Live(t)) = Cardinality(Live(s)) + Cardinality(DOMAIN new)
          /\ Cardinality(Open(t)) = Cardinality(Open(s)) + Cardinality(DOMAIN new)
          /\ Approvals(t) = Approvals(s)
      <3>1. Live(t) = Within(t, LiveStates) /\ Live(s) = Within(s, LiveStates)
        BY LiveIs
      <3>2. Cardinality(Within(t, LiveStates)) =
              Cardinality(Within(s, LiveStates)) + Cardinality(DOMAIN new)
        BY <2>1, <2>2
      <3>3. Cardinality(Within(t, OpenStates)) =
              Cardinality(Within(s, OpenStates)) + Cardinality(DOMAIN new)
        BY <2>1, <2>2
      <3>4. Cardinality(Within(t, ApprovedStates)) = Cardinality(Within(s, ApprovedStates)) + 0
        BY <2>1, <2>2, <2>3
      <3>5. Cardinality(Within(s, ApprovedStates)) \in Nat
        BY <2>3
      <3> QED BY <3>1, <3>2, <3>3, <3>4, <3>5 DEF Open, Approvals
    <2>5. Cardinality(Within(t, {"rejected"})) = Cardinality(Within(s, {"rejected"}))
      <3>1. Cardinality(Within(t, {"rejected"})) = Cardinality(Within(s, {"rejected"})) + 0
        BY <2>1, <2>2, <2>3
      <3>2. Cardinality(Within(s, {"rejected"})) \in Nat
        BY <2>3
      <3> QED BY <3>1, <3>2
    <2>6. Within(t, {"rejected"}) = {} <=> Within(s, {"rejected"}) = {}
      BY <2>5, WithinIs
    <2>7. ASSUME NEW i \in Within(s, {"pending"}) PROVE Within(t, {"pending"}) # {}
      <3>1. i \in DOMAIN s /\ s[i].state = "pending"
        BY DEF Within
      <3>2. PICK k \in DOMAIN t : t[k] = s[i]
        BY <1>1, <3>1
      <3> QED BY <3>1, <3>2 DEF Within
    <2> QED BY <2>3, <2>4, <2>6, <2>7 DEF More
  <1> QED BY <1>3, <1>4, <1>5, <1>6, <1>7, <1>8, <1>9

\* Entries get another state and nothing else.
LEMMA Restated ==
    ASSUME NEW s \in Lists, NEW positions, NEW state \in EntryStates
    PROVE  LET t == WithState(s, positions, state)
           IN  /\ t \in Lists /\ DOMAIN t = DOMAIN s
               /\ \A i \in DOMAIN s :
                    /\ t[i].user = s[i].user /\ t[i].delegatedTo = s[i].delegatedTo
                    /\ t[i].state = IF i \in positions THEN state ELSE s[i].state
                    /\ i \notin positions => t[i] = s[i]
  <1> DEFINE t == WithState(s, positions, state)
  <1>1. PICK n \in Nat : n = Len(s) /\ DOMAIN s = 1..n /\ \A i \in 1..n : s[i] \in Entries
    BY ListIs
  <1>2. t = [i \in 1..n |-> IF i \in positions THEN [s[i] EXCEPT !.state = state] ELSE s[i]]
    BY <1>1 DEF WithState
  <1>3. ASSUME NEW e \in Entries
        PROVE  /\ [e EXCEPT !.state = state] \in Entries
               /\ [e EXCEPT !.state = state].user = e.user
               /\ [e EXCEPT !.state = state].delegatedTo = e.delegatedTo
               /\ [e EXCEPT !.state = state].state = state
    BY DEF Entries
  <1> HIDE DEF t
  <1>4. t \in [1..n -> Entries] /\ DOMAIN t = 1..n
    BY <1>1, <1>2, <1>3
  <1>5. t \in Lists
    BY <1>4
  <1>6. ASSUME NEW i \in 1..n
        PROVE  /\ t[i].user = s[i].user /\ t[i].delegatedTo = s[i].delegatedTo
               /\ t[i].state = IF i \in positions THEN state ELSE s[i].state
               /\ i \notin positions => t[i] = s[i]
    BY <1>1, <1>2, <1>3
  <1> QED BY <1>1, <1>4, <1>5, <1>6 DEF t

\* An answer or another state of a question leaves a list good.
LEMMA RestatedIsGood ==
    ASSUME NEW s, Good(s), NEW positions \in SUBSET Live(s),
           NEW state \in EntryStates, state \in StatesHere, state \notin DeadStates,
           state = "waiting" => step.mode = "sequential"
    PROVE  /\ Good(WithState(s, positions, state))
           /\ Live(WithState(s, positions, state)) = Live(s)
  <1> DEFINE t == WithState(s, positions, state)
  <1>1. /\ t \in Lists /\ DOMAIN t = DOMAIN s /\ s \in Lists
        /\ \A i \in DOMAIN s :
             /\ t[i].user = s[i].user /\ t[i].delegatedTo = s[i].delegatedTo
             /\ t[i].state = IF i \in positions THEN state ELSE s[i].state
    BY Restated DEF Good
  <1> HIDE DEF t
  <1>2. \A i \in positions : i \in DOMAIN s /\ s[i].state \notin DeadStates
    BY DEF Live, Within
  <1>3. Live(t) = Live(s)
    BY <1>1, <1>2 DEF Live, Within
  <1>4. Fits(t)
    BY <1>1 DEF Good, Fits
  <1>5. OneEach(t)
    <2>1. \A i \in Live(s) : i \in DOMAIN s
      BY DEF Live
    <2> QED BY <1>1, <1>3, <2>1 DEF Good, OneEach
  <1>6. \A i \in DOMAIN s : t[i].state \in DeadStates => s[i].state = t[i].state
    BY <1>1
  <1>7. Followed(t)
    <2>1. ASSUME NEW i \in Within(t, {"delegated"})
          PROVE  \E j \in DOMAIN t : t[j].user = t[i].delegatedTo
      <3>1. i \in Within(s, {"delegated"}) /\ i \in DOMAIN s
        BY <1>1, <1>6 DEF Within, DeadStates
      <3>2. PICK j \in DOMAIN s : s[j].user = s[i].delegatedTo
        BY <3>1 DEF Good, Followed
      <3> QED BY <1>1, <3>1, <3>2
    <2> QED BY <2>1 DEF Followed
  <1>8. Within(t, {"cancelled"}) = {}
    <2>1. \A i \in DOMAIN s : s[i].state # "cancelled"
      BY DEF Good, Within
    <2> QED BY <1>1, <1>6, <2>1 DEF Within, DeadStates
  <1> QED BY <1>1, <1>3, <1>4, <1>5, <1>7, <1>8 DEF Good, t

\* An open question stays open in another open state: nothing that is counted
\* changes, and no answer does.
LEMMA RestatedOpen ==
    ASSUME NEW s \in Lists, NEW positions \in SUBSET Open(s), NEW state \in OpenStates
    PROVE  LET t == WithState(s, positions, state)
           IN  /\ Approvals(t) = Approvals(s) /\ Open(t) = Open(s) /\ Live(t) = Live(s)
               /\ Within(t, {"rejected"}) = Within(s, {"rejected"})
               /\ Keeps(s, t)
  <1> DEFINE t == WithState(s, positions, state)
  <1>1. state \in EntryStates
    BY DEF EntryStates
  <1>2. /\ DOMAIN t = DOMAIN s
        /\ \A i \in DOMAIN s :
             /\ t[i].state = IF i \in positions THEN state ELSE s[i].state
             /\ i \notin positions => t[i] = s[i]
    BY <1>1, Restated
  <1> HIDE DEF t
  <1>3. \A i \in positions : i \in DOMAIN s /\ s[i].state \in OpenStates
    BY DEF Open, Within
  <1>4. \A x \in OpenStates : x \notin DeadStates /\ x \notin ApprovedStates /\ x # "rejected"
    BY DEF OpenStates, DeadStates, ApprovedStates
  <1>5. Within(t, OpenStates) = Within(s, OpenStates)
    BY <1>2, <1>3 DEF Within
  <1>6. /\ Within(t, ApprovedStates) = Within(s, ApprovedStates)
        /\ Within(t, DeadStates) = Within(s, DeadStates)
        /\ Within(t, {"rejected"}) = Within(s, {"rejected"})
    BY <1>2, <1>3, <1>4 DEF Within
  <1>7. Keeps(s, t)
    <2>1. ASSUME NEW i \in Within(s, DecidedStates) PROVE s[i] \in Range(t)
      <3>1. i \in DOMAIN s /\ s[i].state \in DecidedStates
        BY DEF Within
      <3>2. i \notin positions
        BY <1>3, <3>1, StateNames DEF OpenStates
      <3> QED BY <1>2, <3>1, <3>2 DEF Range
    <2> QED BY <2>1 DEF Keeps
  <1> QED BY <1>2, <1>5, <1>6, <1>7 DEF Approvals, Open, Live, t

\* Only the first of those being asked stays asked.
LEMMA QueueIsGood ==
    ASSUME NEW s, Good(s)
    PROVE  Good(Queue(s)) /\ Live(Queue(s)) = Live(s) /\ Keeps(s, Queue(s))
  <1>1. s \in Lists
    BY DEF Good
  <1>2. CASE step.mode = "sequential" /\ Within(s, {"pending"}) # {}
    <2> DEFINE P == Within(s, {"pending"}) \ {Min(Within(s, {"pending"}))}
    <2>1. Queue(s) = WithState(s, P, "waiting")
      BY <1>2 DEF Queue
    <2>2. P \in SUBSET Open(s) /\ P \in SUBSET Live(s)
      BY DEF Open, Live, Within, OpenStates, DeadStates
    <2>3. "waiting" \in OpenStates /\ "waiting" \in EntryStates /\ "waiting" \notin DeadStates
          /\ "waiting" \in StatesHere
      BY DEF OpenStates, EntryStates, DeadStates, StatesHere
    <2> HIDE DEF P
    <2>4. Good(WithState(s, P, "waiting")) /\ Live(WithState(s, P, "waiting")) = Live(s)
      BY <1>2, <2>2, <2>3, RestatedIsGood
    <2>5. Keeps(s, WithState(s, P, "waiting"))
      BY <1>1, <2>2, <2>3, RestatedOpen
    <2> QED BY <2>1, <2>4, <2>5
  <1>3. CASE ~(step.mode = "sequential" /\ Within(s, {"pending"}) # {})
    <2>1. Queue(s) = s
      BY <1>3 DEF Queue
    <2>2. Keeps(s, s)
      BY DEF Keeps, Range, Within
    <2> QED BY <2>1, <2>2
  <1> QED BY <1>2, <1>3

\* The next person is asked: nothing counted changes, and somebody is asked
\* unless nobody waits.
LEMMA PromoteIsGood ==
    ASSUME NEW s, Good(s)
    PROVE  LET t == Promote(s)
           IN  /\ Good(t) /\ Keeps(s, t)
               /\ Approvals(t) = Approvals(s) /\ Open(t) = Open(s) /\ Live(t) = Live(s)
               /\ Within(t, {"rejected"}) = Within(s, {"rejected"})
               /\ Open(s) # {} => Within(t, {"pending"}) # {}
  <1> DEFINE W == Within(s, {"waiting"})
  <1>1. s \in Lists
    BY DEF Good
  <1>2. CASE step.mode = "sequential" /\ Within(s, {"pending"}) = {} /\ W # {}
    <2>1. Promote(s) = WithState(s, {Min(W)}, "pending")
      BY <1>2 DEF Promote
    <2>2. Min(W) \in W
      <3>1. W \in SUBSET Nat
        BY <1>1, WithinIs
      <3> HIDE DEF W
      <3> QED BY <1>2, <3>1, MinIs
    <2>3. /\ {Min(W)} \in SUBSET Open(s) /\ {Min(W)} \in SUBSET Live(s)
          /\ Min(W) \in DOMAIN s
      BY <2>2 DEF Open, Live, Within, OpenStates, DeadStates
    <2>4. "pending" \in OpenStates /\ "pending" \in EntryStates /\ "pending" \notin DeadStates
          /\ "pending" \in StatesHere
      BY DEF OpenStates, EntryStates, DeadStates, StatesHere
    <2> HIDE DEF W
    <2>5. Good(WithState(s, {Min(W)}, "pending"))
      BY <2>3, <2>4, RestatedIsGood
    <2>6. LET t == WithState(s, {Min(W)}, "pending")
          IN  /\ Approvals(t) = Approvals(s) /\ Open(t) = Open(s) /\ Live(t) = Live(s)
              /\ Within(t, {"rejected"}) = Within(s, {"rejected"})
              /\ Keeps(s, t)
      BY <1>1, <2>3, <2>4, RestatedOpen
    <2>7. Within(WithState(s, {Min(W)}, "pending"), {"pending"}) # {}
      <3> DEFINE t == WithState(s, {Min(W)}, "pending")
      <3>1. DOMAIN t = DOMAIN s /\ t[Min(W)].state = "pending"
        BY <1>1, <2>3, <2>4, Restated
      <3> HIDE DEF t
      <3>2. Min(W) \in Within(t, {"pending"})
        BY <2>3, <3>1 DEF Within
      <3> QED BY <3>2 DEF t
    <2> QED BY <2>1, <2>5, <2>6, <2>7
  <1>3. CASE ~(step.mode = "sequential" /\ Within(s, {"pending"}) = {} /\ W # {})
    <2>1. Promote(s) = s
      BY <1>3 DEF Promote
    <2>2. Keeps(s, s)
      BY DEF Keeps, Range, Within
    <2>3. Open(s) # {} => Within(s, {"pending"}) # {}
      <3>1. \A i \in Open(s) : i \in DOMAIN s /\ (s[i].state = "pending" \/ s[i].state = "waiting")
        BY DEF Open, Within, OpenStates
      <3>2. \A i \in DOMAIN s : s[i].state = "waiting" => step.mode = "sequential" /\ i \in W
        BY DEF Good, Fits, Within
      <3>3. \A i \in DOMAIN s : s[i].state = "pending" => i \in Within(s, {"pending"})
        BY DEF Within
      <3> HIDE DEF W
      <3> QED BY <1>3, <3>1, <3>2, <3>3
    <2> QED BY <2>1, <2>2, <2>3
  <1> QED BY <1>2, <1>3

\* A question is closed and put to another person, who does not take part yet:
\* the list stays good, no question is lost, and its owner takes no part any more.
LEMMA HandOverIsGood ==
    ASSUME NEW s, Good(s), NEW i \in Open(s), NEW to \in People, ~TakesPart(s, to)
    PROVE  LET t == HandOver(s, i, to)
           IN  /\ Good(t) /\ More(s, t) /\ Keeps(s, t) /\ Len(t) = Len(s) + 1
               /\ i \in 1..Len(s)
               /\ \A u : TakesPart(t, u) => u = to \/ (TakesPart(s, u) /\ u # s[i].user)
  <1> DEFINE r == [s EXCEPT ![i].state = "delegated", ![i].delegatedTo = to]
             e == Entry(to, s[i].state)
             t == HandOver(s, i, to)
  <1>1. PICK n \in Nat : /\ s \in Lists /\ n = Len(s) /\ DOMAIN s = 1..n
                         /\ s \in [1..n -> Entries]
    BY ListIs DEF Good
  <1>2. i \in 1..n /\ s[i].state \in OpenStates
    BY <1>1 DEF Open, Within
  <1>3. /\ [[s[i] EXCEPT !.state = "delegated"] EXCEPT !.delegatedTo = to] \in Entries
        /\ [[s[i] EXCEPT !.state = "delegated"] EXCEPT !.delegatedTo = to].state = "delegated"
        /\ [[s[i] EXCEPT !.state = "delegated"] EXCEPT !.delegatedTo = to].delegatedTo = to
        /\ [[s[i] EXCEPT !.state = "delegated"] EXCEPT !.delegatedTo = to].user = s[i].user
    <2>1. s[i] \in Entries /\ "delegated" \in EntryStates
      BY <1>1, <1>2 DEF EntryStates, DeadStates
    <2> QED BY <2>1 DEF Entries
  <1>4. /\ r \in [1..n -> Entries] /\ DOMAIN r = 1..n
        /\ r[i].state = "delegated" /\ r[i].delegatedTo = to /\ r[i].user = s[i].user
        /\ \A j \in 1..n : j # i => r[j] = s[j]
    <2>1. r = [s EXCEPT ![i] = [[s[i] EXCEPT !.state = "delegated"] EXCEPT !.delegatedTo = to]]
      BY <1>1, <1>2
    <2> HIDE DEF r
    <2> QED BY <1>1, <1>2, <1>3, <2>1
  <1> HIDE DEF r
  <1>5. r \in Lists /\ Len(r) = n
    BY <1>4
  <1>6. e \in Entries /\ e.user = to /\ e.state = s[i].state
    <2>1. s[i].state \in EntryStates
      BY <1>2 DEF EntryStates
    <2> QED BY <2>1 DEF Entry, Entries
  <1> HIDE DEF e
  <1>7. t = InsertAt(r, i + 1, e)
    BY DEF HandOver, r, e
  <1> HIDE DEF t
  <1>8. t \in Lists /\ Spliced(r, <<e>>, t)
    <2>1. i + 1 \in 1..(Len(r) + 1)
      BY <1>2, <1>5
    <2> QED BY <1>5, <1>6, <1>7, <2>1, InsertPuts
  <1>9. Len(t) = n + 1
    <2>1. Cardinality(DOMAIN t) = Cardinality(DOMAIN r) + Cardinality(DOMAIN <<e>>)
      <3>1. /\ Within(t, EntryStates) = DOMAIN t /\ Within(r, EntryStates) = DOMAIN r
            /\ Within(<<e>>, EntryStates) = DOMAIN <<e>>
        <4>1. \A q \in Lists : \A j \in DOMAIN q : q[j].state \in EntryStates
          BY ListIs DEF Entries
        <4>2. <<e>> \in Lists
          BY <1>6
        <4> QED BY <1>5, <1>8, <4>1, <4>2 DEF Within
      <3>2. <<e>> \in Lists
        BY <1>6
      <3>3. Cardinality(Within(t, EntryStates)) =
              Cardinality(Within(r, EntryStates)) + Cardinality(Within(<<e>>, EntryStates))
        <4> DEFINE q == <<e>>
        <4>1. q \in Lists /\ Spliced(r, q, t)
          BY <1>8, <3>2
        <4> HIDE DEF q
        <4>2. Cardinality(Within(t, EntryStates)) =
                Cardinality(Within(r, EntryStates)) + Cardinality(Within(q, EntryStates))
          BY <1>5, <1>8, <4>1, SplicedCount
        <4> QED BY <4>2 DEF q
      <3> QED BY <3>1, <3>3
    <2>2. \A k \in Nat : Cardinality(1..k) = k
      BY FS_Interval
    <2>3. DOMAIN t = 1..Len(t) /\ Len(t) \in Nat /\ DOMAIN <<e>> = 1..1
      BY <1>8, ListIs
    <2> QED BY <1>4, <2>1, <2>2, <2>3
  <1>10. /\ Live(r) = Live(s) \ {i} /\ Open(r) = Open(s) \ {i}
         /\ Within(r, ApprovedStates) = Within(s, ApprovedStates)
         /\ Within(r, {"rejected"}) = Within(s, {"rejected"})
         /\ Within(r, {"pending"}) = Within(s, {"pending"}) \ {i}
         /\ i \in Live(s) /\ i \in Open(s)
    BY <1>1, <1>2, <1>4 DEF Live, Open, Within, OpenStates, DeadStates, ApprovedStates
  <1>11. /\ Fits(r) /\ OneEach(r) /\ Within(r, {"cancelled"}) = {}
    <2>1. "delegated" \in StatesHere
      BY DEF StatesHere, DeadStates
    <2>2. Fits(r)
      <3>1. ASSUME NEW j \in 1..n
            PROVE  r[j].state \in StatesHere /\ (r[j].state = "waiting" => step.mode = "sequential")
        BY <1>1, <1>4, <2>1 DEF Good, Fits
      <3> QED BY <1>4, <3>1 DEF Fits
    <2>3. OneEach(r)
      <3>1. \A j \in Live(s) : j \in 1..n
        BY <1>1 DEF Live
      <3> QED BY <1>4, <1>10, <3>1 DEF Good, OneEach
    <2>4. Within(r, {"cancelled"}) = {}
      BY <1>1, <1>4 DEF Good, Within
    <2> QED BY <2>2, <2>3, <2>4
  <1>12. \A u : TakesPart(r, u) <=> TakesPart(s, u) /\ u # s[i].user
    <2>1. ASSUME NEW u, TakesPart(r, u) PROVE TakesPart(s, u) /\ u # s[i].user
      <3>1. PICK j \in Live(s) : j # i /\ r[j].user = u
        BY <1>10, <2>1 DEF TakesPart
      <3>2. j \in 1..n /\ s[j].user = u
        BY <1>1, <1>4, <3>1 DEF Live
      <3> QED BY <1>10, <3>1, <3>2 DEF TakesPart, Good, OneEach
    <2>2. ASSUME NEW u, TakesPart(s, u), u # s[i].user PROVE TakesPart(r, u)
      <3>1. PICK j \in Live(s) : s[j].user = u
        BY <2>2 DEF TakesPart
      <3>2. j \in 1..n /\ j # i
        BY <1>1, <2>2, <3>1 DEF Live
      <3> QED BY <1>4, <1>10, <3>1, <3>2 DEF TakesPart
    <2> QED BY <2>1, <2>2
  <1> DEFINE new == <<e>>
  <1>13. /\ new \in Lists /\ DOMAIN new = 1..1 /\ new[1] = e /\ 1 \in DOMAIN new
         /\ Fits(new) /\ OneEach(new)
         /\ \A j \in DOMAIN new : new[j] = e
    <2>1. new \in Lists /\ DOMAIN new = 1..1 /\ new[1] = e /\ 1 \in DOMAIN new
      BY <1>6
    <2> HIDE DEF new
    <2>2. \A j \in DOMAIN new : j = 1
      BY <2>1
    <2>3. e.state \in StatesHere /\ (e.state = "waiting" => step.mode = "sequential")
      BY <1>1, <1>2, <1>6 DEF Good, Fits
    <2> QED BY <2>1, <2>2, <2>3 DEF Fits, OneEach, Live
  <1> HIDE DEF new
  <1>14. Spliced(r, new, t)
    BY <1>8 DEF new
  <1>15. /\ Fits(t) /\ OneEach(t) /\ Within(t, {"cancelled"}) = {}
         /\ More(r, t) /\ Keeps(r, t)
         /\ \A u : TakesPart(t, u) => TakesPart(r, u) \/ \E j \in DOMAIN new : new[j].user = u
    <2>1. ASSUME NEW j \in DOMAIN new
          PROVE  new[j].state \in OpenStates /\ ~TakesPart(r, new[j].user)
      BY <1>2, <1>6, <1>12, <1>13
    <2> QED BY <1>5, <1>8, <1>11, <1>13, <1>14, <2>1, Joined
  <1>16. Followed(t)
    <2>1. MadeOf(r, new, t)
      BY <1>14, SplicedParts
    <2>2. ASSUME NEW k \in DOMAIN t, t[k].state = "delegated"
          PROVE  \E l \in DOMAIN t : t[l].user = t[k].delegatedTo
      <3>1. PICK j \in DOMAIN r : t[k] = r[j]
        BY <1>2, <1>6, <1>13, <2>1, <2>2 DEF MadeOf, OpenStates
      <3>2. CASE j = i
        <4>1. PICK l \in DOMAIN t : t[l] = e
          BY <1>13, <2>1 DEF MadeOf
        <4> QED BY <1>4, <1>6, <3>1, <3>2, <4>1
      <3>3. CASE j # i
        <4>1. j \in DOMAIN s /\ t[k] = s[j]
          BY <1>1, <1>4, <3>1, <3>3
        <4>2. j \in Within(s, {"delegated"})
          BY <2>2, <4>1 DEF Within
        <4>3. PICK m \in DOMAIN s : s[m].user = s[j].delegatedTo
          BY <4>2 DEF Good, Followed
        <4>4. m \in DOMAIN r /\ r[m].user = s[m].user
          BY <1>1, <1>4
        <4>5. PICK l \in DOMAIN t : t[l] = r[m]
          BY <2>1, <4>4 DEF MadeOf
        <4> QED BY <4>1, <4>3, <4>4, <4>5
      <3> QED BY <3>2, <3>3
    <2> QED BY <2>2 DEF Followed, Within
  <1>17. Keeps(s, t)
    <2>1. Keeps(s, r)
      <3>1. ASSUME NEW j \in Within(s, DecidedStates) PROVE s[j] \in Range(r)
        <4>1. j \in 1..n /\ s[j].state \in DecidedStates
          BY <1>1 DEF Within
        <4>2. j # i
          BY <1>2, <4>1, StateNames DEF OpenStates
        <4> QED BY <1>4, <4>1, <4>2 DEF Range
      <3> QED BY <3>1 DEF Keeps
    <2> QED BY <1>15, <2>1, KeepsAndKeeps
  <1>18. More(s, t)
    <2>1. /\ Cardinality(Live(r)) = Cardinality(Live(s)) - 1
          /\ Cardinality(Open(r)) = Cardinality(Open(s)) - 1
      <3>1. IsFiniteSet(Live(s)) /\ IsFiniteSet(Open(s))
        BY <1>1, WithinIs, LiveIs DEF Open
      <3> QED BY <1>10, <3>1, FS_RemoveElement
    <2>2. /\ Within(new, LiveStates) = {1} /\ Within(new, OpenStates) = {1}
          /\ Within(new, ApprovedStates) = {} /\ Within(new, {"rejected"}) = {}
      <3>1. /\ e.state \in LiveStates /\ e.state \in OpenStates
            /\ e.state \notin ApprovedStates /\ e.state # "rejected"
        BY <1>2, <1>6, StateNames DEF OpenStates
      <3>2. \A j \in DOMAIN new : j = 1
        BY <1>13
      <3> QED BY <1>13, <3>1, <3>2 DEF Within
    <2>3. \A states : Cardinality(Within(t, states)) =
                        Cardinality(Within(r, states)) + Cardinality(Within(new, states))
      BY <1>5, <1>8, <1>13, <1>14, SplicedCount
    <2>4. Cardinality({1}) = 1 /\ Cardinality({}) = 0
      BY FS_Singleton, FS_EmptySet
    <2>5. \A q \in Lists : Live(q) = Within(q, LiveStates)
      BY LiveIs
    <2>6. /\ Cardinality(Live(t)) = Cardinality(Live(r)) + 1
          /\ Cardinality(Open(t)) = Cardinality(Open(r)) + 1
      <3>1. /\ Cardinality(Within(t, LiveStates)) = Cardinality(Within(r, LiveStates)) + 1
            /\ Cardinality(Within(t, OpenStates)) = Cardinality(Within(r, OpenStates)) + 1
        BY <2>2, <2>3, <2>4
      <3> QED BY <1>5, <1>8, <2>5, <3>1 DEF Open
    <2>7. /\ Cardinality(Live(s)) \in Nat /\ Cardinality(Open(s)) \in Nat
      BY <1>1, CountsAre
    <2>8. Cardinality(Live(t)) = Cardinality(Live(s)) + 0 /\ Cardinality(Open(t)) = Cardinality(Open(s)) + 0
      BY <2>1, <2>6, <2>7
    <2>9. Approvals(t) = Approvals(s) /\ (Within(t, {"rejected"}) = {} <=> Within(s, {"rejected"}) = {})
      BY <1>10, <1>15 DEF More, Approvals
    <2>10. ASSUME Within(s, {"pending"}) # {} PROVE Within(t, {"pending"}) # {}
      <3>1. CASE Within(r, {"pending"}) # {}
        BY <1>15, <3>1 DEF More
      <3>2. CASE Within(r, {"pending"}) = {}
        <4>1. s[i].state = "pending"
          BY <1>10, <2>10, <3>2 DEF Within
        <4>2. MadeOf(r, new, t)
          BY <1>14, SplicedParts
        <4>3. PICK l \in DOMAIN t : t[l] = e
          BY <1>13, <4>2 DEF MadeOf
        <4> QED BY <1>6, <4>1, <4>3 DEF Within
      <3> QED BY <3>1, <3>2
    <2> QED BY <2>8, <2>9, <2>10 DEF More
  <1>19. \A u : TakesPart(t, u) => u = to \/ (TakesPart(s, u) /\ u # s[i].user)
    <2>1. ASSUME NEW u, TakesPart(t, u) PROVE u = to \/ (TakesPart(s, u) /\ u # s[i].user)
      BY <1>6, <1>12, <1>13, <1>15, <2>1
    <2> QED BY <2>1
  <1> QED BY <1>1, <1>2, <1>8, <1>9, <1>15, <1>16, <1>17, <1>18, <1>19 DEF Good, t

\* A list that puts a question, in some state, to each of some people.
Asks(new, users, state) ==
    /\ new \in Lists /\ Fits(new) /\ OneEach(new) /\ Len(new) = Len(users)
    /\ \A j \in DOMAIN new : new[j].state = state /\ \E k \in DOMAIN users : new[j].user = users[k]
    /\ Within(new, DeadStates) = {}

\* Questions put to some people, in their order or in the reverse of it.
LEMMA Questions ==
    ASSUME NEW users \in Seq(People), IsInjective(users), NEW state \in OpenStates,
           state = "waiting" => step.mode = "sequential"
    PROVE  LET q == [k \in DOMAIN users |-> Entry(users[k], state)]
           IN  Asks(q, users, state) /\ Asks(Reverse(q), users, state)
  <1> DEFINE q == [k \in DOMAIN users |-> Entry(users[k], state)]
  <1>1. PICK n \in Nat : n = Len(users) /\ DOMAIN users = 1..n /\ users \in [1..n -> People]
    BY LenProperties
  <1>2. ASSUME NEW u \in People
        PROVE  Entry(u, state) \in Entries /\ Entry(u, state).user = u /\ Entry(u, state).state = state
    <2>1. state \in EntryStates
      BY DEF EntryStates
    <2> QED BY <2>1 DEF Entry, Entries
  <1>3. /\ q \in [1..n -> Entries] /\ DOMAIN q = 1..n
        /\ \A k \in 1..n : q[k].user = users[k] /\ q[k].state = state
    BY <1>1, <1>2
  <1> HIDE DEF q
  <1>4. q \in Lists /\ Len(q) = n
    BY <1>3
  <1> DEFINE r == Reverse(q)
  <1>5. /\ r \in [1..n -> Entries] /\ DOMAIN r = 1..n
        /\ \A k \in 1..n : /\ (n - k) + 1 \in 1..n
                           /\ r[k].user = users[(n - k) + 1] /\ r[k].state = state
    <2>1. r = [k \in 1..n |-> q[(n - k) + 1]]
      BY <1>4 DEF Reverse
    <2>2. \A k \in 1..n : (n - k) + 1 \in 1..n
      OBVIOUS
    <2> HIDE DEF r
    <2> QED BY <1>3, <2>1, <2>2
  <1> HIDE DEF r
  <1>6. r \in Lists /\ Len(r) = n
    BY <1>5
  <1>7. ASSUME NEW new \in Lists, Len(new) = n, DOMAIN new = 1..n,
               \A k \in 1..n : new[k].state = state /\ \E l \in 1..n : new[k].user = users[l],
               \A k, l \in 1..n : new[k].user = new[l].user => k = l
        PROVE  Asks(new, users, state)
    <2>1. state \in StatesHere /\ state \notin DeadStates
      BY DEF StatesHere, OpenStates, DeadStates
    <2>2. Fits(new)
      <3>1. ASSUME NEW j \in 1..n
            PROVE  new[j].state \in StatesHere /\ (new[j].state = "waiting" => step.mode = "sequential")
        <4>1. new[j].state = state
          BY <1>7
        <4> QED BY <2>1, <4>1
      <3> QED BY <1>7, <3>1 DEF Fits
    <2>3. OneEach(new)
      <3>1. \A k \in Live(new) : k \in 1..n
        BY <1>7 DEF Live
      <3> QED BY <1>7, <3>1 DEF OneEach
    <2>4. Within(new, DeadStates) = {}
      <3>1. ASSUME NEW j \in DOMAIN new PROVE new[j].state \notin DeadStates
        <4>1. new[j].state = state
          BY <1>7
        <4> QED BY <2>1, <4>1
      <3> QED BY <3>1 DEF Within
    <2> QED BY <1>1, <1>7, <2>2, <2>3, <2>4 DEF Asks
  <1>8. \A k, l \in 1..n : users[k] = users[l] => k = l
    BY <1>1 DEF IsInjective
  <1>9. \A k, l \in 1..n : q[k].user = q[l].user => k = l
    BY <1>3, <1>8
  <1>10. ASSUME NEW k \in 1..n, NEW l \in 1..n, r[k].user = r[l].user PROVE k = l
    <2>1. (n - k) + 1 = (n - l) + 1
      BY <1>5, <1>8, <1>10
    <2> QED BY <2>1
  <1>11. \A k \in 1..n : q[k].state = state /\ \E l \in 1..n : q[k].user = users[l]
    BY <1>3
  <1>12. \A k \in 1..n : r[k].state = state /\ \E l \in 1..n : r[k].user = users[l]
    BY <1>5
  <1>13. Asks(q, users, state)
    BY <1>3, <1>4, <1>7, <1>9, <1>11
  <1>14. Asks(r, users, state)
    BY <1>5, <1>6, <1>7, <1>10, <1>12
  <1> QED BY <1>13, <1>14 DEF q, r

\* Questions put alongside one leave a good list good.
LEMMA AlongsideIsGood ==
    ASSUME NEW s, Good(s), NEW i \in 1..Len(s), i + 1 <= Len(s),
           NEW users \in Seq(People), IsInjective(users), NEW state \in OpenStates,
           state = "waiting" => step.mode = "sequential",
           \A k \in DOMAIN users : ~TakesPart(s, users[k])
    PROVE  LET t == Alongside(s, i, state, users)
           IN  Good(t) /\ More(s, t) /\ Keeps(s, t)
  <1> DEFINE new == Reverse([k \in DOMAIN users |-> Entry(users[k], state)])
             t == Alongside(s, i, state, users)
  <1>1. s \in Lists /\ Len(s) \in Nat
    BY ListIs DEF Good
  <1>2. /\ new \in Lists /\ Fits(new) /\ OneEach(new)
        /\ \A j \in DOMAIN new : new[j].state \in OpenStates /\ ~TakesPart(s, new[j].user)
    <2>1. Asks(new, users, state)
      BY Questions
    <2> HIDE DEF new
    <2> QED BY <2>1 DEF Asks
  <1> HIDE DEF new
  <1>3. t = SubSeq(s, 1, i + 1) \o new \o SubSeq(s, (i + 1) + 1, Len(s))
    <2>1. i + 2 = (i + 1) + 1
      OBVIOUS
    <2> QED BY <2>1 DEF Alongside, new
  <1>4. t \in Lists /\ Spliced(s, new, t)
    <2>1. i + 1 \in 0..Len(s)
      BY <1>1
    <2> QED BY <1>1, <1>2, <1>3, <2>1, PutBehind
  <1> HIDE DEF t
  <1>5. /\ Fits(t) /\ OneEach(t) /\ Within(t, {"cancelled"}) = {} /\ Followed(t)
        /\ More(s, t) /\ Keeps(s, t)
    BY <1>1, <1>2, <1>4, Joined DEF Good
  <1> QED BY <1>4, <1>5 DEF Good, t

-----------------------------------------------------------------------------
(* The list a round starts with.                                            *)

\* Among some numbers there is one for every rank: the least of those above the
\* one of the rank before.
LEMMA EveryRank ==
    ASSUME NEW S \in SUBSET Nat, IsFiniteSet(S), NEW k \in 1..Cardinality(S)
    PROVE  \E i \in S : Cardinality({j \in S : j <= i}) = k
  <1> DEFINE Below(i) == {j \in S : j <= i}
             Ranked(n) == \E i \in S : Cardinality(Below(i)) = n
             Bad == {n \in 1..Cardinality(S) : ~Ranked(n)}
  <1>0. Cardinality(S) \in Nat
    BY FS_CardinalityType
  <1>1. Bad = {}
    <2> SUFFICES ASSUME Bad # {} PROVE FALSE
      OBVIOUS
    <2>1. PICK n \in Bad : \A m \in Bad : n <= m
      <3>1. Bad \in SUBSET Nat
        BY <1>0
      <3> HIDE DEF Bad
      <3> QED BY <3>1, LeastNat
    <2>2. n \in 1..Cardinality(S) /\ ~Ranked(n)
      BY <2>1
    <2>3. PICK D \in SUBSET S : /\ Cardinality(D) = n - 1
                                /\ \A x \in D, y \in S \ D : x < y
      <3>1. CASE n = 1
        <4>1. Cardinality({}) = n - 1
          BY <3>1, FS_EmptySet
        <4> QED BY <4>1
      <3>2. CASE n # 1
        <4>1. n - 1 \in 1..Cardinality(S) /\ n - 1 \notin Bad
          <5>1. n - 1 \in 1..Cardinality(S) /\ ~(n <= n - 1)
            BY <1>0, <2>2, <3>2
          <5> QED BY <2>1, <5>1
        <4>2. PICK i \in S : Cardinality(Below(i)) = n - 1
          BY <4>1
        <4>3. \A x \in Below(i), y \in S \ Below(i) : x < y
          OBVIOUS
        <4> QED BY <4>2, <4>3
      <3> QED BY <3>1, <3>2
    <2>4. S \ D # {}
      <3>1. SUFFICES ASSUME S = D PROVE FALSE
        BY <2>3
      <3> QED BY <1>0, <2>2, <2>3, <3>1
    <2>5. PICK i \in S \ D : \A y \in S \ D : i <= y
      <3>1. S \ D \in SUBSET Nat
        OBVIOUS
      <3> QED BY <2>4, <3>1, LeastNat
    <2>6. Below(i) = D \cup {i}
      <3>1. ASSUME NEW j \in Below(i) PROVE j \in D \cup {i}
        <4>1. j \in S /\ j <= i /\ j \in Nat /\ i \in Nat
          BY <3>1
        <4>2. j \notin D => i <= j
          BY <2>5, <4>1
        <4> QED BY <4>1, <4>2
      <3>2. ASSUME NEW j \in D PROVE j \in Below(i)
        <4>1. j < i /\ j \in S /\ j \in Nat /\ i \in Nat
          BY <2>3, <2>5
        <4> QED BY <4>1
      <3>3. i \in Below(i)
        BY <2>5
      <3> QED BY <3>1, <3>2, <3>3
    <2>7. IsFiniteSet(D)
      BY FS_Subset
    <2>8. Cardinality(D \cup {i}) = n
      <3>1. Cardinality(D \cup {i}) = Cardinality(D) + 1
        BY <2>5, <2>7, FS_AddElement
      <3> QED BY <1>0, <2>2, <2>3, <3>1
    <2>9. Ranked(n)
      BY <2>5, <2>6, <2>8
    <2> QED BY <2>2, <2>9
  <1>2. Ranked(k)
    BY <1>1
  <1> QED BY <1>2

\* The approvers added in the round before, whom the list lacks, are asked once
\* each.
LEMMA AddedBeforeIs ==
    ASSUME previous \in Lists, OneEach(previous), NEW list
    PROVE  /\ AddedBefore(list) \in Lists /\ OneEach(AddedBefore(list))
           /\ \A k \in DOMAIN AddedBefore(list) :
                /\ AddedBefore(list)[k].state = "pending"
                /\ \A j \in DOMAIN list : list[j].user # AddedBefore(list)[k].user
  <1> DEFINE kept == {i \in Live(previous) :
                        /\ previous[i].addedBy # NoOne
                        /\ \A j \in DOMAIN list : list[j].user # previous[i].user}
             n == Cardinality(kept)
             rank(i) == Cardinality({j \in kept : j <= i})
             nth(k) == CHOOSE i \in kept : rank(i) = k
             new == AddedBefore(list)
  <1>1. kept \in SUBSET Live(previous) /\ kept \in SUBSET Nat /\ IsFiniteSet(kept)
    <2>1. Live(previous) \in SUBSET Nat /\ IsFiniteSet(Live(previous))
      BY WithinIs, LiveIs
    <2> QED BY <2>1, FS_Subset
  <1>2. n \in Nat
    BY <1>1, FS_CardinalityType
  <1>3. \A k \in 1..n : nth(k) \in kept /\ rank(nth(k)) = k
    <2> HIDE DEF kept
    <2>1. \A k \in 1..n : \E i \in kept : rank(i) = k
      BY <1>1, EveryRank
    <2> QED BY <2>1
  <1>4. \A k \in 1..n : previous[nth(k)] \in Entries
    <2>1. \A i \in Live(previous) : previous[i] \in Entries
      BY ListIs DEF Live
    <2> QED BY <1>1, <1>3, <2>1
  <1>5. \A i \in kept : \A j \in DOMAIN list : list[j].user # previous[i].user
    OBVIOUS
  <1>6. new = [k \in 1..n |-> [Entry(previous[nth(k)].user, "pending")
                                 EXCEPT !.addedBy = previous[nth(k)].addedBy]]
    BY DEF AddedBefore, AskAgain
  <1> HIDE DEF new, kept, n
  <1>7. ASSUME NEW e \in Entries
        PROVE  /\ [Entry(e.user, "pending") EXCEPT !.addedBy = e.addedBy] \in Entries
               /\ [Entry(e.user, "pending") EXCEPT !.addedBy = e.addedBy].user = e.user
               /\ [Entry(e.user, "pending") EXCEPT !.addedBy = e.addedBy].state = "pending"
    BY DEF Entry, Entries, EntryStates, OpenStates
  <1>8. /\ DOMAIN new = 1..n
        /\ \A k \in 1..n : new[k] \in Entries /\ new[k].state = "pending"
                           /\ new[k].user = previous[nth(k)].user
    <2> HIDE DEF nth
    <2> QED BY <1>4, <1>6, <1>7
  <1>9. new \in Lists
    <2>1. new \in [1..n -> Entries]
      BY <1>6, <1>8
    <2> QED BY <1>2, <2>1
  <1>10. OneEach(new)
    <2>1. ASSUME NEW k \in 1..n, NEW l \in 1..n, new[k].user = new[l].user PROVE k = l
      <3>1. nth(k) \in Live(previous) /\ nth(l) \in Live(previous)
        BY <1>1, <1>3
      <3>2. previous[nth(k)].user = previous[nth(l)].user
        BY <1>8, <2>1
      <3>3. nth(k) = nth(l)
        BY <3>1, <3>2 DEF OneEach
      <3> QED BY <1>3, <3>3
    <2>2. \A k \in Live(new) : k \in 1..n
      BY <1>8 DEF Live
    <2> QED BY <2>1, <2>2 DEF OneEach
  <1>11. \A k \in 1..n : \A j \in DOMAIN list : list[j].user # new[k].user
    <2> HIDE DEF nth
    <2>1. ASSUME NEW k \in 1..n, NEW j \in DOMAIN list PROVE list[j].user # new[k].user
      BY <1>3, <1>5, <1>8
    <2> QED BY <2>1
  <1> QED BY <1>8, <1>9, <1>10, <1>11 DEF new

\* A round starts with a good list, whatever it keeps of the round before.
LEMMA FirstListIsGood ==
    ASSUME step \in Steps, previous \in Lists, OneEach(previous),
           NEW list \in Seq(People), IsInjective(list)
    PROVE  LET all == [i \in DOMAIN list |-> Entry(list[i], "pending")]
           IN  Good(all) /\ (step.type = "approval" => Good(CarryOver(all)))
  <1> DEFINE all == [i \in DOMAIN list |-> Entry(list[i], "pending")]
  <1>1. "pending" \in OpenStates /\ "pending" \in StatesHere /\ "pending" \notin DeadStates
    BY DEF OpenStates, StatesHere, DeadStates
  <1>2. Asks(all, list, "pending")
    BY <1>1, Questions
  <1> HIDE DEF all
  <1>3. /\ all \in Lists /\ Fits(all) /\ OneEach(all) /\ Within(all, DeadStates) = {}
        /\ \A i \in DOMAIN all : all[i].state = "pending"
    BY <1>2 DEF Asks
  <1>4. ASSUME NEW s \in Lists, Fits(s), OneEach(s), \A i \in DOMAIN s : s[i].state = "pending"
        PROVE  Good(s) /\ Live(s) = DOMAIN s
    BY <1>4 DEF Good, Followed, Within, Live, DeadStates
  <1>5. Good(all)
    BY <1>3, <1>4
  <1>6. ASSUME step.type = "approval", ~(round = 1 \/ step.reapproval # "rejecters_only")
        PROVE  Good(CarryOver(all))
    <2> DEFINE new == AddedBefore(all)
               both == all \o new
               P == {i \in DOMAIN both : both[i].user \in Approvers}
    <2>1. /\ new \in Lists /\ OneEach(new)
          /\ \A k \in DOMAIN new : /\ new[k].state = "pending"
                                   /\ \A j \in DOMAIN all : all[j].user # new[k].user
      BY AddedBeforeIs
    <2> HIDE DEF new
    <2>2. Fits(new)
      BY <1>1, <2>1 DEF Fits
    <2>3. both \in Lists /\ Spliced(all, new, both)
      BY <1>3, <2>1, EndPuts
    <2> HIDE DEF both
    <2>4. \A k \in DOMAIN new : new[k].state \in OpenStates /\ ~TakesPart(all, new[k].user)
      BY <1>1, <2>1 DEF TakesPart, Live
    <2>5. Fits(both) /\ OneEach(both)
      BY <1>3, <1>5, <2>1, <2>2, <2>3, <2>4, Joined DEF Good
    <2>6. \A k \in DOMAIN both : both[k].state = "pending"
      <3>1. MadeOf(all, new, both)
        BY <2>3, SplicedParts
      <3> QED BY <1>3, <2>1, <3>1 DEF MadeOf
    <2>7. Good(both) /\ Live(both) = DOMAIN both
      BY <1>4, <2>3, <2>5, <2>6
    <2>8. /\ "carried" \in EntryStates /\ "carried" \in StatesHere
          /\ "carried" \notin DeadStates /\ "carried" # "waiting"
      BY <1>6 DEF EntryStates, StatesHere, DeadStates
    <2>9. P \in SUBSET Live(both)
      BY <2>7
    <2>10. CarryOver(all) = WithState(both, P, "carried")
      BY <1>6 DEF CarryOver, both, new
    <2> HIDE DEF P
    <2> QED BY <2>7, <2>8, <2>9, <2>10, RestatedIsGood
  <1>7. ASSUME round = 1 \/ step.reapproval # "rejecters_only" PROVE CarryOver(all) = all
    BY <1>7 DEF CarryOver
  <1> QED BY <1>5, <1>6, <1>7 DEF all

-----------------------------------------------------------------------------
(* What the answers add up to.                                              *)

\* The two ways of counting approvals, the quorum and mode "any".
LEMMA ApprovalIs ==
    ASSUME step \in Steps, NEW s \in Lists
    PROVE  LET negative == IF Within(s, {"rejected"}) # {} THEN "rejected" ELSE "remarks"
           IN  /\ step.mode = "any" =>
                    ApprovalOutcome(s) =
                      IF Approvals(s) # 0 THEN "approved"
                      ELSE IF Within(s, {"rejected", "remarks"}) # {} THEN negative ELSE NoOne
               /\ step.mode # "any" =>
                    ApprovalOutcome(s) =
                      IF ~(Approvals(s) < Needed(s)) THEN "approved"
                      ELSE IF /\ Impossible(s)
                              /\ \/ step.mode = "sequential"
                                 \/ Within(s, {"rejected"}) # {}
                                 \/ Open(s) = {}
                           THEN negative ELSE NoOne
  <1>1. Approvals(s) \in Nat /\ Needed(s) \in Nat
    BY CountsAre
  <1>2. CASE step.mode = "any" /\ Approvals(s) # 0
    <2>1. Approvals(s) > 0
      BY <1>1, <1>2
    <2> QED BY <1>2, <2>1 DEF ApprovalOutcome
  <1>3. CASE step.mode = "any" /\ Approvals(s) = 0
    <2>1. ~(Approvals(s) > 0)
      BY <1>1, <1>3
    <2> QED BY <1>3, <2>1 DEF ApprovalOutcome
  <1>4. CASE step.mode # "any" /\ ~(Approvals(s) < Needed(s))
    <2>1. Approvals(s) >= Needed(s)
      BY <1>1, <1>4
    <2> QED BY <1>4, <2>1 DEF ApprovalOutcome
  <1>5. CASE step.mode # "any" /\ Approvals(s) < Needed(s)
    <2>1. ~(Approvals(s) >= Needed(s))
      BY <1>1, <1>5
    <2> QED BY <1>5, <2>1 DEF ApprovalOutcome
  <1> QED BY <1>2, <1>3, <1>4, <1>5

\* An outcome is one of the names, or there is none; back only when not granted.
LEMMA OutcomeNames ==
    ASSUME step \in Steps, NEW s \in Lists
    PROVE  /\ OutcomeOf(s) \in Outcomes \cup {NoOne}
           /\ After(OutcomeOf(s)) \in {"onward", "finished", "back"}
           /\ After(OutcomeOf(s)) = "back" => OutcomeOf(s) \notin Granted
  <1>1. /\ step.type \in {"approval", "sign", "acknowledge", "register"}
        /\ step.onReject \in {"end", "continue", "return"}
    BY StepsAssumption
  <1>2. ApprovalOutcome(s) \in Outcomes \cup {NoOne}
    BY ApprovalIs DEF Outcomes, Granted
  <1>3. OutcomeOf(s) \in Outcomes \cup {NoOne}
    BY <1>1, <1>2 DEF OutcomeOf, SignOutcome, Outcomes, Granted
  <1>4. After(OutcomeOf(s)) \in {"onward", "finished", "back"}
    BY <1>1 DEF After
  <1>5. OutcomeOf(s) \in Granted => After(OutcomeOf(s)) = "onward"
    BY DEF After
  <1> QED BY <1>3, <1>4, <1>5

\* What a live entry of a list can be, by the kind of the step.
LEMMA LiveOnes ==
    ASSUME step \in Steps, NEW s \in Lists, Fits(s), NEW i \in Live(s)
    PROVE  /\ i \in DOMAIN s
           /\ \/ i \in Open(s)
              \/ step.type = "approval" /\ i \in Within(s, ApprovedStates)
              \/ step.type = "approval" /\ i \in Within(s, {"rejected", "remarks"})
              \/ step.type = "sign"
              \/ step.type = "acknowledge"
              \/ step.type = "register" /\ i \in Within(s, {"registered"})
  <1>1. i \in DOMAIN s /\ s[i].state \notin DeadStates /\ s[i].state \in StatesHere
    BY DEF Live, Within, Fits
  <1>2. step.type \in {"approval", "sign", "acknowledge", "register"}
    BY StepsAssumption
  <1>3. CASE step.type = "approval"
    BY <1>1, <1>3 DEF StatesHere, DecisionsOf, Open, Within, ApprovedStates
  <1>4. CASE step.type = "register"
    BY <1>1, <1>4 DEF StatesHere, DecisionsOf, Open, Within
  <1> QED BY <1>1, <1>2, <1>3, <1>4

\* A step without an outcome has somebody to wait for and, where approvals are
\* counted, something to wait for.
LEMMA StillWaiting ==
    ASSUME step \in Steps, NEW s, Good(s), OutcomeOf(s) = NoOne, Live(s) # {}
    PROVE  Open(s) # {} /\ (Counted => Undecided(s))
  <1>1. s \in Lists /\ Fits(s)
    BY DEF Good
  <1>2. /\ step.type \in {"approval", "sign", "acknowledge", "register"}
        /\ step.mode \in {"parallel", "sequential", "any", "none"}
        /\ step.type \in {"acknowledge", "register"} <=> step.mode = "none"
    BY StepsAssumption
  <1>3. NoOne \notin Outcomes
    BY StepsAssumption
  <1>4. PICK i \in Live(s) : TRUE
    OBVIOUS
  <1>5. CASE step.type = "approval" /\ step.mode = "any"
    <2>1. ApprovalOutcome(s) = NoOne
      BY <1>5 DEF OutcomeOf
    <2>2. Approvals(s) = 0 /\ Within(s, {"rejected", "remarks"}) = {}
      BY <1>1, <1>3, <1>5, <2>1, ApprovalIs DEF Outcomes, Granted
    <2>3. Within(s, ApprovedStates) = {}
      BY <1>1, <2>2, WithinIs DEF Approvals
    <2>4. i \in Open(s)
      BY <1>1, <1>4, <1>5, <2>2, <2>3, LiveOnes
    <2> QED BY <1>5, <2>4 DEF Counted
  <1>6. CASE step.type = "approval" /\ step.mode # "any"
    <2>1. ApprovalOutcome(s) = NoOne
      BY <1>6 DEF OutcomeOf
    <2>2. /\ Approvals(s) < Needed(s)
          /\ Impossible(s) => /\ step.mode # "sequential"
                              /\ Within(s, {"rejected"}) = {} /\ Open(s) # {}
      BY <1>1, <1>3, <1>6, <2>1, ApprovalIs DEF Outcomes, Granted
    <2>3. Open(s) # {}
      <3>1. SUFFICES ASSUME Open(s) = {} PROVE Impossible(s)
        BY <2>2
      <3>2. Approvals(s) \in Nat /\ Cardinality(Open(s)) = 0
        BY <1>1, <3>1, CountsAre
      <3> QED BY <2>2, <3>2 DEF Impossible
    <2> QED BY <1>2, <1>6, <2>2, <2>3 DEF Undecided
  <1>7. CASE step.type \in {"sign", "acknowledge"}
    BY <1>3, <1>7 DEF OutcomeOf, SignOutcome, Outcomes, Granted, Counted
  <1>8. CASE step.type = "register"
    <2>1. Within(s, {"registered"}) = {}
      BY <1>3, <1>8 DEF OutcomeOf, Outcomes, Granted
    <2>2. i \in Open(s)
      BY <1>1, <1>4, <1>8, <2>1, LiveOnes
    <2> QED BY <1>8, <2>2 DEF Counted
  <1> QED BY <1>2, <1>5, <1>6, <1>7, <1>8

\* The list as it is when the people at some positions have answered, some of
\* them yes.
Answered(s, positions, yes) ==
    [i \in DOMAIN s |->
        IF i \in positions
        THEN [s[i] EXCEPT !.state = IF i \in yes THEN "approved" ELSE "rejected"]
        ELSE s[i]]

\* Everybody who then answered is live, and those who said yes approve.
LEMMA AnswersCount ==
    ASSUME NEW s \in Lists, NEW positions \in SUBSET (DOMAIN s),
           Within(s, ApprovedStates) \cap positions = {}, NEW yes \in SUBSET positions
    PROVE  LET r == Answered(s, positions, yes)
           IN  /\ Live(r) = Live(s) \cup positions
               /\ Approvals(r) = Approvals(s) + Cardinality(yes)
  <1> DEFINE r == Answered(s, positions, yes)
  <1>1. PICK n \in Nat : DOMAIN s = 1..n /\ s \in [1..n -> Entries]
    BY ListIs
  <1>2. ASSUME NEW e \in Entries, NEW x PROVE [e EXCEPT !.state = x].state = x
    BY DEF Entries
  <1>3. /\ DOMAIN r = 1..n
        /\ \A i \in 1..n : r[i].state = IF i \in positions
                                        THEN IF i \in yes THEN "approved" ELSE "rejected"
                                        ELSE s[i].state
    BY <1>1, <1>2 DEF Answered
  <1> HIDE DEF r
  <1>4. Live(r) = Live(s) \cup positions
    BY <1>1, <1>3 DEF Live, Within, DeadStates
  <1>5. Within(r, ApprovedStates) = Within(s, ApprovedStates) \cup yes
    BY <1>1, <1>3 DEF Within, ApprovedStates
  <1>6. /\ IsFiniteSet(Within(s, ApprovedStates)) /\ IsFiniteSet(yes)
        /\ Within(s, ApprovedStates) \cap yes = {}
    <2>1. yes \subseteq DOMAIN s /\ IsFiniteSet(DOMAIN s)
      BY ListIs
    <2> QED BY <2>1, WithinIs, FS_Subset
  <1>7. /\ Cardinality(Within(s, ApprovedStates) \cup yes) =
             Cardinality(Within(s, ApprovedStates)) + Cardinality(yes) - Cardinality({})
        /\ Cardinality({}) = 0
    BY <1>6, FS_Union, FS_EmptySet
  <1>8. Cardinality(Within(s, ApprovedStates)) \in Nat /\ Cardinality(yes) \in Nat
    BY <1>6, FS_CardinalityType
  <1>9. Approvals(r) = Approvals(s) + Cardinality(yes)
    BY <1>5, <1>7, <1>8 DEF Approvals
  <1> QED BY <1>4, <1>9 DEF r

\* Answers are given by some saying yes and the others no.
LEMMA AnswersAre ==
    ASSUME NEW s, NEW positions
    PROVE  /\ \A r \in Answers(s, positions) :
                \E yes \in SUBSET positions : r = Answered(s, positions, yes)
           /\ \A yes \in SUBSET positions : Answered(s, positions, yes) \in Answers(s, positions)
  BY DEF Answers, Answered

\* Approving is having the approvals needed.
LEMMA ApprovesIs ==
    ASSUME NEW s
    PROVE  Approves(s) <=> Approvals(s) >= Needed(s)
  BY DEF Approves, Approvals, Needed

\* What is left of a list when the questions that are open are withdrawn.
LEMMA CancelledIs ==
    ASSUME NEW s, Good(s)
    PROVE  LET t == CancelOpen(s)
           IN  /\ t \in Lists /\ DOMAIN t = DOMAIN s
               /\ Fits(t) /\ OneEach(t) /\ Followed(t) /\ Open(t) = {} /\ Keeps(s, t)
               /\ Live(t) = Live(s) \ Open(s) /\ Within(t, {"cancelled"}) = Open(s)
               /\ Approvals(t) = Approvals(s)
               /\ Within(t, ApprovedStates) = Within(s, ApprovedStates)
  <1> DEFINE t == CancelOpen(s)
  <1>1. s \in Lists /\ Fits(s) /\ OneEach(s) /\ Followed(s) /\ Within(s, {"cancelled"}) = {}
    BY DEF Good
  <1>2. "cancelled" \in EntryStates /\ "cancelled" \in StatesHere
    BY DEF EntryStates, StatesHere, DeadStates
  <1>3. /\ t \in Lists /\ DOMAIN t = DOMAIN s
        /\ \A i \in DOMAIN s :
             /\ t[i].user = s[i].user /\ t[i].delegatedTo = s[i].delegatedTo
             /\ t[i].state = IF i \in Open(s) THEN "cancelled" ELSE s[i].state
             /\ i \notin Open(s) => t[i] = s[i]
    BY <1>1, <1>2, Restated DEF CancelOpen
  <1> HIDE DEF t
  <1>4. /\ Open(s) \subseteq DOMAIN s
        /\ \A i \in DOMAIN s : i \in Open(s) <=> s[i].state \in OpenStates
    BY DEF Open, Within
  <1>5. Open(t) = {}
    <2>1. "cancelled" \notin OpenStates
      BY DEF OpenStates
    <2>2. ASSUME NEW i \in DOMAIN t PROVE t[i].state \notin OpenStates
      BY <1>3, <1>4, <2>1
    <2> QED BY <2>2 DEF Open, Within
  <1>6. Within(t, {"cancelled"}) = Open(s)
    <2>1. \A i \in DOMAIN s : s[i].state # "cancelled"
      BY <1>1 DEF Within
    <2> QED BY <1>3, <1>4, <2>1 DEF Within
  <1>7. Within(t, ApprovedStates) = Within(s, ApprovedStates)
    <2>1. "cancelled" \notin ApprovedStates /\ OpenStates \cap ApprovedStates = {}
      BY StateNames DEF ApprovedStates
    <2> QED BY <1>3, <1>4, <2>1 DEF Within
  <1>8. Live(t) = Live(s) \ Open(s)
    BY <1>3, <1>4 DEF Live, Within, DeadStates
  <1>9. Fits(t)
    BY <1>1, <1>2, <1>3 DEF Fits
  <1>10. OneEach(t)
    <2>1. \A i \in Live(t) : i \in Live(s) /\ i \in DOMAIN s
      BY <1>8 DEF Live
    <2> QED BY <1>1, <1>3, <2>1 DEF OneEach
  <1>11. Followed(t)
    <2>1. ASSUME NEW i \in Within(t, {"delegated"})
          PROVE  \E j \in DOMAIN t : t[j].user = t[i].delegatedTo
      <3>1. i \in DOMAIN s /\ i \in Within(s, {"delegated"})
        BY <1>3, <1>4 DEF Within
      <3>2. PICK j \in DOMAIN s : s[j].user = s[i].delegatedTo
        BY <1>1, <3>1 DEF Followed
      <3> QED BY <1>3, <3>1, <3>2
    <2> QED BY <2>1 DEF Followed
  <1>12. Keeps(s, t)
    <2>1. ASSUME NEW i \in Within(s, DecidedStates) PROVE s[i] \in Range(t)
      <3>1. i \in DOMAIN s /\ s[i].state \in DecidedStates
        BY DEF Within
      <3>2. i \notin Open(s)
        BY <1>4, <3>1, StateNames DEF OpenStates
      <3> QED BY <1>3, <3>1, <3>2 DEF Range
    <2> QED BY <2>1 DEF Keeps
  <1>13. Approvals(t) = Approvals(s)
    BY <1>7 DEF Approvals
  <1> QED BY <1>3, <1>5, <1>6, <1>7, <1>8, <1>9, <1>10, <1>11, <1>12, <1>13 DEF t

\* An outcome is what the answers that were not waited for could not change, and
\* an approval by everybody is one by whoever a question was handed to.
LEMMA OutcomeIsFinal ==
    ASSUME step \in Steps, NEW s, Good(s), OutcomeOf(s) # NoOne
    PROVE  /\ Final(OutcomeOf(s), CancelOpen(s))
           /\ HandedOn(OutcomeOf(s), CancelOpen(s))
  <1> DEFINE t == CancelOpen(s)
             o == OutcomeOf(s)
  <1>1. s \in Lists /\ Fits(s)
    BY DEF Good
  <1>2. /\ t \in Lists /\ DOMAIN t = DOMAIN s /\ Followed(t) /\ Fits(t)
        /\ Open(t) = {} /\ Live(t) = Live(s) \ Open(s) /\ Within(t, {"cancelled"}) = Open(s)
        /\ Approvals(t) = Approvals(s)
        /\ Within(t, ApprovedStates) = Within(s, ApprovedStates)
    BY CancelledIs
  <1> HIDE DEF t
  <1>3. /\ Approvals(s) \in Nat /\ Needed(s) \in Nat /\ Cardinality(Open(s)) \in Nat
        /\ Cardinality(Live(s)) \in Nat /\ IsFiniteSet(Live(s)) /\ IsFiniteSet(Open(s))
        /\ Open(s) \subseteq Live(s) /\ Open(s) \subseteq DOMAIN s
        /\ Within(s, ApprovedStates) \subseteq Live(s)
        /\ Within(s, ApprovedStates) \cap Open(s) = {}
    <2>1. /\ Open(s) \subseteq Live(s) /\ Open(s) \subseteq DOMAIN s
          /\ Within(s, ApprovedStates) \subseteq Live(s)
          /\ Within(s, ApprovedStates) \cap Open(s) = {}
      BY DEF Open, Live, Within, OpenStates, DeadStates, ApprovedStates
    <2>2. IsFiniteSet(Live(s)) /\ IsFiniteSet(Open(s))
      BY <1>1, WithinIs, LiveIs DEF Open
    <2> QED BY <1>1, <2>1, <2>2, CountsAre
  <1>4. ASSUME Counted
        PROVE  /\ o = "approved" => Approvals(s) >= Needed(s)
               /\ o # "approved" => Impossible(s)
    <2>1. o = ApprovalOutcome(s)
      BY <1>4 DEF Counted, OutcomeOf
    <2>2. CASE Approvals(s) < Needed(s)
      <3>1. ApprovalOutcome(s) # "approved" /\ Impossible(s)
        BY <1>1, <1>4, <2>1, <2>2, ApprovalIs DEF Counted
      <3> QED BY <2>1, <3>1
    <2>3. CASE ~(Approvals(s) < Needed(s))
      <3>1. ApprovalOutcome(s) = "approved"
        BY <1>1, <1>4, <2>3, ApprovalIs DEF Counted
      <3> QED BY <1>3, <2>1, <2>3, <3>1
    <2> QED BY <2>2, <2>3
  <1>5. ASSUME Counted, NEW r \in Answers(t, Within(t, {"cancelled"}))
        PROVE  Approves(r) <=> o = "approved"
    <2>1. PICK yes \in SUBSET Open(s) : r = Answered(t, Open(s), yes)
      BY <1>2, <1>5, AnswersAre
    <2>2. Live(r) = Live(t) \cup Open(s) /\ Approvals(r) = Approvals(t) + Cardinality(yes)
      BY <1>2, <1>3, <2>1, AnswersCount
    <2>3. Live(r) = Live(s) /\ Approvals(r) = Approvals(s) + Cardinality(yes)
      BY <1>2, <1>3, <2>2
    <2>4. Needed(r) = Needed(s)
      BY <2>3 DEF Needed
    <2>5. /\ Cardinality(yes) \in Nat /\ Cardinality(yes) <= Cardinality(Open(s))
      BY <1>3, FS_Subset, FS_CardinalityType
    <2>6. Approves(r) <=> Approvals(s) + Cardinality(yes) >= Needed(s)
      BY <2>3, <2>4, ApprovesIs
    <2> QED BY <1>3, <1>4, <1>5, <2>5, <2>6 DEF Impossible
  <1>6. ASSUME Counted, step.quorum = All, o = "approved"
        PROVE  \A i \in Within(t, {"delegated"}) : \E j \in DOMAIN t :
                 t[j].user = t[i].delegatedTo /\ t[j].state \in ApprovedStates \cup {"delegated"}
    <2>1. Within(s, ApprovedStates) = Live(s)
      <3>1. Approvals(s) >= Cardinality(Live(s))
        BY <1>1, <1>4, <1>6, CountsAre
      <3>2. Cardinality(Within(s, ApprovedStates)) <= Cardinality(Live(s))
        BY <1>3, FS_Subset
      <3>3. Cardinality(Within(s, ApprovedStates)) = Cardinality(Live(s))
        BY <1>3, <3>1, <3>2 DEF Approvals
      <3> QED BY <1>3, <3>3, FS_Subset
    <2>2. Open(s) = {} /\ Within(t, {"cancelled"}) = {}
      BY <1>2, <1>3, <2>1
    <2>3. ASSUME NEW i \in Within(t, {"delegated"})
          PROVE  \E j \in DOMAIN t :
                   t[j].user = t[i].delegatedTo /\ t[j].state \in ApprovedStates \cup {"delegated"}
      <3>1. PICK j \in DOMAIN t : t[j].user = t[i].delegatedTo
        BY <1>2 DEF Followed
      <3>2. CASE j \in Live(t)
        <4>1. j \in Within(t, ApprovedStates)
          BY <1>2, <2>1, <2>2, <3>2
        <4> QED BY <3>1, <4>1 DEF Within
      <3>3. CASE j \notin Live(t)
        <4>1. t[j].state \in DeadStates /\ t[j].state # "cancelled"
          BY <2>2, <3>3 DEF Live, Within
        <4> QED BY <3>1, <4>1 DEF DeadStates
      <3> QED BY <3>2, <3>3
    <2> QED BY <2>3
  <1>7. Final(o, t)
    BY <1>5 DEF Final
  <1>8. HandedOn(o, t)
    BY <1>6 DEF HandedOn
  <1> QED BY <1>7, <1>8 DEF t

\* What an approval waits for can approve it and can fail it, unless remarks are
\* gathered.
LEMMA WorthWaiting ==
    ASSUME step \in Steps, Counted, NEW s \in Lists, Fits(s), Undecided(s)
    PROVE  \/ /\ \E r \in Answers(s, Open(s)) : Approves(r)
              /\ \E r \in Answers(s, Open(s)) : ~Approves(r)
           \/ /\ step.mode = "parallel"
              /\ Within(s, {"remarks"}) # {} /\ Within(s, {"rejected"}) = {}
  <1>1. /\ Approvals(s) \in Nat /\ Needed(s) \in Nat /\ Cardinality(Open(s)) \in Nat
        /\ Cardinality(Live(s)) \in Nat
        /\ Needed(s) = IF step.quorum = All \/ Cardinality(Live(s)) <= step.quorum
                       THEN Cardinality(Live(s)) ELSE step.quorum
        /\ step.quorum \in Nat
    BY CountsAre, StepsAssumption
  <1>2. /\ Open(s) \subseteq Live(s) /\ Open(s) \subseteq DOMAIN s
        /\ Within(s, ApprovedStates) \cap Open(s) = {}
    BY DEF Open, Live, Within, OpenStates, DeadStates, ApprovedStates
  <1>3. ASSUME NEW yes \in SUBSET Open(s)
        PROVE  /\ Answered(s, Open(s), yes) \in Answers(s, Open(s))
               /\ Approves(Answered(s, Open(s), yes)) <=>
                    Approvals(s) + Cardinality(yes) >= Needed(s)
    <2> DEFINE r == Answered(s, Open(s), yes)
    <2>1. Live(r) = Live(s) \cup Open(s) /\ Approvals(r) = Approvals(s) + Cardinality(yes)
      BY <1>2, AnswersCount
    <2> HIDE DEF r
    <2>2. Live(r) = Live(s)
      BY <1>2, <2>1
    <2>3. Needed(r) = Needed(s)
      BY <2>2 DEF Needed
    <2>4. Approves(r) <=> Approvals(s) + Cardinality(yes) >= Needed(s)
      BY <2>1, <2>3, ApprovesIs
    <2> QED BY <2>4, AnswersAre DEF r
  <1>4. \E r \in Answers(s, Open(s)) : ~Approves(r)
    <2>1. {} \in SUBSET Open(s) /\ Cardinality({}) = 0
      BY FS_EmptySet
    <2>2. ~(Approvals(s) + 0 >= Needed(s))
      BY <1>1 DEF Undecided
    <2> QED BY <1>3, <2>1, <2>2
  <1>5. CASE ~Impossible(s)
    <2>1. Approvals(s) + Cardinality(Open(s)) >= Needed(s)
      BY <1>1, <1>5 DEF Impossible
    <2>2. \E r \in Answers(s, Open(s)) : Approves(r)
      BY <1>3, <2>1
    <2> QED BY <1>4, <2>2
  <1>6. CASE Impossible(s)
    <2>1. step.mode = "parallel" /\ Within(s, {"rejected"}) = {}
      BY <1>6 DEF Undecided
    <2>2. Within(s, {"remarks"}) # {}
      <3> SUFFICES ASSUME Within(s, {"remarks"}) = {} PROVE FALSE
        BY <2>1
      <3>1. Live(s) \subseteq Open(s) \cup Within(s, ApprovedStates)
        <4>1. ASSUME NEW i \in Live(s) PROVE i \in Open(s) \cup Within(s, ApprovedStates)
          <5>1. i \notin Within(s, {"rejected", "remarks"})
            BY <2>1 DEF Within
          <5>2. step.type = "approval"
            BY DEF Counted
          <5> QED BY <5>1, <5>2, LiveOnes
        <4> QED BY <4>1
      <3>2. IsFiniteSet(Open(s)) /\ IsFiniteSet(Within(s, ApprovedStates))
        BY WithinIs DEF Open
      <3> DEFINE both == Open(s) \cup Within(s, ApprovedStates)
      <3>3. IsFiniteSet(both) /\ Cardinality(both) = Cardinality(Open(s)) + Approvals(s) - 0
        <4>1. Cardinality(Open(s) \cap Within(s, ApprovedStates)) = 0
          <5>1. Open(s) \cap Within(s, ApprovedStates) = {}
            BY <1>2
          <5> QED BY <5>1, FS_EmptySet
        <4> QED BY <3>2, <4>1, FS_Union DEF Approvals
      <3>4. Cardinality(Live(s)) <= Cardinality(both)
        BY <3>1, <3>3, FS_Subset
      <3> HIDE DEF both
      <3>5. Needed(s) <= Cardinality(Live(s))
        BY <1>1
      <3> QED BY <1>1, <1>6, <3>3, <3>4, <3>5 DEF Impossible
    <2> QED BY <2>1, <2>2
  <1> QED BY <1>5, <1>6

-----------------------------------------------------------------------------
(* The invariant, said of values.                                           *)

Places == {"review", "back", "onward", "finished", "cancelled"}

\* What StepInv says of where the route stands, the outcome, whether the step has
\* been assigned, and its list.
Holds(a, o, r, s) ==
    /\ a \in Places /\ o \in Outcomes \cup {NoOne} /\ r \in BOOLEAN /\ s \in Lists
    /\ ~r => s = <<>>
    /\ Standing(a, o, s)
    /\ a = "review" /\ r => Waits(s)

\* A step under review has a good list, and no outcome.
LEMMA UnderReview ==
    /\ \A s : Holds("review", NoOne, TRUE, s) => Good(s) /\ Waits(s)
    /\ \A s : Good(s) /\ Waits(s) => Holds("review", NoOne, TRUE, s)
    /\ StepInv => Holds(at, outcome, resolved, entries)
    /\ StepInv /\ at = "review" => outcome = NoOne /\ Good(entries)
  <1>1. NoOne \notin Outcomes
    BY StepsAssumption
  <1>2. \A s : Holds("review", NoOne, TRUE, s) => Good(s) /\ Waits(s)
    BY DEF Holds, Standing, Good
  <1>3. \A s : Good(s) /\ Waits(s) => Holds("review", NoOne, TRUE, s)
    BY DEF Holds, Standing, Good, Places
  <1>4. StepInv => Holds(at, outcome, resolved, entries)
    BY DEF StepInv, TypeOK, Holds, Places
  <1>5. StepInv /\ at = "review" => outcome = NoOne /\ Good(entries)
    BY DEF StepInv, TypeOK, Standing, Good
  <1> QED BY <1>2, <1>3, <1>4, <1>5

\* The tail of every handler leaves a list right, and takes no answer away.
LEMMA ConcludeIsRight ==
    ASSUME step \in Steps, NEW s, Good(s)
    PROVE  /\ OutcomeOf(s) = NoOne =>
                Holds("review", NoOne, TRUE, Promote(s)) /\ Keeps(s, Promote(s))
           /\ OutcomeOf(s) # NoOne =>
                /\ Holds(After(OutcomeOf(s)), OutcomeOf(s), TRUE, CancelOpen(s))
                /\ Keeps(s, CancelOpen(s))
  <1>1. s \in Lists
    BY DEF Good
  <1>2. ASSUME OutcomeOf(s) = NoOne
        PROVE  Holds("review", NoOne, TRUE, Promote(s)) /\ Keeps(s, Promote(s))
    <2> DEFINE t == Promote(s)
    <2>1. /\ Good(t) /\ Keeps(s, t)
          /\ Approvals(t) = Approvals(s) /\ Open(t) = Open(s) /\ Live(t) = Live(s)
          /\ Within(t, {"rejected"}) = Within(s, {"rejected"})
          /\ Open(s) # {} => Within(t, {"pending"}) # {}
      BY PromoteIsGood
    <2> HIDE DEF t
    <2>2. Undecided(s) => Undecided(t)
      <3>1. Needed(t) = Needed(s)
        BY <2>1 DEF Needed
      <3>2. Impossible(t) <=> Impossible(s)
        BY <2>1, <3>1 DEF Impossible
      <3> QED BY <2>1, <3>1, <3>2 DEF Undecided
    <2>3. Waits(t)
      <3>1. SUFFICES ASSUME Live(s) # {}
                     PROVE  Within(t, {"pending"}) # {} /\ (Counted => Undecided(t))
        BY <2>1 DEF Waits
      <3>2. Open(s) # {} /\ (Counted => Undecided(s))
        BY <1>2, <3>1, StillWaiting
      <3> QED BY <2>1, <2>2, <3>2
    <2>4. Holds("review", NoOne, TRUE, t)
      BY <2>1, <2>3, UnderReview
    <2> QED BY <2>1, <2>4 DEF t
  <1>3. ASSUME OutcomeOf(s) # NoOne
        PROVE  /\ Holds(After(OutcomeOf(s)), OutcomeOf(s), TRUE, CancelOpen(s))
               /\ Keeps(s, CancelOpen(s))
    <2> DEFINE t == CancelOpen(s)
               o == OutcomeOf(s)
               a == After(o)
    <2>1. /\ t \in Lists /\ Fits(t) /\ OneEach(t) /\ Followed(t) /\ Open(t) = {}
          /\ Keeps(s, t)
      BY CancelledIs
    <2>2. Final(o, t) /\ HandedOn(o, t)
      BY <1>3, OutcomeIsFinal
    <2>3. /\ o \in Outcomes \cup {NoOne} /\ a \in {"onward", "finished", "back"}
          /\ a = "back" => o \in Outcomes \ Granted
      BY <1>1, <1>3, OutcomeNames
    <2> HIDE DEF t, o, a
    <2>4. Standing(a, o, t)
      BY <2>1, <2>2, <2>3 DEF Standing
    <2>5. Holds(a, o, TRUE, t)
      BY <2>1, <2>3, <2>4 DEF Holds, Places
    <2> QED BY <2>1, <2>5 DEF t, o, a
  <1> QED BY <1>2, <1>3

\* What is said of a list stays so while the definition of the step does.
LEMMA StaysSo ==
    ASSUME UNCHANGED step, NEW a, NEW o, NEW s
    PROVE  /\ Standing(a, o, s)' <=> Standing(a, o, s)
           /\ Waits(s)' <=> Waits(s)
           /\ OneEach(s)' <=> OneEach(s)
  <1>1. /\ OneEach(s)' <=> OneEach(s)
        /\ Followed(s)' <=> Followed(s)
    BY DEF OneEach, Followed
  <1>2. Fits(s)' <=> Fits(s)
    BY DEF Fits, StatesHere
  <1>3. Counted' <=> Counted
    BY DEF Counted
  <1>4. \A r : Needed(r)' = Needed(r)
    BY DEF Needed
  <1>5. Undecided(s)' <=> Undecided(s)
    BY <1>4 DEF Undecided, Impossible
  <1>6. \A r : Approves(r)' <=> Approves(r)
    BY DEF Approves
  <1>7. Final(o, s)' <=> Final(o, s)
    BY <1>3, <1>6 DEF Final
  <1>8. HandedOn(o, s)' <=> HandedOn(o, s)
    BY <1>3 DEF HandedOn
  <1>9. Standing(a, o, s)' <=> Standing(a, o, s)
    BY <1>1, <1>2, <1>7, <1>8 DEF Standing
  <1>10. Waits(s)' <=> Waits(s)
    BY <1>3, <1>5 DEF Waits
  <1> QED BY <1>1, <1>9, <1>10

\* A step that leaves the definition, and the values right, preserves StepInv.
LEMMA PreservedBy ==
    ASSUME StepInv, UNCHANGED step, Holds(at', outcome', resolved', entries'),
           round' \in 1..(MaxRounds + 1), previous' \in {previous, entries}
    PROVE  StepInv'
  <1>1. PICK a, o, r, s, p : /\ a = at' /\ o = outcome' /\ r = resolved' /\ s = entries'
                             /\ p = previous'
    OBVIOUS
  <1>2. Holds(a, o, r, s)
    BY <1>1
  <1>3. p \in Lists /\ OneEach(p)
    BY <1>1 DEF StepInv, TypeOK, Standing
  <1>4. TypeOK'
    <2>1. step' \in Steps
      BY DEF StepInv, TypeOK
    <2> QED BY <1>1, <1>2, <1>3, <2>1 DEF TypeOK, Holds, Places
  <1>5. Standing(a, o, s)' /\ (a = "review" /\ r => Waits(s)') /\ OneEach(p)'
    BY <1>2, <1>3, StaysSo DEF Holds
  <1>6. ~resolved' => entries' = <<>>
    BY <1>1, <1>2 DEF Holds
  <1>7. Standing(at, outcome, entries)'
    BY <1>1, <1>5
  <1>8. at' = "review" /\ resolved' => Waits(entries)'
    BY <1>1, <1>5
  <1>9. OneEach(previous)'
    BY <1>1, <1>5
  <1> QED BY <1>4, <1>6, <1>7, <1>8, <1>9 DEF StepInv

-----------------------------------------------------------------------------
(* The actions.                                                             *)

\* What a step has to show of the values it leaves, and of the answers given.
Shown == /\ Holds(at', outcome', resolved', entries')
         /\ round' = round => Keeps(entries, entries')

\* Who is being asked, and what it means that somebody is.
LEMMA AskedIs ==
    ASSUME NEW s \in Lists, NEW user, Asked(s, user) # {}
    PROVE  LET i == Min(Asked(s, user))
           IN  /\ i \in Open(s) /\ i \in Live(s) /\ i \in 1..Len(s)
               /\ s[i].state = "pending" /\ s[i].user = user
  <1> DEFINE A == Asked(s, user)
  <1>1. A \subseteq Within(s, {"pending"}) /\ A \in SUBSET Nat
    BY WithinIs DEF Asked
  <1>2. Min(A) \in A
    <2> HIDE DEF A
    <2>1. A # {}
      BY DEF A
    <2> QED BY <1>1, <2>1, MinIs
  <1>3. Min(A) \in DOMAIN s /\ s[Min(A)].state = "pending" /\ s[Min(A)].user = user
    BY <1>2 DEF Asked, Within
  <1>4. DOMAIN s = 1..Len(s)
    BY ListIs
  <1> HIDE DEF A
  <1>5. Min(A) \in Open(s) /\ Min(A) \in Live(s)
    BY <1>3 DEF Open, Live, Within, OpenStates, DeadStates
  <1> QED BY <1>3, <1>4, <1>5 DEF A

\* More questions leave a step that waits waiting.
LEMMA MoreWaits ==
    ASSUME step \in Steps, NEW s \in Lists, NEW t \in Lists, More(s, t), Waits(s), Live(s) # {}
    PROVE  Waits(t)
  <1>1. Within(s, {"pending"}) # {} /\ (Counted => Undecided(s))
    BY DEF Waits
  <1>2. Within(t, {"pending"}) # {}
    BY <1>1 DEF More
  <1>3. Undecided(s) => Undecided(t)
    BY MoreUndecided
  <1> QED BY <1>1, <1>2, <1>3 DEF Waits

\* A handler that ends by concluding, on a good list.
LEMMA ConcludeShows ==
    ASSUME StepInv, at = "review", NEW s, Good(s), Conclude(s), resolved' = TRUE
    PROVE  Holds(at', outcome', resolved', entries') /\ Keeps(s, entries')
  <1>1. step \in Steps
    BY DEF StepInv, TypeOK
  <1>2. CASE OutcomeOf(s) = NoOne
    <2>1. outcome = NoOne
      BY UnderReview
    <2>2. entries' = Promote(s) /\ at' = "review" /\ outcome' = NoOne
      BY <1>2, <2>1 DEF Conclude
    <2> QED BY <1>1, <1>2, <2>2, ConcludeIsRight
  <1>3. CASE OutcomeOf(s) # NoOne
    <2>1. entries' = CancelOpen(s) /\ outcome' = OutcomeOf(s) /\ at' = After(OutcomeOf(s))
      BY <1>3 DEF Conclude
    <2> QED BY <1>1, <1>3, <2>1, ConcludeIsRight
  <1> QED BY <1>2, <1>3

\* A handler that adds questions to a step that is asking somebody.
LEMMA MoreShows ==
    ASSUME StepInv, at = "review", UNCHANGED <<at, resolved, outcome>>,
           NEW t, entries' = t, Good(t), More(entries, t), Keeps(entries, t),
           Live(entries) # {}
    PROVE  Shown
  <1>1. /\ step \in Steps /\ outcome = NoOne /\ Good(entries) /\ entries \in Lists
        /\ resolved \in BOOLEAN
    BY UnderReview DEF StepInv, TypeOK
  <1>2. resolved = TRUE
    <2>1. entries # <<>>
      BY DEF Live
    <2> QED BY <1>1, <2>1 DEF StepInv
  <1>3. Waits(entries)
    BY <1>2 DEF StepInv
  <1>4. Waits(t)
    BY <1>1, <1>3, MoreWaits DEF Good
  <1>5. Holds("review", NoOne, TRUE, t)
    BY <1>4, UnderReview
  <1> QED BY <1>1, <1>2, <1>5 DEF Shown

\* A round is given its list.
LEMMA AssignShows ==
    ASSUME StepInv, NEW list \in Resolutions, Assign(list)
    PROVE  Shown
  <1>1. /\ step \in Steps /\ outcome = NoOne /\ at = "review"
        /\ previous \in Lists /\ OneEach(previous)
        /\ list \in Seq(People) /\ IsInjective(list)
    BY UnderReview, ResolutionsAssumption DEF StepInv, TypeOK, Assign
  <1>2. PICK asked : asked =
          LET all == [i \in DOMAIN list |-> Entry(list[i], "pending")]
          IN IF step.type = "approval" THEN CarryOver(all) ELSE all
    OBVIOUS
  <1>3. Good(asked)
    BY <1>1, <1>2, FirstListIsGood
  <1>4. /\ resolved' = TRUE
        /\ IF asked # <<>> THEN Conclude(Queue(asked))
           ELSE /\ entries' = <<>>
                /\ IF step.type = "acknowledge"
                   THEN outcome' = "acknowledged" /\ at' = "onward"
                   ELSE UNCHANGED <<at, outcome>>
    BY <1>2 DEF Assign
  <1>5. \A t : Keeps(entries, t)
    <2>1. entries = <<>>
      BY DEF StepInv, Assign
    <2> QED BY <2>1 DEF Keeps, Within
  <1>6. CASE asked # <<>>
    <2>1. PICK s : s = Queue(asked)
      OBVIOUS
    <2>2. Good(s) /\ Conclude(s)
      BY <1>3, <1>4, <1>6, <2>1, QueueIsGood
    <2>3. Holds(at', outcome', resolved', entries')
      BY <1>1, <1>4, <2>2, ConcludeShows
    <2> QED BY <1>5, <2>3 DEF Shown
  <1>7. CASE asked = <<>>
    <2>1. Good(<<>>) /\ <<>> \in Lists /\ DOMAIN <<>> = {}
      BY <1>3, <1>7 DEF Good
    <2>2. CASE step.type = "acknowledge"
      <3>1. Open(<<>>) = {}
        BY <2>1 DEF Open, Within
      <3>2. Final("acknowledged", <<>>) /\ HandedOn("acknowledged", <<>>)
        BY <2>2 DEF Final, HandedOn, Counted
      <3>3. Holds("onward", "acknowledged", TRUE, <<>>)
        BY <2>1, <3>1, <3>2 DEF Holds, Standing, Good, Places, Outcomes, Granted
      <3> QED BY <1>4, <1>5, <1>7, <2>2, <3>3 DEF Shown
    <2>3. CASE step.type # "acknowledge"
      <3>1. Waits(<<>>)
        BY <2>1 DEF Waits, Live
      <3>2. Holds("review", NoOne, TRUE, <<>>)
        BY <2>1, <3>1, UnderReview
      <3> QED BY <1>1, <1>4, <1>5, <1>7, <2>3, <3>2 DEF Shown
    <2> QED BY <2>2, <2>3
  <1> QED BY <1>6, <1>7

\* A person who is being asked answers.
LEMMA DecideShows ==
    ASSUME StepInv, NEW user \in People, NEW decision \in DecidedStates, Decide(user, decision)
    PROVE  Shown
  <1>1. step \in Steps /\ at = "review" /\ Good(entries) /\ entries \in Lists
    BY UnderReview DEF StepInv, TypeOK, Decide
  <1>2. PICK i : i = Min(Asked(entries, user))
    OBVIOUS
  <1>3. PICK s : s = WithState(entries, {i}, decision)
    OBVIOUS
  <1>4. i \in Live(entries) /\ i \in DOMAIN entries /\ entries[i].state = "pending"
    BY <1>1, <1>2, AskedIs, ListIs DEF Decide
  <1>5. /\ decision \in EntryStates /\ decision \in StatesHere
        /\ decision \notin DeadStates /\ decision # "waiting"
    <2>1. decision \in StatesHere
      BY DEF Decide, StatesHere
    <2> QED BY <2>1, StateNames DEF EntryStates, DeadStates
  <1>6. Good(s)
    BY <1>1, <1>3, <1>4, <1>5, RestatedIsGood
  <1>7. Keeps(entries, s)
    <2>1. /\ DOMAIN s = DOMAIN entries
          /\ \A j \in DOMAIN entries : j \notin {i} => s[j] = entries[j]
      BY <1>1, <1>3, <1>5, Restated
    <2>2. ASSUME NEW j \in Within(entries, DecidedStates) PROVE entries[j] \in Range(s)
      <3>1. j \in DOMAIN entries /\ entries[j].state \in DecidedStates
        BY DEF Within
      <3>2. j \notin {i}
        BY <1>4, <3>1, StateNames
      <3> QED BY <2>1, <3>1, <3>2 DEF Range
    <2> QED BY <2>2 DEF Keeps
  <1>8. Conclude(s) /\ resolved' = TRUE
    <2>1. resolved = TRUE
      BY DEF Decide, StepInv, TypeOK
    <2> QED BY <1>2, <1>3, <2>1 DEF Decide
  <1>9. Holds(at', outcome', resolved', entries') /\ Keeps(s, entries')
    BY <1>1, <1>6, <1>8, ConcludeShows
  <1>10. Keeps(entries, entries')
    <2>1. PICK e, t : e = entries /\ t = entries'
      OBVIOUS
    <2> QED BY <1>7, <1>9, <2>1, KeepsAndKeeps
  <1> QED BY <1>9, <1>10 DEF Shown

\* An approver who is being asked adds another one.
LEMMA AddShows ==
    ASSUME StepInv, NEW by \in People, NEW user \in People, Add(by, user)
    PROVE  Shown
  <1>1. step \in Steps /\ at = "review" /\ Good(entries) /\ entries \in Lists
    BY UnderReview DEF StepInv, TypeOK, Add
  <1>2. PICK i, s, e, t :
          /\ i = Min(Asked(entries, by)) /\ s = entries
          /\ e = [Entry(user, IF step.mode = "sequential" THEN "waiting" ELSE "pending")
                    EXCEPT !.addedBy = by]
          /\ t = InsertAt(s, i + 1, e)
    OBVIOUS
  <1>3. entries' = t
    BY <1>2 DEF Add
  <1>4. i \in Live(s) /\ i \in 1..Len(s) /\ Len(s) \in Nat
    BY <1>1, <1>2, AskedIs, ListIs DEF Add
  <1>5. /\ e \in Entries /\ e.user = user
        /\ e.state \in OpenStates /\ e.state \in StatesHere
        /\ e.state = "waiting" => step.mode = "sequential"
    BY <1>2 DEF Entry, Entries, EntryStates, OpenStates, StatesHere
  <1> DEFINE new == <<e>>
  <1>6. /\ new \in Lists /\ \A j \in DOMAIN new : j = 1 /\ new[j] = e
    BY <1>5
  <1>7. t \in Lists /\ Spliced(s, new, t)
    <2>1. i + 1 \in 1..(Len(s) + 1)
      BY <1>4
    <2> QED BY <1>1, <1>2, <1>5, <2>1, InsertPuts
  <1> HIDE DEF new
  <1>8. Fits(new) /\ OneEach(new)
    BY <1>5, <1>6 DEF Fits, OneEach, Live
  <1>9. \A j \in DOMAIN new : new[j].state \in OpenStates /\ ~TakesPart(s, new[j].user)
    BY <1>2, <1>5, <1>6 DEF Add
  <1>10. Good(s) /\ s \in Lists
    BY <1>1, <1>2
  <1>11. Good(t) /\ More(s, t) /\ Keeps(s, t)
    BY <1>6, <1>7, <1>8, <1>9, <1>10, Joined DEF Good
  <1> QED BY <1>1, <1>2, <1>3, <1>4, <1>11, MoreShows DEF Add

\* An approver who is being asked hands the question over.
LEMMA DelegateShows ==
    ASSUME StepInv, NEW from \in People, NEW to \in People, Delegate(from, to)
    PROVE  Shown
  <1>1. step \in Steps /\ at = "review" /\ Good(entries) /\ entries \in Lists
    BY UnderReview DEF StepInv, TypeOK, Delegate
  <1>2. PICK i, s, t : i = Min(Asked(entries, from)) /\ s = entries /\ t = HandOver(s, i, to)
    OBVIOUS
  <1>3. entries' = t
    BY <1>2 DEF Delegate
  <1>4. i \in Open(s) /\ i \in Live(s)
    BY <1>1, <1>2, AskedIs DEF Delegate
  <1>5. Good(t) /\ More(s, t) /\ Keeps(s, t)
    BY <1>1, <1>2, <1>4, HandOverIsGood DEF Delegate
  <1> QED BY <1>1, <1>2, <1>3, <1>4, <1>5, MoreShows DEF Delegate

\* A list of people named, without repeats: the first, and the others.
LEMMA NominationsAre ==
    ASSUME NEW n \in Nat, NEW users \in Nominations(n)
    PROVE  /\ users \in Seq(People) /\ IsInjective(users)
           /\ Head(users) \in People /\ Head(users) \in Range(users)
           /\ Tail(users) \in Seq(People) /\ IsInjective(Tail(users))
           /\ \A k \in DOMAIN Tail(users) :
                Tail(users)[k] \in Range(users) /\ Tail(users)[k] # Head(users)
  <1>1. PICK m \in 1..n : users \in [1..m -> People]
    BY DEF Nominations
  <1>2. \A k, l \in 1..m : users[k] = users[l] => k = l
    BY <1>1 DEF Nominations, IsInjective
  <1>3. users \in Seq(People) /\ Len(users) = m /\ m \in Nat /\ m > 0 /\ 1 \in 1..m
    BY <1>1
  <1>4. users # <<>>
    BY <1>3
  <1>5. Head(users) = users[1]
    BY <1>3, <1>4
  <1>6. /\ Tail(users) \in Seq(People) /\ Len(Tail(users)) = m - 1
        /\ \A k \in 1..(m - 1) : Tail(users)[k] = users[k + 1]
    BY <1>3, <1>4, HeadTailProperties
  <1>7. DOMAIN Tail(users) = 1..(m - 1)
    BY <1>6, LenProperties
  <1>8. \A k \in 1..(m - 1) : k + 1 \in 1..m /\ k + 1 # 1
    BY <1>3
  <1>9. IsInjective(Tail(users))
    <2>1. ASSUME NEW k \in 1..(m - 1), NEW l \in 1..(m - 1), Tail(users)[k] = Tail(users)[l]
          PROVE  k = l
      <3>1. k + 1 = l + 1
        BY <1>2, <1>6, <1>8, <2>1
      <3> QED BY <3>1
    <2> QED BY <1>7, <2>1 DEF IsInjective
  <1>10. \A k \in 1..(m - 1) :
           Tail(users)[k] \in Range(users) /\ Tail(users)[k] # Head(users)
    BY <1>1, <1>2, <1>3, <1>5, <1>6, <1>8 DEF Range
  <1> QED BY <1>1, <1>3, <1>5, <1>6, <1>7, <1>9, <1>10 DEF Nominations, Range

\* A person who has not answered is replaced.
LEMMA ReplaceShows ==
    ASSUME StepInv, NEW from \in People, NEW users \in Nominations(MaxReplacements),
           Replace(from, users)
    PROVE  Shown
  <1>1. step \in Steps /\ at = "review" /\ Good(entries) /\ entries \in Lists
    BY UnderReview DEF StepInv, TypeOK, Replace
  <1>2. /\ Head(users) \in People /\ Head(users) \in Range(users)
        /\ Tail(users) \in Seq(People) /\ IsInjective(Tail(users))
        /\ \A k \in DOMAIN Tail(users) :
             Tail(users)[k] \in Range(users) /\ Tail(users)[k] # Head(users)
    BY NominationsAre, BoundsAssumption
  <1>3. PICK i, s, h, t :
          /\ i = Min({j \in Open(entries) : entries[j].user = from})
          /\ s = entries
          /\ h = HandOver(s, i, Head(users))
          /\ t = Alongside(h, i, s[i].state, Tail(users))
    OBVIOUS
  <1>4. entries' = t
    BY <1>3 DEF Replace
  <1>5. i \in Open(s) /\ s[i].user = from /\ i \in Live(s)
    <2> DEFINE T == {j \in Open(entries) : entries[j].user = from}
    <2>1. T \in SUBSET Nat /\ T # {}
      BY <1>1, WithinIs DEF Open, Replace
    <2> HIDE DEF T
    <2>2. Min(T) \in T
      BY <2>1, MinIs
    <2>3. i \in Open(s) /\ s[i].user = from
      BY <1>3, <2>2 DEF T
    <2> QED BY <2>3 DEF Open, Live, Within, OpenStates, DeadStates
  <1>6. \A u \in Range(users) : u = from \/ ~TakesPart(s, u)
    BY <1>3 DEF Replace
  <1>7. Head(users) # from /\ ~TakesPart(s, Head(users))
    BY <1>2, <1>6 DEF Replace
  <1>8. /\ Good(h) /\ More(s, h) /\ Keeps(s, h) /\ Len(h) = Len(s) + 1
        /\ i \in 1..Len(s)
        /\ \A u : TakesPart(h, u) => u = Head(users) \/ (TakesPart(s, u) /\ u # from)
    BY <1>1, <1>2, <1>3, <1>5, <1>7, HandOverIsGood
  <1>9. \A k \in DOMAIN Tail(users) : ~TakesPart(h, Tail(users)[k])
    BY <1>2, <1>6, <1>8
  <1>10. s[i].state \in OpenStates /\ (s[i].state = "waiting" => step.mode = "sequential")
    <2>1. i \in DOMAIN s /\ s[i].state \in OpenStates
      BY <1>5 DEF Open, Within
    <2> QED BY <1>1, <1>3, <2>1 DEF Good, Fits
  <1>11. i \in 1..Len(h) /\ i + 1 <= Len(h)
    <2>1. Len(s) \in Nat
      BY <1>1, <1>3, ListIs
    <2> QED BY <1>8, <2>1
  <1>12. Good(t) /\ More(h, t) /\ Keeps(h, t)
    BY <1>2, <1>3, <1>8, <1>9, <1>10, <1>11, AlongsideIsGood
  <1>13. More(s, t) /\ Keeps(s, t)
    <2>1. s \in Lists /\ h \in Lists /\ t \in Lists
      BY <1>1, <1>3, <1>8, <1>12 DEF Good
    <2> QED BY <1>8, <1>12, <2>1, MoreAndMore, KeepsAndKeeps
  <1> QED BY <1>1, <1>3, <1>4, <1>5, <1>12, <1>13, MoreShows DEF Replace

\* More people join the end of the list.
LEMMA ExtendShows ==
    ASSUME StepInv, NEW users \in Nominations(MaxAppends), Extend(users)
    PROVE  Shown
  <1>1. step \in Steps /\ at = "review" /\ Good(entries) /\ entries \in Lists
    BY UnderReview DEF StepInv, TypeOK, Extend
  <1>2. users \in Seq(People) /\ IsInjective(users)
    BY NominationsAre, BoundsAssumption
  <1>3. PICK s, state, new, t, q :
          /\ s = entries
          /\ state = IF step.mode = "sequential" /\ Open(entries) # {}
                     THEN "waiting" ELSE "pending"
          /\ new = [k \in DOMAIN users |-> Entry(users[k], state)]
          /\ t = s \o new
          /\ q = Queue(t)
    OBVIOUS
  <1>4. state \in OpenStates /\ (state = "waiting" => step.mode = "sequential")
    BY <1>3 DEF OpenStates
  <1>5. Asks(new, users, state)
    BY <1>2, <1>3, <1>4, Questions
  <1>6. t \in Lists /\ Spliced(s, new, t)
    BY <1>1, <1>3, <1>5, EndPuts DEF Asks
  <1>7. \A j \in DOMAIN new : new[j].state \in OpenStates /\ ~TakesPart(s, new[j].user)
    <2>1. \A k \in DOMAIN users : ~TakesPart(s, users[k])
      BY <1>3 DEF Extend, Range
    <2> QED BY <1>4, <1>5, <2>1 DEF Asks
  <1>8. Good(t) /\ Keeps(s, t)
    <2>1. Good(s) /\ s \in Lists
      BY <1>1, <1>3
    <2> QED BY <1>5, <1>6, <1>7, <2>1, Joined DEF Good, Asks
  <1>9. Good(q) /\ Keeps(t, q)
    BY <1>3, <1>8, QueueIsGood
  <1>10. Conclude(q) /\ resolved' = TRUE
    BY <1>3 DEF Extend, StepInv, TypeOK
  <1>11. Holds(at', outcome', resolved', entries') /\ Keeps(q, entries')
    BY <1>1, <1>9, <1>10, ConcludeShows
  <1>12. Keeps(entries, entries')
    <2>1. PICK e : e = entries'
      OBVIOUS
    <2>2. Keeps(s, q)
      BY <1>8, <1>9, KeepsAndKeeps
    <2>3. Keeps(s, e)
      BY <1>11, <2>1, <2>2, KeepsAndKeeps
    <2> QED BY <1>3, <2>1, <2>3
  <1> QED BY <1>11, <1>12 DEF Shown

\* The author resubmits.
LEMMA ResubmitShows ==
    ASSUME StepInv, Resubmit
    PROVE  Shown
  <1>1. <<>> \in Lists /\ DOMAIN <<>> = {}
    OBVIOUS
  <1>2. Holds("review", NoOne, FALSE, <<>>)
    BY <1>1 DEF Holds, Standing, Fits, OneEach, Followed, Within, Live, Places
  <1>3. round' # round
    BY DEF Resubmit, StepInv, TypeOK
  <1> QED BY <1>2, <1>3 DEF Shown, Resubmit

\* The author withdraws.
LEMMA WithdrawShows ==
    ASSUME StepInv, Withdraw
    PROVE  Shown
  <1>1. Holds("back", outcome, resolved, entries)
    BY UnderReview DEF Withdraw
  <1>2. Holds("cancelled", outcome, resolved, entries)
    BY <1>1 DEF Holds, Standing, Places
  <1>3. Keeps(entries, entries)
    BY DEF Keeps, Range, Within
  <1> QED BY <1>2, <1>3 DEF Shown, Withdraw

\* The route is stopped.
LEMMA CancelShows ==
    ASSUME StepInv, Cancel
    PROVE  Shown
  <1>1. /\ at' = "cancelled" /\ entries' = CancelOpen(entries)
        /\ outcome' = outcome /\ resolved' = resolved
    BY DEF Cancel
  <1>2. PICK s, t : s = entries /\ t = CancelOpen(s)
    OBVIOUS
  <1>3. /\ s \in Lists /\ outcome \in Outcomes \cup {NoOne} /\ resolved \in BOOLEAN
        /\ ~resolved => s = <<>>
        /\ Standing(at, outcome, s)
    BY <1>2 DEF StepInv, TypeOK
  <1>4. CASE at = "review"
    <2>1. outcome = NoOne /\ Good(s)
      BY <1>2, <1>4, UnderReview
    <2>2. /\ t \in Lists /\ DOMAIN t = DOMAIN s /\ Fits(t) /\ OneEach(t) /\ Followed(t)
          /\ Keeps(s, t)
      BY <1>2, <2>1, CancelledIs
    <2>3. Standing("cancelled", NoOne, t)
      BY <2>2 DEF Standing
    <2>4. ~resolved => t = <<>>
      <3>1. ASSUME ~resolved PROVE t = <<>>
        <4>1. DOMAIN t = {}
          BY <1>3, <2>2, <3>1
        <4> QED BY <2>2, <4>1
      <3> QED BY <3>1
    <2>5. Holds("cancelled", NoOne, resolved, t)
      BY <1>3, <2>2, <2>3, <2>4 DEF Holds, Places
    <2> QED BY <1>1, <1>2, <2>1, <2>2, <2>5 DEF Shown
  <1>5. CASE at = "back"
    <2>1. outcome # NoOne /\ Open(s) = {}
      BY <1>3, <1>5, StepsAssumption DEF Standing
    <2>2. t = s
      <3>1. t = [i \in DOMAIN s |-> s[i]]
        BY <1>2, <2>1 DEF CancelOpen, WithState
      <3> QED BY <1>3, <3>1, ListIs
    <2>3. Holds("cancelled", outcome, resolved, s)
      BY <1>3, <1>5 DEF Holds, Standing, Places
    <2>4. Keeps(s, s)
      BY DEF Keeps, Range, Within
    <2> QED BY <1>1, <1>2, <2>2, <2>3, <2>4 DEF Shown
  <1> QED BY <1>4, <1>5 DEF Cancel

\* Every action shows what it has to, and leaves the definition of the step.
LEMMA EveryStepShows ==
    ASSUME StepInv, Next
    PROVE  /\ Shown /\ UNCHANGED step
           /\ round' \in 1..(MaxRounds + 1) /\ previous' \in {previous, entries}
  <1>1. round \in 1..(MaxRounds + 1) /\ MaxRounds \in Nat
    BY BoundsAssumption DEF StepInv, TypeOK
  <1>2. ASSUME NEW list \in Resolutions, Assign(list)
        PROVE  Shown /\ UNCHANGED <<step, round, previous>>
    BY <1>2, AssignShows DEF Assign
  <1>3. ASSUME NEW user \in People, NEW decision \in DecidedStates, Decide(user, decision)
        PROVE  Shown /\ UNCHANGED <<step, round, previous>>
    BY <1>3, DecideShows DEF Decide
  <1>4. ASSUME NEW by \in People, NEW user \in People, Add(by, user)
        PROVE  Shown /\ UNCHANGED <<step, round, previous>>
    BY <1>4, AddShows DEF Add
  <1>5. ASSUME NEW from \in People, NEW to \in People, Delegate(from, to)
        PROVE  Shown /\ UNCHANGED <<step, round, previous>>
    BY <1>5, DelegateShows DEF Delegate
  <1>6. ASSUME NEW from \in People, NEW users \in Nominations(MaxReplacements),
               Replace(from, users)
        PROVE  Shown /\ UNCHANGED <<step, round, previous>>
    BY <1>6, ReplaceShows DEF Replace
  <1>7. ASSUME NEW users \in Nominations(MaxAppends), Extend(users)
        PROVE  Shown /\ UNCHANGED <<step, round, previous>>
    BY <1>7, ExtendShows DEF Extend
  <1>8. CASE Resubmit
    <2>1. round' \in 1..(MaxRounds + 1) /\ previous' = entries /\ UNCHANGED step
      BY <1>1, <1>8 DEF Resubmit
    <2> QED BY <1>8, <2>1, ResubmitShows
  <1>9. CASE Withdraw
    <2>1. UNCHANGED <<step, round, previous>>
      BY <1>9 DEF Withdraw
    <2> QED BY <1>1, <1>9, <2>1, WithdrawShows
  <1>10. CASE Cancel
    <2>1. UNCHANGED <<step, round, previous>>
      BY <1>10 DEF Cancel
    <2> QED BY <1>1, <1>10, <2>1, CancelShows
  <1> QED BY <1>1, <1>2, <1>3, <1>4, <1>5, <1>6, <1>7, <1>8, <1>9, <1>10 DEF Next

-----------------------------------------------------------------------------
(* The theorems.                                                            *)

\* StepInv holds in every behaviour: the lists are as the machine keeps them, a
\* step under review is asking somebody for something that is not settled, and an
\* outcome is one no withdrawn question could have changed.
THEOREM StepInvariant == Spec => []StepInv
  <1>1. Init => StepInv
    <2> SUFFICES ASSUME Init PROVE StepInv
      OBVIOUS
    <2>1. <<>> \in Lists /\ DOMAIN <<>> = {}
      OBVIOUS
    <2>2. /\ step \in Steps /\ at = "review" /\ round = 1 /\ resolved = FALSE
          /\ entries = <<>> /\ outcome = NoOne /\ previous = <<>>
      BY DEF Init
    <2>3. TypeOK
      <3>1. 1 \in 1..(MaxRounds + 1)
        BY BoundsAssumption
      <3>2. entries \in Seq(Entries) /\ previous \in Seq(Entries)
        BY <2>1, <2>2
      <3>3. at \in {"review", "back", "onward", "finished", "cancelled"}
        BY <2>2
      <3> QED BY <2>2, <3>1, <3>2, <3>3 DEF TypeOK
    <2>4. Standing("review", NoOne, <<>>) /\ OneEach(<<>>)
      BY <2>1 DEF Standing, Fits, OneEach, Followed, Within, Live
    <2> QED BY <2>2, <2>3, <2>4 DEF StepInv
  <1>2. StepInv /\ [Next]_vars => StepInv'
    <2>1. ASSUME StepInv, Next PROVE StepInv'
      BY <2>1, EveryStepShows, PreservedBy DEF Shown
    <2>2. ASSUME StepInv, UNCHANGED vars PROVE StepInv'
      <3>1. UNCHANGED <<step, round, previous>>
            /\ <<at, outcome, resolved, entries>>' = <<at, outcome, resolved, entries>>
        BY <2>2 DEF vars
      <3>2. Holds(at, outcome, resolved, entries)
        BY <2>2, UnderReview
      <3>3. round' \in 1..(MaxRounds + 1)
        BY <2>2, <3>1 DEF StepInv, TypeOK
      <3> QED BY <2>2, <3>1, <3>2, <3>3, PreservedBy
    <2> QED BY <2>1, <2>2
  <1> QED BY <1>1, <1>2, PTL DEF Spec

\* A step that waits for answers is asking somebody (promote, queue, insert),
\* whatever was delegated, added, reassigned or carried over before.
THEOREM QueueNeverStops == Spec => []SomebodyIsAsked
  <1>1. StepInv => SomebodyIsAsked
    BY DEF StepInv, Waits, SomebodyIsAsked
  <1> QED BY <1>1, StepInvariant, PTL

\* Nobody has two live entries (insert's duplicate, carryOver).
THEOREM NobodyTwice == Spec => []OnePerPerson
  <1>1. StepInv => OnePerPerson
    BY DEF StepInv, Standing, OneEach, OnePerPerson
  <1> QED BY <1>1, StepInvariant, PTL

\* Whatever the people whose questions were withdrawn had answered, the outcome
\* would have been the same (outcomeOf's impossible, conclude).
THEOREM EarlyOutcomeStands == Spec => []EarlyOutcomeIsFinal
  <1>1. StepInv => EarlyOutcomeIsFinal
    BY DEF StepInv, Standing, Final, Counted, EarlyOutcomeIsFinal
  <1> QED BY <1>1, StepInvariant, PTL

\* An approval by everybody is one by whoever a question was handed to (delegate,
\* reassign).
THEOREM HandedOverCounts == Spec => []HandedOverIsAnswered
  <1>1. StepInv => HandedOverIsAnswered
    <2> SUFFICES ASSUME StepInv, Counted, step.quorum = All, outcome = "approved",
                        NEW i \in Within(entries, {"delegated"})
                 PROVE  \E j \in Successors(i) :
                          entries[j].state \in ApprovedStates \cup {"delegated"}
      BY DEF HandedOverIsAnswered, Counted
    <2>1. outcome # NoOne
      BY StepsAssumption DEF Outcomes, Granted
    <2>2. HandedOn(outcome, entries)
      BY <2>1 DEF StepInv, Standing
    <2> QED BY <2>2 DEF HandedOn, Successors
  <1> QED BY <1>1, StepInvariant, PTL

\* An approval that still waits can still be approved and can still fail, or is
\* gathering remarks (outcomeOf's impossible and its mode).
THEOREM WaitingHasAReason == Spec => []WaitingIsWorthwhile
  <1>1. StepInv => WaitingIsWorthwhile
    <2> SUFFICES ASSUME StepInv, Counted, at = "review", resolved, Live(entries) # {}
                 PROVE  LET ends == Answers(entries, Open(entries))
                        IN \/ (\E s \in ends : Approves(s)) /\ (\E s \in ends : ~Approves(s))
                           \/ /\ step.mode = "parallel"
                              /\ Within(entries, {"remarks"}) # {}
                              /\ Within(entries, {"rejected"}) = {}
      BY DEF WaitingIsWorthwhile, Counted
    <2>1. step \in Steps /\ entries \in Lists /\ Fits(entries) /\ Undecided(entries)
      BY DEF StepInv, TypeOK, Standing, Waits
    <2> QED BY <2>1, WorthWaiting
  <1> QED BY <1>1, StepInvariant, PTL

\* No call of the same round takes away an answer that was given, or turns it into
\* another (reassign's OPEN filter, conclude's cancelling).
THEOREM AnswersAreKept == Spec => AnswersStand
  <1>1. StepInv /\ [Next]_vars =>
          [round' = round => \A i \in Within(entries, DecidedStates) :
                               entries[i] \in Range(entries')]_vars
    BY EveryStepShows DEF Shown, Keeps
  <1> QED BY <1>1, StepInvariant, PTL DEF Spec, AnswersStand
===============================================================================
