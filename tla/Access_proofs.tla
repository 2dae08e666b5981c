---------------------------- MODULE Access_proofs ----------------------------
(***************************************************************************)
(* Proofs about Access, for every set of objects, of people and of levels: *)
(* the table of ancestors stays the one of the tree whatever is moved, the *)
(* three queries over it answer by that tree, and a break of inheritance   *)
(* keeps what entries and default roles gave.                              *)
(***************************************************************************)
EXTENDS Access, LeastNumber, FiniteSetTheorems

USE AccessAssumption

-----------------------------------------------------------------------------
(* The table of ancestors.  The lemmas about a table hold of any object whose *)
(* row follows from its parent's, by the least row that would violate them.  *)

\* An object without a parent has no ancestors, a parent is the first of them,
\* and the others are the parent's.
LEMMA RowAbove ==
    ASSUME AccessInv, NEW o \in Objects, NEW a \in Ancestors(o)
    PROVE  /\ parent[o] \in Objects /\ depth[o][parent[o]] = 1
           /\ \/ a = parent[o] /\ depth[o][a] = 1
              \/ /\ a \in Ancestors(parent[o])
                 /\ depth[o][a] = depth[parent[o]][a] + 1
  <1>1. depth[o][a] = DepthAbove(parent[o], a) /\ depth[o][a] > 0 /\ a \in Objects
    BY DEF AccessInv, TableIsTree, Ancestors
  <1>2. parent[o] \in Objects
    BY <1>1 DEF DepthAbove, AccessInv, AccessTypeOK
  <1>3. depth[o][parent[o]] = 1
    BY <1>2 DEF AccessInv, TableIsTree, DepthAbove
  <1> QED BY <1>1, <1>2, <1>3 DEF DepthAbove, Ancestors

\* What lies above the parent lies above the object, one step further.
LEMMA AboveParent ==
    ASSUME AccessInv, NEW o \in Objects, parent[o] \in Objects,
           NEW a \in Ancestors(parent[o])
    PROVE  a \in Ancestors(o) /\ depth[o][a] = depth[parent[o]][a] + 1
  <1>1. a \in Objects /\ depth[parent[o]][a] > 0 /\ depth[parent[o]][a] \in Nat
    BY DEF Ancestors, AccessInv, AccessTypeOK
  <1>2. a # parent[o]
    BY <1>1 DEF AccessInv, TableIsTree
  <1>3. depth[o][a] = depth[parent[o]][a] + 1
    BY <1>1, <1>2 DEF AccessInv, TableIsTree, DepthAbove
  <1> QED BY <1>1, <1>3 DEF Ancestors

\* Ancestors of an ancestor are ancestors, at the sum of the distances.
LEMMA AncestorsAdd ==
    ASSUME AccessInv, NEW o \in Objects, NEW a \in Ancestors(o), NEW b \in Ancestors(a)
    PROVE  b \in Ancestors(o) /\ depth[o][b] = depth[o][a] + depth[a][b]
  <1> DEFINE Bad(n) == \E x \in Objects : /\ a \in Ancestors(x) /\ depth[x][a] = n
                                          /\ ~(/\ b \in Ancestors(x)
                                               /\ depth[x][b] = n + depth[a][b])
             S == {n \in Nat : Bad(n)}
  <1>0. /\ a \in Objects /\ b \in Objects
        /\ \A x, y \in Objects : depth[x][y] \in Nat
        /\ depth[a][b] > 0
    BY DEF Ancestors, AccessInv, AccessTypeOK
  <1>1. S = {}
    <2> SUFFICES ASSUME S # {} PROVE FALSE
      OBVIOUS
    <2>1. PICK n \in S : \A m \in S : n <= m
      <3>1. S \in SUBSET Nat
        OBVIOUS
      <3> HIDE DEF S
      <3> QED BY <3>1, LeastNat
    <2>2. PICK x \in Objects : /\ a \in Ancestors(x) /\ depth[x][a] = n
                               /\ ~(/\ b \in Ancestors(x)
                                    /\ depth[x][b] = n + depth[a][b])
      BY <2>1
    <2> DEFINE p == parent[x]
    <2>3. p \in Objects
      BY <2>2, RowAbove
    <2>4. CASE a = p
      <3>1. depth[x][a] = 1
        BY <2>2, <2>4, RowAbove
      <3>2. b \in Ancestors(x) /\ depth[x][b] = depth[a][b] + 1
        BY <2>3, <2>4, AboveParent
      <3> QED BY <1>0, <2>2, <3>1, <3>2
    <2>5. CASE a # p
      <3>1. a \in Ancestors(p) /\ depth[x][a] = depth[p][a] + 1
        BY <2>2, <2>5, RowAbove
      <3>2. depth[p][a] \in Nat /\ depth[p][a] < n
        BY <1>0, <2>2, <2>3, <3>1
      <3>3. ~Bad(depth[p][a])
        BY <2>1, <3>2
      <3>4. b \in Ancestors(p) /\ depth[p][b] = depth[p][a] + depth[a][b]
        BY <2>3, <3>1, <3>3
      <3>5. b \in Ancestors(x) /\ depth[x][b] = depth[p][b] + 1
        BY <2>3, <3>4, AboveParent
      <3> QED BY <1>0, <2>2, <2>3, <3>1, <3>4, <3>5
    <2> QED BY <2>4, <2>5
  <1>2. ~Bad(depth[o][a])
    BY <1>0, <1>1
  <1> QED BY <1>2

\* Of two ancestors at different distances the farther is the nearer's ancestor;
\* two at the same distance are one.
LEMMA AncestorsInLine ==
    ASSUME AccessInv, NEW o \in Objects, NEW a \in Ancestors(o), NEW b \in Ancestors(o),
           depth[o][a] <= depth[o][b]
    PROVE  a = b \/ b \in Ancestors(a)
  <1> DEFINE Bad(n) == \E x \in Objects :
                         /\ a \in Ancestors(x) /\ b \in Ancestors(x)
                         /\ depth[x][a] = n /\ n <= depth[x][b]
                         /\ a # b /\ b \notin Ancestors(a)
             S == {n \in Nat : Bad(n)}
  <1>0. /\ a \in Objects /\ b \in Objects
        /\ \A x, y \in Objects : depth[x][y] \in Nat
    BY DEF Ancestors, AccessInv, AccessTypeOK
  <1>1. S = {}
    <2> SUFFICES ASSUME S # {} PROVE FALSE
      OBVIOUS
    <2>1. PICK n \in S : \A m \in S : n <= m
      <3>1. S \in SUBSET Nat
        OBVIOUS
      <3> HIDE DEF S
      <3> QED BY <3>1, LeastNat
    <2>2. PICK x \in Objects : /\ a \in Ancestors(x) /\ b \in Ancestors(x)
                               /\ depth[x][a] = n /\ n <= depth[x][b]
                               /\ a # b /\ b \notin Ancestors(a)
      BY <2>1
    <2> DEFINE p == parent[x]
    <2>3. p \in Objects /\ depth[x][p] = 1
      BY <2>2, RowAbove
    <2>4. a # p
      <3>1. SUFFICES ASSUME a = p PROVE FALSE
        OBVIOUS
      <3>2. b \in Ancestors(p)
        BY <2>2, <3>1, RowAbove
      <3> QED BY <2>2, <3>1, <3>2
    <2>5. a \in Ancestors(p) /\ depth[x][a] = depth[p][a] + 1
      BY <2>2, <2>4, RowAbove
    <2>6. depth[p][a] > 0 /\ depth[p][a] \in Nat
      BY <1>0, <2>3, <2>5 DEF Ancestors
    <2>7. b # p
      BY <1>0, <2>2, <2>3, <2>5, <2>6
    <2>8. b \in Ancestors(p) /\ depth[x][b] = depth[p][b] + 1
      BY <2>2, <2>7, RowAbove
    <2>9. Bad(depth[p][a])
      BY <1>0, <2>2, <2>3, <2>5, <2>8
    <2> QED BY <1>0, <2>1, <2>2, <2>5, <2>6, <2>9
  <1>2. ~Bad(depth[o][a])
    BY <1>0, <1>1
  <1> QED BY <1>2

\* An ancestor that is not the parent lies just above another one.
LEMMA StepBelow ==
    ASSUME AccessInv, NEW o \in Objects, NEW a \in Ancestors(o), a # parent[o]
    PROVE  \E c \in Ancestors(o) : parent[c] = a /\ depth[o][a] = depth[o][c] + 1
  <1> DEFINE Bad(n) == \E x \in Objects :
                         /\ a \in Ancestors(x) /\ a # parent[x] /\ depth[x][a] = n
                         /\ ~\E c \in Ancestors(x) :
                               parent[c] = a /\ depth[x][a] = depth[x][c] + 1
             S == {n \in Nat : Bad(n)}
  <1>0. a \in Objects /\ \A x, y \in Objects : depth[x][y] \in Nat
    BY DEF Ancestors, AccessInv, AccessTypeOK
  <1>1. S = {}
    <2> SUFFICES ASSUME S # {} PROVE FALSE
      OBVIOUS
    <2>1. PICK n \in S : \A m \in S : n <= m
      <3>1. S \in SUBSET Nat
        OBVIOUS
      <3> HIDE DEF S
      <3> QED BY <3>1, LeastNat
    <2>2. PICK x \in Objects :
            /\ a \in Ancestors(x) /\ a # parent[x] /\ depth[x][a] = n
            /\ ~\E c \in Ancestors(x) : parent[c] = a /\ depth[x][a] = depth[x][c] + 1
      BY <2>1
    <2> DEFINE p == parent[x]
    <2>3. p \in Objects /\ depth[x][p] = 1 /\ p \in Ancestors(x)
      BY <2>2, RowAbove DEF Ancestors
    <2>4. a \in Ancestors(p) /\ depth[x][a] = depth[p][a] + 1
      BY <2>2, RowAbove
    <2>5. a # parent[p]
      <3>1. SUFFICES ASSUME a = parent[p] PROVE FALSE
        OBVIOUS
      <3>2. depth[p][a] = 1
        BY <2>3, <2>4, <3>1, RowAbove
      <3> QED BY <2>2, <2>3, <2>4, <3>1, <3>2
    <2>6. ~Bad(depth[p][a])
      BY <1>0, <2>1, <2>2, <2>3, <2>4
    <2>7. PICK c \in Ancestors(p) : parent[c] = a /\ depth[p][a] = depth[p][c] + 1
      BY <2>3, <2>4, <2>5, <2>6
    <2>8. c \in Ancestors(x) /\ depth[x][c] = depth[p][c] + 1
      BY <2>3, <2>7, AboveParent
    <2> QED BY <2>2, <2>4, <2>7, <2>8
  <1>2. ~Bad(depth[o][a])
    BY <1>0, <1>1
  <1> QED BY <1>2

\* Nothing lies as far up as there are objects, the distance that stands for a
\* line without a break.
LEMMA DepthBelowUnbroken ==
    ASSUME AccessInv, NEW o \in Objects, NEW a \in Ancestors(o)
    PROVE  depth[o][a] < Unbroken /\ Unbroken \in Nat
  <1> DEFINE Bad(n) == \E x \in Objects : /\ a \in Ancestors(x) /\ depth[x][a] = n
                                          /\ ~(n <= Cardinality(Ancestors(x)))
             S == {n \in Nat : Bad(n)}
  <1>0. a \in Objects /\ \A x, y \in Objects : depth[x][y] \in Nat
    BY DEF Ancestors, AccessInv, AccessTypeOK
  <1>1. ASSUME NEW x \in Objects
        PROVE  /\ IsFiniteSet(Ancestors(x)) /\ Cardinality(Ancestors(x)) \in Nat
               /\ Cardinality(Ancestors(x)) < Unbroken /\ Unbroken \in Nat
    <2>1. IsFiniteSet(Ancestors(x)) /\ Ancestors(x) \cup {x} \subseteq Objects
      BY FS_Subset DEF Ancestors
    <2>2. x \notin Ancestors(x)
      BY DEF Ancestors, AccessInv, TableIsTree
    <2>3. Cardinality(Ancestors(x) \cup {x}) = Cardinality(Ancestors(x)) + 1
      BY <2>1, <2>2, FS_AddElement
    <2>4. Cardinality(Ancestors(x) \cup {x}) <= Cardinality(Objects)
      BY <2>1, FS_Subset
    <2> QED BY <2>1, <2>3, <2>4, FS_CardinalityType DEF Unbroken
  <1>2. S = {}
    <2> SUFFICES ASSUME S # {} PROVE FALSE
      OBVIOUS
    <2>1. PICK n \in S : \A m \in S : n <= m
      <3>1. S \in SUBSET Nat
        OBVIOUS
      <3> HIDE DEF S
      <3> QED BY <3>1, LeastNat
    <2>2. PICK x \in Objects : /\ a \in Ancestors(x) /\ depth[x][a] = n
                               /\ ~(n <= Cardinality(Ancestors(x)))
      BY <2>1
    <2> DEFINE p == parent[x]
    <2>3. p \in Objects /\ p \in Ancestors(x)
      BY <2>2, RowAbove DEF Ancestors
    <2>4. p \notin Ancestors(p)
      BY <2>3 DEF Ancestors, AccessInv, TableIsTree
    <2>5. Ancestors(p) \cup {p} \subseteq Ancestors(x)
      BY <2>3, AboveParent
    <2>6. Cardinality(Ancestors(p)) + 1 <= Cardinality(Ancestors(x))
      <3>1. Cardinality(Ancestors(p) \cup {p}) = Cardinality(Ancestors(p)) + 1
        BY <1>1, <2>3, <2>4, FS_AddElement
      <3>2. Cardinality(Ancestors(p) \cup {p}) <= Cardinality(Ancestors(x))
        BY <1>1, <2>5, FS_Subset
      <3> QED BY <3>1, <3>2
    <2>7. CASE a = p
      <3>1. n = 1
        BY <2>2, <2>7, RowAbove
      <3> QED BY <1>1, <2>2, <2>3, <2>6, <3>1
    <2>8. CASE a # p
      <3>1. a \in Ancestors(p) /\ depth[x][a] = depth[p][a] + 1
        BY <2>2, <2>8, RowAbove
      <3>2. ~Bad(depth[p][a])
        BY <1>0, <2>1, <2>2, <2>3, <3>1
      <3>3. depth[p][a] <= Cardinality(Ancestors(p))
        BY <2>3, <3>1, <3>2
      <3> QED BY <1>0, <1>1, <2>2, <2>3, <2>6, <3>1, <3>3
    <2> QED BY <2>7, <2>8
  <1>3. ~Bad(depth[o][a])
    BY <1>0, <1>2
  <1> QED BY <1>0, <1>1, <1>3

-----------------------------------------------------------------------------
(* The invariant.                                                           *)

\* The greatest of some levels is one of them.
LEMMA GreatestIs ==
    ASSUME NEW S \in SUBSET (0..5), S # {}
    PROVE  Greatest(S) \in S /\ \A m \in S : m <= Greatest(S)
  <1>1. \E n \in S : \A m \in S : m <= n
    BY GreatestNat
  <1> QED BY <1>1 DEF Greatest

\* The levels of entries are levels, none among them, and so is what roles give.
LEMMA LevelsAreLevels ==
    ASSUME AccessInv, NEW S \in SUBSET Objects, NEW u \in Members, NEW o \in Objects
    PROVE  /\ EntryLevels(S, u) \subseteq 0..4
           /\ RoleLevel(o, u) \subseteq 0..5
           /\ CopiedRole(o, u) \subseteq 1..4
  <1>1. \A a \in Objects : acl[a][u] \in Entries
    BY DEF AccessInv, AccessTypeOK
  <1>2. \A a \in Objects : acl[a][u].level \in 0..4
    BY <1>1 DEF Entries, NoEntry
  <1>3. EntryLevels(S, u) \subseteq 0..4
    BY <1>2 DEF EntryLevels
  <1>4. role[u] \in RoleLevels \cup {0}
    BY DEF AccessInv, AccessTypeOK
  <1>5. ASSUME role[u] > 0 PROVE role[u] \in 1..4 /\ RoleGives[role[u]] \in 0..5
    <2>1. role[u] # 0
      BY <1>5
    <2>2. role[u] \in RoleLevels
      BY <1>4, <2>1
    <2> QED BY <2>2, AccessAssumption
  <1>6. RoleLevel(o, u) \subseteq 0..5 /\ CopiedRole(o, u) \subseteq 1..4
    BY <1>5 DEF RoleLevel, CopiedRole, RoleCounts
  <1> QED BY <1>3, <1>6

\* What a break writes is an entry, or what was there.
LEMMA BreakWritesEntry ==
    ASSUME AccessInv, NEW o \in Objects, NEW u \in Members
    PROVE  /\ Copied(o, u) \subseteq 0..4
           /\ AfterBreak(o, u) \in Entries
  <1>1. acl[o][u] \in Entries
    BY DEF AccessInv, AccessTypeOK
  <1>2. AclScope(o) \ {o} \in SUBSET Objects
    BY DEF AclScope, Ancestors
  <1>3. Copied(o, u) \subseteq 0..4
    BY <1>2, LevelsAreLevels DEF Copied
  <1>4. CASE Copied(o, u) = {}
    BY <1>1, <1>3, <1>4 DEF AfterBreak
  <1>5. CASE Copied(o, u) # {}
    <2> DEFINE S == Copied(o, u) \cup {acl[o][u].level}
    <2>1. acl[o][u].level \in 0..4
      BY <1>1 DEF Entries, NoEntry
    <2>2. Greatest(S) \in S
      <3>1. S \in SUBSET (0..5) /\ S # {}
        BY <1>3, <2>1
      <3> HIDE DEF S
      <3> QED BY <3>1, GreatestIs
    <2>3. Greatest(S) \in 0..4
      BY <1>3, <2>1, <2>2
    <2>4. PICK until \in {"ever", "later", "over"} :
            until = IF acl[o][u] = NoEntry THEN "ever" ELSE acl[o][u].until
      BY <1>1 DEF Entries
    <2>5. AfterBreak(o, u) = [level |-> Greatest(S), until |-> until]
      BY <1>5, <2>4 DEF AfterBreak
    <2>6. PICK g \in 0..4 : g = Greatest(S)
      BY <2>3
    <2>7. [level |-> g, until |-> until] \in [level : 0..4, until : {"ever", "later", "over"}]
      OBVIOUS
    <2>8. AfterBreak(o, u) = [level |-> g, until |-> until]
      BY <2>5, <2>6
    <2>9. AfterBreak(o, u) \in [level : 0..4, until : {"ever", "later", "over"}]
      BY <2>7, <2>8, Zenon
    <2> QED BY <1>3, <2>9 DEF Entries
  <1> QED BY <1>4, <1>5

\* A move keeps the table that of the tree: links inside the branch stay, those
\* to the old place are replaced by those to the new one.
LEMMA MoveKeepsTree ==
    ASSUME AccessInv, NEW o \in Objects, NEW p \in Objects \cup {NoObject}, Move(o, p)
    PROVE  AccessInv'
  <1> DEFINE B == Subtree(o)
  <1>0. /\ \A x, a \in Objects : depth[x][a] \in Nat
        /\ \A x \in Objects : depth[x][x] = 0
        /\ \A x \in Objects : parent[x] \in Objects \cup {NoObject}
    BY DEF AccessInv, AccessTypeOK, TableIsTree
  <1>1. /\ parent' = [parent EXCEPT ![o] = p]
        /\ \A x, a \in Objects :
             depth'[x][a] = IF x \in B /\ a \notin B THEN Above(o, p, x, a) ELSE depth[x][a]
        /\ p # o /\ (p # NoObject => depth[p][o] = 0)
        /\ UNCHANGED <<accessMode, acl, role>>
    BY DEF Move, MovedDepth
  <1>2. \A x \in Objects : x \in B <=> x = o \/ o \in Ancestors(x)
    BY DEF Subtree, Ancestors
  <1>3. p \in Objects => p \notin B
    BY <1>1, <1>2 DEF Ancestors
  <1>4. \A x, a \in Objects : Above(o, p, x, a) \in Nat
    BY <1>0 DEF Above, Ancestors
  <1>5. AccessTypeOK'
    <2>1. parent' \in [Objects -> Objects \cup {NoObject}]
      BY <1>1 DEF AccessInv, AccessTypeOK
    <2>2. depth' \in [Objects -> [Objects -> Nat]]
      BY <1>0, <1>4 DEF Move, MovedDepth
    <2> QED BY <1>1, <2>1, <2>2 DEF AccessInv, AccessTypeOK
  <1>6. ASSUME NEW x \in Objects PROVE depth'[x][x] = 0
    BY <1>0, <1>1
  \* The branch's own objects do not lie above it.
  <1>7. ASSUME NEW a \in B PROVE depth[o][a] = 0 /\ (p \in Objects => depth[p][a] = 0)
    <2>1. a \in Objects
      BY DEF Subtree
    <2>2. CASE a = o
      BY <1>0, <1>1, <2>2
    <2>3. CASE o \in Ancestors(a)
      <3>1. a \in Ancestors(o) => o \in Ancestors(o)
        BY <2>3, AncestorsAdd
      <3>2. p \in Objects /\ a \in Ancestors(p) => o \in Ancestors(p)
        BY <2>3, AncestorsAdd
      <3> QED BY <1>0, <1>1, <2>1, <3>1, <3>2 DEF Ancestors
    <2> QED BY <1>2, <2>1, <2>2, <2>3
  <1>8. ASSUME NEW a \in Objects PROVE depth'[o][a] = DepthAbove(p, a)'
    <2>1. o \in B
      BY <1>2
    <2>2. p \in Objects => depth'[p][a] = depth[p][a]
      BY <1>1, <1>3
    <2>3. CASE a \in B
      BY <1>1, <1>3, <1>7, <2>2, <2>3 DEF DepthAbove
    <2>4. CASE a \notin B
      <3>1. depth'[o][a] = Above(o, p, o, a)
        BY <1>1, <2>1, <2>4
      <3> QED BY <1>0, <2>2, <3>1 DEF Above, DepthAbove, Ancestors
    <2> QED BY <2>3, <2>4
  <1>9. ASSUME NEW x \in Objects, x # o, x \in B, NEW a \in Objects
        PROVE  (depth[x][a] = DepthAbove(parent[x], a))'
    <2> PICK q : q = parent[x]
      OBVIOUS
    <2>0. parent'[x] = q
      BY <1>1, <1>9 DEF AccessInv, AccessTypeOK
    <2>1. o \in Ancestors(x)
      BY <1>2, <1>9
    <2>2. q \in Objects /\ q \in B /\ depth[x][o] = depth[q][o] + 1
      BY <1>0, <1>2, <2>1, RowAbove
    <2>3. depth[x][a] = DepthAbove(q, a) /\ q # NoObject
      BY <2>2 DEF AccessInv, TableIsTree
    <2>4. CASE a \in B
      BY <1>1, <1>9, <2>0, <2>2, <2>3, <2>4 DEF DepthAbove
    <2>5. CASE a \notin B
      <3>1. depth'[x][a] = Above(o, p, x, a) /\ depth'[q][a] = Above(o, p, q, a)
        BY <1>1, <1>9, <2>2, <2>5
      <3>2. a # q
        BY <2>2, <2>5
      <3>3. /\ depth[q][o] \in Nat /\ (p # NoObject => depth[p][a] \in Nat)
        BY <1>0, <2>2
      <3>4. CASE p # NoObject /\ a \in {p} \cup Ancestors(p)
        <4>1. depth'[q][a] > 0 /\ depth'[x][a] = depth'[q][a] + 1
          BY <1>0, <2>2, <3>1, <3>3, <3>4 DEF Above
        <4> QED BY <2>0, <2>3, <3>2, <4>1 DEF DepthAbove
      <3>5. CASE ~(p # NoObject /\ a \in {p} \cup Ancestors(p))
        <4>1. depth'[q][a] = 0 /\ depth'[x][a] = 0
          BY <3>1, <3>5 DEF Above
        <4> QED BY <2>0, <2>3, <3>2, <4>1 DEF DepthAbove
      <3> QED BY <3>4, <3>5
    <2> QED BY <2>4, <2>5
  <1>10. ASSUME NEW x \in Objects, x \notin B, NEW a \in Objects
         PROVE  (depth[x][a] = DepthAbove(parent[x], a))'
    <2> PICK q : q = parent[x]
      OBVIOUS
    <2>0. parent'[x] = q
      BY <1>1, <1>2, <1>10 DEF AccessInv, AccessTypeOK
    <2>1. depth'[x][a] = DepthAbove(q, a)
      BY <1>1, <1>10 DEF AccessInv, TableIsTree
    <2>2. CASE q = NoObject
      BY <2>0, <2>1, <2>2 DEF DepthAbove
    <2>3. CASE q # NoObject
      <3>1. q \in Objects /\ depth[x][q] = 1
        BY <1>0, <2>3 DEF AccessInv, TableIsTree, DepthAbove
      <3>2. q \in Ancestors(x)
        BY <3>1 DEF Ancestors
      <3>3. q \notin B
        BY <1>2, <1>10, <3>1, <3>2, AncestorsAdd
      <3>4. depth'[q][a] = depth[q][a]
        BY <1>1, <3>1, <3>3
      <3> QED BY <2>0, <2>1, <3>4 DEF DepthAbove
    <2> QED BY <2>2, <2>3
  <1>11. TableIsTree'
    <2>1. parent'[o] = p
      BY <1>1 DEF AccessInv, AccessTypeOK
    <2>2. \A a \in Objects : (depth[o][a] = DepthAbove(parent[o], a))'
      BY <1>8, <2>1 DEF DepthAbove
    <2>3. \A x, a \in Objects : (depth[x][a] = DepthAbove(parent[x], a))'
      BY <1>9, <1>10, <2>2
    <2> QED BY <1>6, <2>3 DEF TableIsTree
  <1> QED BY <1>5, <1>11 DEF AccessInv

\* The initial states satisfy the invariant.
LEMMA AccessInitTyped == AccessInit => AccessInv
  <1>1. AccessInit => AccessTypeOK
    <2>1. AccessInit => acl \in [Objects -> [Members -> Entries]]
      BY DEF AccessInit, Entries
    <2> QED BY <2>1 DEF AccessInit, AccessTypeOK, Modes
  <1>2. AccessInit => TableIsTree
    BY DEF AccessInit, TableIsTree, DepthAbove
  <1> QED BY <1>1, <1>2 DEF AccessInv

\* Every step preserves it.
LEMMA AccessStep ==
    ASSUME AccessInv, [AccessNext]_accessVars
    PROVE  AccessInv'
  <1>1. ASSUME UNCHANGED <<parent, depth>>, AccessTypeOK' PROVE AccessInv'
    BY <1>1 DEF AccessInv, TableIsTree, DepthAbove
  <1>2. ASSUME NEW o \in Objects, BreakInheritance(o) PROVE AccessInv'
    <2>1. AccessTypeOK'
      <3>1. accessMode' \in [Objects -> Modes] /\ UNCHANGED <<parent, depth, role>>
        BY <1>2 DEF BreakInheritance, AccessInv, AccessTypeOK, Modes
      <3>2. [u \in Members |-> AfterBreak(o, u)] \in [Members -> Entries]
        BY BreakWritesEntry
      <3>3. acl' \in [Objects -> [Members -> Entries]]
        BY <1>2, <3>2 DEF BreakInheritance, AccessInv, AccessTypeOK
      <3> QED BY <3>1, <3>3 DEF AccessInv, AccessTypeOK
    <2> QED BY <1>1, <1>2, <2>1 DEF BreakInheritance
  <1>3. ASSUME NEW o \in Objects, NEW mode \in Modes, SetMode(o, mode) PROVE AccessInv'
    BY <1>1, <1>3 DEF SetMode, AccessInv, AccessTypeOK
  <1>4. ASSUME NEW o \in Objects, NEW u \in Members, NEW new \in Entries,
               acl' = [acl EXCEPT ![o][u] = new],
               UNCHANGED <<parent, depth, accessMode, role>>
        PROVE  AccessInv'
    BY <1>1, <1>4 DEF AccessInv, AccessTypeOK
  <1>5. ASSUME NEW o \in Objects, NEW u \in Members, RevokeAccess(o, u) PROVE AccessInv'
    BY <1>4, <1>5 DEF RevokeAccess, Entries
  <1>6. ASSUME NEW o \in Objects, NEW u \in Members, TermPasses(o, u) PROVE AccessInv'
    <2>1. acl[o][u] \in Entries /\ acl[o][u].until = "later"
      BY <1>6 DEF TermPasses, AccessInv, AccessTypeOK
    <2>2. [acl[o][u] EXCEPT !.until = "over"] \in Entries
      BY <2>1 DEF Entries, NoEntry
    <2>3. acl' = [acl EXCEPT ![o][u] = [acl[o][u] EXCEPT !.until = "over"]]
      BY <1>6 DEF TermPasses
    <2> QED BY <1>4, <1>6, <2>2, <2>3 DEF TermPasses
  <1>7. ASSUME NEW o \in Objects, NEW u \in Members, NEW grant \in GrantInputs,
               GrantAccess(o, u, grant)
        PROVE  AccessInv'
    <2>1. grant \in Entries
      BY DEF Entries
    <2> QED BY <1>4, <1>7, <2>1 DEF GrantAccess
  <1>8. ASSUME NEW u \in Members, SetRole(u) PROVE AccessInv'
    <2>1. role' \in [Members -> RoleLevels \cup {0}]
      BY <1>8 DEF SetRole, AccessInv, AccessTypeOK
    <2> QED BY <1>1, <1>8, <2>1 DEF SetRole, AccessInv, AccessTypeOK
  <1>9. CASE UNCHANGED accessVars
    BY <1>9 DEF accessVars, AccessInv, AccessTypeOK, TableIsTree, DepthAbove
  <1> QED BY <1>2, <1>3, <1>5, <1>6, <1>7, <1>8, <1>9, MoveKeepsTree
          DEF AccessNext, Modes

\* The types hold, and the table of ancestors is the one of the parents, in every
\* reachable state: whatever branch is moved wherever, no row is left over and
\* none is missing.
THEOREM AccessTyped == AccessSpec => []AccessInv
  BY AccessInitTyped, AccessStep, PTL DEF AccessSpec

-----------------------------------------------------------------------------
(* The queries.                                                             *)

\* How the nearest break is found.
LEMMA BoundaryDef ==
    ASSUME AccessInv, NEW o \in Objects
    PROVE  /\ Boundary(o) = Unbroken <=>
                /\ accessMode[o] = "inherit"
                /\ \A b \in Ancestors(o) : accessMode[b] = "inherit"
           /\ \A a \in Ancestors(o) :
                depth[o][a] <= Boundary(o) <=>
                  /\ accessMode[o] = "inherit"
                  /\ \A b \in Ancestors(o) :
                       accessMode[b] = "restricted" => depth[o][a] <= depth[o][b]
  <1> DEFINE breaks == {depth[o][a] : a \in {b \in Ancestors(o) : accessMode[b] = "restricted"}}
  <1>0. /\ \A x, y \in Objects : depth[x][y] \in Nat
        /\ \A x \in Objects : accessMode[x] \in Modes
        /\ \A a \in Ancestors(o) : a \in Objects /\ depth[o][a] > 0
    BY DEF Ancestors, AccessInv, AccessTypeOK
  <1>1. Unbroken \in Nat /\ Unbroken > 0
    <2>1. IsFiniteSet(Objects) /\ Objects # {}
      OBVIOUS
    <2>2. Unbroken # 0
      BY <2>1, FS_EmptySet DEF Unbroken
    <2> QED BY <2>1, <2>2, FS_CardinalityType DEF Unbroken
  <1>2. CASE accessMode[o] = "restricted"
    <2>1. Boundary(o) = 0
      BY <1>2 DEF Boundary
    <2> QED BY <1>0, <1>1, <1>2, <2>1 DEF Modes
  <1>3. CASE accessMode[o] = "inherit"
    <2>1. Boundary(o) = CHOOSE n \in breaks \cup {Unbroken} : \A m \in breaks : n <= m
      BY <1>3 DEF Boundary
    <2>2. breaks \in SUBSET Nat
      BY <1>0 DEF Ancestors
    <2>3. \E n \in breaks \cup {Unbroken} : \A m \in breaks \cup {Unbroken} : n <= m
      <3>1. breaks \cup {Unbroken} \in SUBSET Nat /\ breaks \cup {Unbroken} # {}
        BY <1>1, <2>2
      <3> HIDE DEF breaks
      <3> QED BY <3>1, LeastNat
    <2>4. Boundary(o) \in breaks \cup {Unbroken} /\ \A m \in breaks : Boundary(o) <= m
      <3> HIDE DEF breaks
      <3> QED BY <2>1, <2>3
    <2>5. \A m \in breaks : m < Unbroken
      BY DepthBelowUnbroken
    <2>6. \A b \in Ancestors(o) : accessMode[b] = "restricted" => depth[o][b] \in breaks
      OBVIOUS
    <2>7. CASE Boundary(o) = Unbroken
      <3>1. \A b \in Ancestors(o) : accessMode[b] = "inherit"
        <4>1. ASSUME NEW b \in Ancestors(o), accessMode[b] = "restricted" PROVE FALSE
          <5>1. Unbroken <= depth[o][b] /\ depth[o][b] < Unbroken
            BY <2>4, <2>5, <2>6, <2>7, <4>1
          <5> QED BY <1>0, <1>1, <5>1
        <4> QED BY <1>0, <4>1 DEF Modes
      <3>2. \A a \in Ancestors(o) : depth[o][a] <= Boundary(o)
        <4>1. ASSUME NEW a \in Ancestors(o) PROVE depth[o][a] <= Unbroken
          BY <1>0, <1>1, DepthBelowUnbroken
        <4> QED BY <2>7, <4>1
      <3> QED BY <1>3, <2>7, <3>1, <3>2
    <2>8. CASE Boundary(o) # Unbroken
      <3>1. PICK b \in Ancestors(o) : accessMode[b] = "restricted" /\ Boundary(o) = depth[o][b]
        BY <2>4, <2>8
      <3>2. \A c \in Ancestors(o) : accessMode[c] = "restricted" => depth[o][b] <= depth[o][c]
        BY <2>4, <2>6, <3>1
      <3>3. \A a, c \in Ancestors(o) :
              /\ depth[o][a] \in Nat /\ depth[o][b] \in Nat /\ depth[o][c] \in Nat
        BY <1>0
      <3>4. \A a \in Ancestors(o) :
              depth[o][a] <= depth[o][b] <=>
                \A c \in Ancestors(o) :
                  accessMode[c] = "restricted" => depth[o][a] <= depth[o][c]
        BY <3>1, <3>2, <3>3
      <3> QED BY <1>3, <2>8, <3>1, <3>4
    <2> QED BY <2>7, <2>8
  <1> QED BY <1>0, <1>2, <1>3 DEF Modes

\* The scope of an object: itself, and its ancestors up to the nearest break.
LEMMA ScopeDef ==
    ASSUME AccessInv, NEW o \in Objects
    PROVE  \A a : a \in AclScope(o) <=>
             \/ a = o
             \/ /\ a \in Ancestors(o)
                /\ accessMode[o] = "inherit"
                /\ \A b \in Ancestors(o) :
                     accessMode[b] = "restricted" => depth[o][a] <= depth[o][b]
  <1>1. \A a : a \in AclScope(o) <=> a = o \/ (a \in Ancestors(o) /\ depth[o][a] <= Boundary(o))
    BY DEF AclScope
  <1> QED BY <1>1, BoundaryDef

\* The scope that the table gives is the line that the parents give.
LEMMA ScopeIsLine ==
    ASSUME AccessInv, NEW o \in Objects
    PROVE  AclScope(o) = Line(o)
  <1>0. /\ \A x, y \in Objects : depth[x][y] \in Nat
        /\ \A x \in Objects : accessMode[x] \in Modes
        /\ \A x \in Objects : Ancestors(x) \subseteq Objects
        /\ \A x \in Objects : parent[x] \in Objects \cup {NoObject}
    BY DEF Ancestors, AccessInv, AccessTypeOK
  <1>1. AclScope(o) \in SUBSET Objects /\ o \in AclScope(o)
    BY DEF AclScope, Ancestors
  <1>2. ClosedUpward(AclScope(o))
    <2> SUFFICES ASSUME NEW x \in AclScope(o), accessMode[x] = "inherit",
                        parent[x] # NoObject
                 PROVE  parent[x] \in AclScope(o)
      BY DEF ClosedUpward
    <2> DEFINE q == parent[x]
    <2>1. x \in Objects /\ q \in Objects
      BY <1>0, <1>1
    <2>2. depth[x][q] = 1 /\ q \in Ancestors(x)
      <3>1. depth[x][q] = 1
        BY <2>1 DEF AccessInv, TableIsTree, DepthAbove
      <3> QED BY <2>1, <3>1 DEF Ancestors
    <2>3. CASE x = o
      <3>1. \A b \in Ancestors(o) : depth[o][q] <= depth[o][b]
        BY <1>0, <2>2, <2>3 DEF Ancestors
      <3> QED BY <2>2, <2>3, <3>1, ScopeDef
    <2>4. CASE x # o
      <3>1. /\ x \in Ancestors(o) /\ accessMode[o] = "inherit"
            /\ \A b \in Ancestors(o) :
                 accessMode[b] = "restricted" => depth[o][x] <= depth[o][b]
        BY <2>4, ScopeDef
      <3>2. q \in Ancestors(o) /\ depth[o][q] = depth[o][x] + 1
        BY <2>1, <2>2, <3>1, AncestorsAdd
      <3>3. ASSUME NEW b \in Ancestors(o), accessMode[b] = "restricted"
            PROVE  depth[o][q] <= depth[o][b]
        <4>1. b # x
          BY <3>3
        <4>2. b \in Ancestors(x)
          BY <3>1, <3>3, <4>1, AncestorsInLine
        <4>3. depth[o][b] = depth[o][x] + depth[x][b] /\ depth[x][b] > 0
          BY <3>1, <4>2, AncestorsAdd DEF Ancestors
        <4> QED BY <1>0, <2>1, <3>2, <4>2, <4>3
      <3> QED BY <3>1, <3>2, <3>3, ScopeDef
    <2> QED BY <2>3, <2>4
  <1>3. ASSUME NEW S \in SUBSET Objects, o \in S, ClosedUpward(S)
        PROVE  AclScope(o) \subseteq S
    <2> DEFINE Left == {depth[o][a] : a \in AclScope(o) \ S}
    <2> SUFFICES ASSUME AclScope(o) \ S # {} PROVE FALSE
      OBVIOUS
    <2>1. PICK n \in Left : \A m \in Left : n <= m
      <3>1. Left \in SUBSET Nat /\ Left # {}
        BY <1>0, <1>1
      <3> HIDE DEF Left
      <3> QED BY <3>1, LeastNat
    <2>2. PICK a \in AclScope(o) \ S : \A c \in AclScope(o) \ S : depth[o][a] <= depth[o][c]
      BY <2>1
    <2>3. /\ a \in Ancestors(o) /\ accessMode[o] = "inherit"
          /\ \A b \in Ancestors(o) :
               accessMode[b] = "restricted" => depth[o][a] <= depth[o][b]
      BY <1>3, <2>2, ScopeDef
    <2>4. parent[o] # NoObject
      BY <2>3, RowAbove
    <2>5. a # parent[o]
      BY <1>3, <2>2, <2>3, <2>4 DEF ClosedUpward
    <2>6. PICK c \in Ancestors(o) : parent[c] = a /\ depth[o][a] = depth[o][c] + 1
      BY <2>3, <2>5, StepBelow
    <2>7. depth[o][c] \in Nat /\ depth[o][a] \in Nat /\ c \in Objects /\ a \in Objects
      BY <1>0, <2>3, <2>6
    <2>8. c \in AclScope(o) /\ accessMode[c] = "inherit"
      <3>1. \A b \in Ancestors(o) :
              accessMode[b] = "restricted" => depth[o][c] < depth[o][b]
        BY <1>0, <2>3, <2>6, <2>7
      <3>2. accessMode[c] # "restricted"
        BY <2>7, <3>1
      <3>3. \A b \in Ancestors(o) :
              accessMode[b] = "restricted" => depth[o][c] <= depth[o][b]
        BY <1>0, <2>7, <3>1
      <3> QED BY <1>0, <2>3, <2>7, <3>2, <3>3, ScopeDef DEF Modes
    <2>9. c \in S
      BY <2>2, <2>6, <2>7, <2>8
    <2>10. a \in S
      BY <1>0, <1>3, <2>6, <2>7, <2>8, <2>9 DEF ClosedUpward
    <2> QED BY <2>2, <2>10
  <1> QED BY <1>1, <1>2, <1>3 DEF Line

\* A role counts on an object exactly when its line has no break.
LEMMA RoleCountsOnLine ==
    ASSUME AccessInv, NEW o \in Objects, NEW u \in Members
    PROVE  RoleCounts(o, u) <=> RoleOn(Line(o), u)
  <1>1. AclScope(o) \subseteq Objects
    BY DEF AclScope, Ancestors
  <1>2. ASSUME Boundary(o) = Unbroken PROVE \A a \in AclScope(o) : accessMode[a] = "inherit"
    BY <1>2, BoundaryDef, ScopeDef
  <1>3. ASSUME \A a \in AclScope(o) : accessMode[a] = "inherit" PROVE Boundary(o) = Unbroken
    <2>1. accessMode[o] = "inherit"
      BY <1>3, ScopeDef
    <2>2. ASSUME NEW b \in Ancestors(o), accessMode[b] # "inherit" PROVE FALSE
      <3> DEFINE Broken == {depth[o][a] : a \in {c \in Ancestors(o) : accessMode[c] # "inherit"}}
      <3>1. PICK n \in Broken : \A m \in Broken : n <= m
        <4>1. Broken \in SUBSET Nat /\ Broken # {}
          BY <2>2 DEF Ancestors, AccessInv, AccessTypeOK
        <4> HIDE DEF Broken
        <4> QED BY <4>1, LeastNat
      <3>2. PICK a \in Ancestors(o) : accessMode[a] # "inherit" /\ n = depth[o][a]
        BY <3>1
      <3>3. \A c \in Ancestors(o) : accessMode[c] = "restricted" => depth[o][a] <= depth[o][c]
        BY <3>1, <3>2
      <3>4. a \in AclScope(o)
        BY <2>1, <3>2, <3>3, ScopeDef
      <3> QED BY <1>3, <3>2, <3>4
    <2> QED BY <2>1, <2>2, BoundaryDef
  <1> QED BY <1>2, <1>3, ScopeIsLine DEF RoleCounts, RoleOn

\* For one object and one person, whatever levels entries and roles give, the
\* level none included: the check of the object is positive exactly when the
\* tree lets the person view it; a list shows exactly what any entry in force or
\* the role reaches; the index has exactly what may be viewed or the role reaches.
LEMMA QueriesAnswerByTree ==
    ASSUME AccessInv, NEW o \in Objects, NEW u \in Members
    PROVE  /\ EffectiveLevel(o, u) > 0 <=> MayView(Line(o), u)
           /\ ShownInLists(o, u) <=> (LevelsOn(Line(o), u) # {} \/ RoleOn(Line(o), u))
           /\ IndexedFor(o, u) <=> (MayView(Line(o), u) \/ RoleOn(Line(o), u))
  <1> DEFINE E == EntryLevels(AclScope(o), u)
             R == RoleLevel(o, u)
             open == RoleCounts(o, u)
  <1>0. /\ AclScope(o) \in SUBSET Objects /\ o \in AclScope(o) /\ accessMode[o] \in Modes
        /\ E \subseteq 0..4 /\ R \subseteq 0..5
    BY LevelsAreLevels DEF AclScope, Ancestors, AccessInv, AccessTypeOK
  <1>1. LevelsOn(Line(o), u) = E /\ (RoleOn(Line(o), u) <=> open)
    BY ScopeIsLine, RoleCountsOnLine DEF LevelsOn, EntryLevels
  <1>2. MayView(Line(o), u)
          <=> ((\E level \in E : level > 0) \/ (open /\ RoleGives[role[u]] > 0))
    <2> HIDE DEF E, open
    <2> QED BY <1>1 DEF MayView
  <1>3. EffectiveLevel(o, u) > 0 <=> MayView(Line(o), u)
    <2> DEFINE L == {0} \cup E \cup R
    <2>1. Greatest(L) \in L /\ \A m \in L : m <= Greatest(L)
      <3>1. L \in SUBSET (0..5) /\ L # {}
        BY <1>0
      <3> HIDE DEF L
      <3> QED BY <3>1, GreatestIs
    <2>2. L \in SUBSET Nat
      BY <1>0
    <2>3. Greatest(L) > 0 <=> \E m \in L : m > 0
      <3>1. ASSUME NEW m \in L, m > 0 PROVE Greatest(L) > 0
        <4> HIDE DEF L
        <4>1. m <= Greatest(L) /\ Greatest(L) \in Nat /\ m \in Nat
          BY <2>1, <2>2
        <4> QED BY <3>1, <4>1
      <3> HIDE DEF L
      <3> QED BY <2>1, <3>1
    <2>4. (\E m \in R : m > 0) <=> open /\ RoleGives[role[u]] > 0
      BY DEF RoleLevel
    <2>5. (\E m \in L : m > 0) <=> ((\E m \in E : m > 0) \/ (\E m \in R : m > 0))
      <3>1. \A m : m \in L <=> m = 0 \/ m \in E \/ m \in R
        OBVIOUS
      <3> HIDE DEF L, E, R
      <3> QED BY <3>1
    <2>6. EffectiveLevel(o, u) = Greatest(L)
      BY DEF EffectiveLevel
    <2> HIDE DEF L, E, R, open
    <2> QED BY <1>2, <2>3, <2>4, <2>5, <2>6
  <1>4. ShownInLists(o, u) <=> LevelsOn(Line(o), u) # {} \/ RoleOn(Line(o), u)
    <2>1. E # {} <=> \E a \in AclScope(o) : InForce(a, u)
      BY DEF EntryLevels
    <2>2. CASE accessMode[o] = "inherit"
      <3>1. ShownInLists(o, u) <=> open \/ \E a \in AclScope(o) : InForce(a, u)
        BY <1>0, <2>2 DEF ShownInLists
      <3> QED BY <1>1, <2>1, <3>1
    <2>3. CASE accessMode[o] = "restricted"
      <3>1. AclScope(o) = {o} /\ ~open
        BY <2>3, ScopeDef, BoundaryDef DEF RoleCounts
      <3>2. ShownInLists(o, u) <=> InForce(o, u)
        BY <2>3 DEF ShownInLists
      <3> QED BY <1>1, <2>1, <3>1, <3>2
    <2> QED BY <1>0, <2>2, <2>3 DEF Modes
  <1>5. IndexedFor(o, u) <=> MayView(Line(o), u) \/ RoleOn(Line(o), u)
    <2>1. (\E level \in E : level > 0) <=>
             \E a \in AclScope(o) : InForce(a, u) /\ acl[a][u].level >= 1
      <3>1. \A a \in AclScope(o) : InForce(a, u) => acl[a][u].level \in 0..4
        BY <1>0 DEF EntryLevels
      <3>2. \A level : level \in E
                         <=> \E a \in AclScope(o) : InForce(a, u) /\ acl[a][u].level = level
        BY DEF EntryLevels
      <3> HIDE DEF E
      <3>3. ASSUME NEW level \in E, level > 0
            PROVE  \E a \in AclScope(o) : InForce(a, u) /\ acl[a][u].level >= 1
        <4>1. PICK a \in AclScope(o) : InForce(a, u) /\ acl[a][u].level = level
          BY <3>2
        <4>2. acl[a][u].level \in 0..4 /\ acl[a][u].level > 0
          BY <3>1, <3>3, <4>1
        <4> QED BY <4>1, <4>2
      <3>4. ASSUME NEW a \in AclScope(o), InForce(a, u), acl[a][u].level >= 1
            PROVE  \E level \in E : level > 0
        <4>1. acl[a][u].level \in E
          BY <3>2, <3>4
        <4>2. acl[a][u].level > 0
          BY <3>1, <3>4
        <4> QED BY <4>1, <4>2
      <3> QED BY <3>3, <3>4
    <2> HIDE DEF E
    <2>2. IndexedFor(o, u)
            <=> ((\E a \in AclScope(o) : InForce(a, u) /\ acl[a][u].level >= 1) \/ open)
      BY DEF IndexedFor
    <2> HIDE DEF open
    <2> QED BY <1>1, <1>2, <2>1, <2>2
  <1> QED BY <1>3, <1>4, <1>5

\* The check of an object, the lists and the index answer by the tree in every
\* reachable state, for every level that entries and roles may have.
THEOREM QueriesFollowTheTree == AccessSpec => []AnswersAgree
  <1>1. AccessInv => AnswersAgree
    BY QueriesAnswerByTree DEF AnswersAgree
  <1> QED BY <1>1, AccessTyped, PTL

\* Where no entry and no role gives the level none, what a list or the index
\* shows is what the person may view.
LEMMA OneAnswerButForNone ==
    ASSUME AccessInv, NEW o \in Objects, NEW u \in Members,
           0 \notin EntryLevels(AclScope(o), u) \cup RoleLevel(o, u)
    PROVE  /\ ShownInLists(o, u) <=> EffectiveLevel(o, u) > 0
           /\ IndexedFor(o, u) <=> EffectiveLevel(o, u) > 0
  <1>1. /\ LevelsOn(Line(o), u) = EntryLevels(AclScope(o), u)
        /\ RoleOn(Line(o), u) <=> RoleCounts(o, u)
    BY ScopeIsLine, RoleCountsOnLine DEF LevelsOn, EntryLevels
  <1>2. AclScope(o) \in SUBSET Objects
    BY DEF AclScope, Ancestors
  <1>3. EntryLevels(AclScope(o), u) \subseteq 0..4 /\ RoleLevel(o, u) \subseteq 0..5
    BY <1>2, LevelsAreLevels
  <1>4. \A level \in LevelsOn(Line(o), u) : level > 0
    BY <1>1, <1>3
  <1>5. RoleOn(Line(o), u) => RoleGives[role[u]] > 0
    BY <1>1, <1>3 DEF RoleLevel
  <1>6. MayView(Line(o), u) <=> LevelsOn(Line(o), u) # {} \/ RoleOn(Line(o), u)
    BY <1>4, <1>5 DEF MayView
  <1> QED BY <1>6, QueriesAnswerByTree

NoneReaches(o, u) == 0 \in EntryLevels(AclScope(o), u) \cup RoleLevel(o, u)

OneAnswerButNone ==
    \A o \in Objects, u \in Members :
      /\ EffectiveLevel(o, u) > 0 => ShownInLists(o, u) /\ IndexedFor(o, u)
      /\ ~NoneReaches(o, u) => /\ ShownInLists(o, u) => EffectiveLevel(o, u) > 0
                               /\ IndexedFor(o, u) => EffectiveLevel(o, u) > 0

\* One object, a list and the search index give one answer in every reachable
\* state for everybody whom no level none reaches.  Neither hides what the person
\* may view from anybody.
THEOREM OneAnswerEverywhere == AccessSpec => []OneAnswerButNone
  <1>1. ASSUME AccessInv, NEW o \in Objects, NEW u \in Members
        PROVE  /\ EffectiveLevel(o, u) > 0 => ShownInLists(o, u) /\ IndexedFor(o, u)
               /\ ~NoneReaches(o, u) =>
                    /\ ShownInLists(o, u) => EffectiveLevel(o, u) > 0
                    /\ IndexedFor(o, u) => EffectiveLevel(o, u) > 0
    <2>1. MayView(Line(o), u) => LevelsOn(Line(o), u) # {} \/ RoleOn(Line(o), u)
      BY DEF MayView
    <2>2. EffectiveLevel(o, u) > 0 => ShownInLists(o, u) /\ IndexedFor(o, u)
      BY <1>1, <2>1, QueriesAnswerByTree
    <2>3. ASSUME ~NoneReaches(o, u)
          PROVE  /\ ShownInLists(o, u) => EffectiveLevel(o, u) > 0
                 /\ IndexedFor(o, u) => EffectiveLevel(o, u) > 0
      BY <1>1, <2>3, OneAnswerButForNone DEF NoneReaches
    <2> QED BY <2>2, <2>3
  <1>2. AccessInv => OneAnswerButNone
    BY <1>1 DEF OneAnswerButNone
  <1> QED BY <1>2, AccessTyped, PTL

-----------------------------------------------------------------------------
(* A break of inheritance.                                                  *)

\* What BoundaryDef and ScopeDef say of every object.
InScope(o, a) ==
    \/ a = o
    \/ /\ a \in Ancestors(o)
       /\ accessMode[o] = "inherit"
       /\ \A b \in Ancestors(o) : accessMode[b] = "restricted" => depth[o][a] <= depth[o][b]
Open(o) == accessMode[o] = "inherit" /\ \A b \in Ancestors(o) : accessMode[b] = "inherit"
QueriesAreTheTree ==
    \A o \in Objects : /\ \A a : a \in AclScope(o) <=> InScope(o, a)
                       /\ Boundary(o) = Unbroken <=> Open(o)

\* The scope and the open line of every object, in one formula.
LEMMA QueriesOfTree == AccessInv => QueriesAreTheTree
  BY ScopeDef, BoundaryDef DEF QueriesAreTheTree, InScope, Open

\* A break splits each scope that reaches it: what lay above belongs to the
\* broken object alone, and no role comes down any more.
LEMMA BreakSplitsScope ==
    ASSUME AccessInv, NEW o \in Objects, BreakInheritance(o), NEW x \in Objects
    PROVE  /\ o \notin AclScope(x) =>
                /\ AclScope(x)' = AclScope(x)
                /\ Boundary(x)' = Unbroken <=> Boundary(x) = Unbroken
           /\ o \in AclScope(x) =>
                /\ AclScope(x) = AclScope(x)' \cup AclScope(o)
                /\ o \in AclScope(x)'
                /\ Boundary(x)' # Unbroken
                /\ Boundary(x) = Unbroken <=> Boundary(o) = Unbroken
  <1>0. /\ QueriesAreTheTree /\ QueriesAreTheTree'
        /\ \A y, z \in Objects : depth[y][z] \in Nat
        /\ \A y \in Objects : accessMode[y] \in Modes
        /\ \A y \in Objects : Ancestors(y) \subseteq Objects /\ y \notin Ancestors(y)
    <2>1. AccessInv'
      BY AccessStep DEF AccessNext
    <2>2. QueriesAreTheTree'
      BY <2>1, QueriesOfTree, PTL
    <2> QED BY <2>2, QueriesOfTree DEF AccessInv, AccessTypeOK, TableIsTree, Ancestors
  <1>1. /\ accessMode[o] = "inherit"
        /\ \A y \in Objects : accessMode'[y] = IF y = o THEN "restricted" ELSE accessMode[y]
        /\ depth' = depth /\ Unbroken' = Unbroken
        /\ \A y : Ancestors(y)' = Ancestors(y)
    BY DEF BreakInheritance, AccessInv, AccessTypeOK, Ancestors, Unbroken
  <1>2. \A a : a \in AclScope(x) <=> InScope(x, a)
    BY <1>0 DEF QueriesAreTheTree
  <1>3. \A a : a \in AclScope(x)' <=> InScope(x, a)'
    BY <1>0 DEF QueriesAreTheTree
  <1>4. \A a : a \in AclScope(o) <=> InScope(o, a)
    BY <1>0 DEF QueriesAreTheTree
  <1>5. /\ Boundary(x) = Unbroken <=> Open(x)
        /\ Boundary(o) = Unbroken <=> Open(o)
        /\ Boundary(x)' = Unbroken <=> Open(x)'
    BY <1>0, <1>1 DEF QueriesAreTheTree
  <1>6. CASE o \notin AclScope(x)
    <2>1. x # o
      BY <1>2, <1>6 DEF InScope
    <2>2. CASE o \notin Ancestors(x)
      <3>1. accessMode'[x] = accessMode[x] /\ \A b \in Ancestors(x) : accessMode'[b] = accessMode[b]
        BY <1>0, <1>1, <2>1, <2>2
      <3>2. \A a : InScope(x, a)' <=> InScope(x, a)
        BY <1>1, <3>1 DEF InScope
      <3>3. Open(x)' <=> Open(x)
        BY <1>1, <3>1 DEF Open
      <3>4. AclScope(x)' = AclScope(x)
        BY <1>2, <1>3, <3>2
      <3> QED BY <1>5, <1>6, <3>3, <3>4
    <2>3. CASE o \in Ancestors(x) /\ accessMode[x] # "inherit"
      <3>1. accessMode'[x] = accessMode[x]
        BY <1>1, <2>1
      <3>2. \A a : InScope(x, a)' <=> InScope(x, a)
        BY <2>3, <3>1 DEF InScope
      <3>3. ~Open(x) /\ ~Open(x)'
        BY <2>3, <3>1 DEF Open
      <3>4. AclScope(x)' = AclScope(x)
        BY <1>2, <1>3, <3>2
      <3> QED BY <1>5, <1>6, <3>3, <3>4
    <2>4. CASE o \in Ancestors(x) /\ accessMode[x] = "inherit"
      <3>1. PICK b \in Ancestors(x) : accessMode[b] = "restricted" /\ ~(depth[x][o] <= depth[x][b])
        BY <1>2, <1>6, <2>4 DEF InScope
      <3>2. accessMode'[x] = accessMode[x] /\ accessMode'[b] = "restricted"
        BY <1>0, <1>1, <2>1, <3>1
      <3>3. depth[x][b] < depth[x][o] /\ depth[x][b] \in Nat /\ depth[x][o] \in Nat
        BY <1>0, <3>1
      <3>4. ASSUME NEW a PROVE InScope(x, a)' <=> InScope(x, a)
        <4>1. ASSUME NEW c \in Ancestors(x)
              PROVE  accessMode'[c] = IF c = o THEN "restricted" ELSE accessMode[c]
          BY <1>0, <1>1
        <4>2. ASSUME InScope(x, a), a # x, NEW c \in Ancestors(x), accessMode'[c] = "restricted"
              PROVE  depth[x][a] <= depth[x][c]
          <5>1. depth[x][a] <= depth[x][b] /\ a \in Ancestors(x) /\ depth[x][a] \in Nat
            BY <1>0, <3>1, <4>2 DEF InScope
          <5>2. c = o \/ accessMode[c] = "restricted"
            BY <4>1, <4>2
          <5> QED BY <3>3, <4>2, <5>1, <5>2 DEF InScope
        <4>3. ASSUME InScope(x, a)', a # x, NEW c \in Ancestors(x), accessMode[c] = "restricted"
              PROVE  depth[x][a] <= depth[x][c]
          <5>1. accessMode'[c] = "restricted"
            BY <4>1, <4>3
          <5> QED BY <1>1, <4>3, <5>1 DEF InScope
        <4> QED BY <1>1, <2>4, <3>2, <4>2, <4>3 DEF InScope
      <3>5. ~Open(x) /\ ~Open(x)'
        BY <1>1, <3>1, <3>2 DEF Open
      <3>6. AclScope(x)' = AclScope(x)
        BY <1>2, <1>3, <3>4
      <3> QED BY <1>5, <1>6, <3>5, <3>6
    <2> QED BY <2>2, <2>3, <2>4
  <1>7. CASE o \in AclScope(x) /\ x = o
    <2>1. accessMode'[o] = "restricted"
      BY <1>1
    <2>2. \A a : InScope(o, a)' <=> a = o
      BY <2>1 DEF InScope
    <2>3. ~Open(o)'
      BY <2>1 DEF Open
    <2>4. AclScope(o)' = {o} /\ o \in AclScope(o)
      BY <1>3, <1>7, <2>2
    <2> QED BY <1>5, <1>7, <2>3, <2>4
  <1>8. CASE o \in AclScope(x) /\ x # o
    <2>1. /\ o \in Ancestors(x) /\ accessMode[x] = "inherit"
          /\ \A b \in Ancestors(x) : accessMode[b] = "restricted" => depth[x][o] <= depth[x][b]
      BY <1>2, <1>8 DEF InScope
    <2>2. accessMode'[x] = "inherit" /\ accessMode'[o] = "restricted"
      BY <1>1, <1>8, <2>1
    <2>3. ASSUME NEW b \in Ancestors(x), accessMode[b] # "inherit"
          PROVE  b \in Ancestors(o) /\ accessMode[b] = "restricted"
      <3>1. accessMode[b] = "restricted"
        BY <1>0, <2>3 DEF Modes
      <3> QED BY <1>1, <2>1, <2>3, <3>1, AncestorsInLine
    <2>4. ASSUME NEW b \in Ancestors(o)
          PROVE  b \in Ancestors(x) /\ depth[x][b] = depth[x][o] + depth[o][b]
      BY <2>1, AncestorsAdd
    <2>5. ASSUME NEW a \in AclScope(x)' PROVE a \in AclScope(x)
      <3>1. CASE a = x
        BY <1>2, <3>1 DEF InScope
      <3>2. CASE a # x
        <4>1. InScope(x, a)'
          BY <1>3, <2>5
        <4>2. a \in Ancestors(x) /\ \A b \in Ancestors(x) :
                accessMode'[b] = "restricted" => depth[x][a] <= depth[x][b]
          BY <1>1, <3>2, <4>1 DEF InScope
        <4>3. \A b \in Ancestors(x) : accessMode[b] = "restricted" => accessMode'[b] = "restricted"
          BY <1>0, <1>1
        <4> QED BY <1>2, <2>1, <4>2, <4>3 DEF InScope
      <3> QED BY <3>1, <3>2
    <2>6. ASSUME NEW a \in AclScope(o) PROVE a \in AclScope(x)
      <3>1. CASE a = o
        BY <1>8, <3>1
      <3>2. CASE a # o
        <4>1. a \in Ancestors(o) /\ \A b \in Ancestors(o) :
                accessMode[b] = "restricted" => depth[o][a] <= depth[o][b]
          BY <1>4, <2>6, <3>2 DEF InScope
        <4>2. a \in Ancestors(x) /\ depth[x][a] = depth[x][o] + depth[o][a]
          BY <2>4, <4>1
        <4>3. ASSUME NEW b \in Ancestors(x), accessMode[b] = "restricted"
              PROVE  depth[x][a] <= depth[x][b]
          <5>1. b \in Ancestors(o)
            BY <2>3, <4>3
          <5>2. depth[x][b] = depth[x][o] + depth[o][b] /\ depth[o][a] <= depth[o][b]
            BY <2>4, <4>1, <4>3, <5>1
          <5>3. depth[x][o] \in Nat /\ depth[o][a] \in Nat /\ depth[o][b] \in Nat
            BY <1>0, <2>1, <4>1, <5>1
          <5> QED BY <4>2, <5>2, <5>3
        <4> QED BY <1>2, <2>1, <4>2, <4>3 DEF InScope
      <3> QED BY <3>1, <3>2
    <2>7. ASSUME NEW a \in AclScope(x) PROVE a \in AclScope(x)' \/ a \in AclScope(o)
      <3>1. CASE a = x
        BY <1>3, <3>1 DEF InScope
      <3>2. CASE a # x
        <4>1. a \in Ancestors(x) /\ \A b \in Ancestors(x) :
                accessMode[b] = "restricted" => depth[x][a] <= depth[x][b]
          BY <1>2, <2>7, <3>2 DEF InScope
        <4>2. CASE depth[x][a] <= depth[x][o]
          <5>1. \A b \in Ancestors(x) : accessMode'[b] = "restricted" => depth[x][a] <= depth[x][b]
            BY <1>0, <1>1, <4>1, <4>2
          <5> QED BY <1>1, <1>3, <2>2, <4>1, <5>1 DEF InScope
        <4>3. CASE ~(depth[x][a] <= depth[x][o])
          <5>1. depth[x][o] \in Nat /\ depth[x][a] \in Nat /\ depth[x][o] < depth[x][a]
            BY <1>0, <2>1, <4>1, <4>3
          <5>2. a \in Ancestors(o)
            BY <2>1, <4>1, <5>1, AncestorsInLine
          <5>3. ASSUME NEW b \in Ancestors(o), accessMode[b] = "restricted"
                PROVE  depth[o][a] <= depth[o][b]
            <6>1. /\ depth[x][a] = depth[x][o] + depth[o][a]
                  /\ depth[x][b] = depth[x][o] + depth[o][b]
                  /\ depth[x][a] <= depth[x][b]
              BY <2>4, <4>1, <5>2, <5>3
            <6>2. depth[o][a] \in Nat /\ depth[o][b] \in Nat
              BY <1>0, <5>2
            <6> QED BY <5>1, <6>1, <6>2
          <5> QED BY <1>1, <1>4, <5>2, <5>3 DEF InScope
        <4> QED BY <4>2, <4>3
      <3> QED BY <3>1, <3>2
    <2>8. o \in AclScope(x)'
      <3>1. \A b \in Ancestors(x) : accessMode'[b] = "restricted" => depth[x][o] <= depth[x][b]
        BY <1>0, <1>1, <2>1
      <3> QED BY <1>1, <1>3, <2>1, <2>2, <3>1 DEF InScope
    <2>9. Boundary(x)' # Unbroken
      <3>1. ~Open(x)'
        BY <1>1, <2>1, <2>2 DEF Open
      <3> QED BY <1>5, <3>1
    <2>10. Open(x) <=> Open(o)
      BY <1>1, <2>1, <2>3, <2>4 DEF Open
    <2> QED BY <1>5, <1>8, <2>5, <2>6, <2>7, <2>8, <2>9, <2>10
  <1> QED BY <1>6, <1>7, <1>8

\* The levels among which the greatest is the one a person has.
Levels(x, u) == {0} \cup EntryLevels(AclScope(x), u) \cup RoleLevel(x, u)

LevelsHaveGreatest ==
    \A x \in Objects, u \in Members :
        /\ Levels(x, u) \in SUBSET (0..5)
        /\ EffectiveLevel(x, u) = Greatest(Levels(x, u))
        /\ EffectiveLevel(x, u) \in Levels(x, u)
        /\ \A m \in Levels(x, u) : m <= EffectiveLevel(x, u)

\* Each of the levels is one, and there is a greatest.
LEMMA GreatestLevel == AccessInv => LevelsHaveGreatest
  <1> SUFFICES ASSUME AccessInv, NEW x \in Objects, NEW u \in Members
               PROVE  /\ Levels(x, u) \in SUBSET (0..5)
                      /\ EffectiveLevel(x, u) = Greatest(Levels(x, u))
                      /\ EffectiveLevel(x, u) \in Levels(x, u)
                      /\ \A m \in Levels(x, u) : m <= EffectiveLevel(x, u)
    BY DEF LevelsHaveGreatest
  <1>1. AclScope(x) \in SUBSET Objects
    BY DEF AclScope, Ancestors
  <1>2. Levels(x, u) \in SUBSET (0..5) /\ Levels(x, u) # {}
    BY <1>1, LevelsAreLevels DEF Levels
  <1>3. EffectiveLevel(x, u) = Greatest(Levels(x, u))
    BY DEF EffectiveLevel, Levels
  <1> QED BY <1>2, <1>3, GreatestIs

\* The space gives the person's role, where it counts, the level that is copied.
AsDefault(o, u) == RoleLevel(o, u) = CopiedRole(o, u)

\* Which levels a break of o leaves a person on an object: those of before and
\* the default of the role; and none of the entries is above all of them unless
\* the person's own entry on o was over.
LEMMA BreakLevels ==
    ASSUME AccessInv, NEW o \in Objects, BreakInheritance(o),
           NEW x \in Objects, NEW u \in Members
    PROVE  /\ Levels(x, u)' \subseteq Levels(x, u) \cup CopiedRole(o, u)
           /\ AsDefault(o, u) => Levels(x, u)' \subseteq Levels(x, u)
           /\ acl[o][u].until # "over" =>
                /\ \A m \in {0} \cup EntryLevels(AclScope(x), u) : \E n \in Levels(x, u)' : m <= n
                /\ AsDefault(o, u) => \A m \in Levels(x, u) : \E n \in Levels(x, u)' : m <= n
  <1> DEFINE own == acl[o][u]
             copied == Copied(o, u)
             entries == EntryLevels(AclScope(x), u)
             default == CopiedRole(o, u)
  <1>0. /\ AclScope(x) \in SUBSET Objects /\ AclScope(o) \in SUBSET Objects
        /\ acl[o][u] \in Entries
        /\ Levels(x, u) \in SUBSET (0..5) /\ entries \subseteq 0..4 /\ default \subseteq 1..4
    <2>1. AclScope(x) \in SUBSET Objects /\ AclScope(o) \in SUBSET Objects
      BY DEF AclScope, Ancestors
    <2>2. acl[o][u] \in Entries
      BY DEF AccessInv, AccessTypeOK
    <2>3. Levels(x, u) \in SUBSET (0..5)
      BY GreatestLevel DEF LevelsHaveGreatest
    <2>4. EntryLevels(AclScope(x), u) \subseteq 0..4 /\ CopiedRole(o, u) \subseteq 1..4
      BY <2>1, LevelsAreLevels
    <2> QED BY <2>1, <2>2, <2>3, <2>4
  <1>1. Levels(x, u)' \in SUBSET (0..5)
    <2>1. AccessInv'
      BY AccessStep DEF AccessNext
    <2>2. LevelsHaveGreatest'
      BY <2>1, GreatestLevel, PTL
    <2> QED BY <2>2 DEF LevelsHaveGreatest
  <1>2. /\ \A a \in Objects : a # o => acl'[a][u] = acl[a][u]
        /\ acl'[o][u] = AfterBreak(o, u)
        /\ role' = role /\ Unbroken' = Unbroken
    BY DEF BreakInheritance, AccessInv, AccessTypeOK, Unbroken
  <1>3. /\ Levels(x, u) = {0} \cup entries \cup RoleLevel(x, u)
        /\ \A m : m \in entries <=>
             \E a \in AclScope(x) : acl[a][u].until \in {"ever", "later"} /\ m = acl[a][u].level
    BY DEF Levels, EntryLevels, InForce
  <1>4. \A m : m \in Levels(x, u)' <=>
                 \/ m = 0
                 \/ \E a \in AclScope(x)' : /\ acl'[a][u].until \in {"ever", "later"}
                                            /\ m = acl'[a][u].level
                 \/ m \in RoleLevel(x, u)'
    BY DEF Levels, EntryLevels, InForce
  <1>5. \A m : m \in copied <=>
                 \/ /\ \E a \in AclScope(o) : a # o /\ acl[a][u].until \in {"ever", "later"}
                                                    /\ m = acl[a][u].level
                 \/ m \in default
    BY DEF Copied, EntryLevels, InForce
  <1>6. CASE o \notin AclScope(x)
    <2>1. AclScope(x)' = AclScope(x) /\ (Boundary(x)' = Unbroken <=> Boundary(x) = Unbroken)
      BY <1>6, BreakSplitsScope
    <2>2. \A a \in AclScope(x) : acl'[a][u] = acl[a][u]
      BY <1>0, <1>2, <1>6
    <2>3. RoleLevel(x, u)' = RoleLevel(x, u)
      BY <1>2, <2>1 DEF RoleLevel, RoleCounts
    <2>4. \A m : m \in Levels(x, u)' <=> m \in Levels(x, u)
      BY <1>3, <1>4, <2>1, <2>2, <2>3
    <2> QED BY <1>0, <1>3, <2>4
  <1>7. CASE o \in AclScope(x)
    <2>1. /\ AclScope(x) = AclScope(x)' \cup AclScope(o)
          /\ o \in AclScope(x)'
          /\ Boundary(x)' # Unbroken
          /\ Boundary(x) = Unbroken <=> Boundary(o) = Unbroken
      BY <1>7, BreakSplitsScope
    <2>2. RoleLevel(x, u) = RoleLevel(o, u) /\ RoleLevel(x, u)' = {}
      BY <1>2, <2>1 DEF RoleLevel, RoleCounts
    <2>3. copied \subseteq entries \cup default
      BY <1>3, <1>5, <2>1
    <2>4. /\ Levels(x, u)' \subseteq Levels(x, u) \cup default
          /\ own.until # "over" =>
               \A m \in {0} \cup entries \cup default : \E n \in Levels(x, u)' : m <= n
      <3>1. CASE copied = {}
        <4>1. acl'[o][u] = own
          BY <1>2, <3>1 DEF AfterBreak
        <4>2. \A a \in AclScope(x) : acl'[a][u] = acl[a][u]
          BY <1>0, <1>2, <4>1
        <4>3. ASSUME NEW m \in Levels(x, u)' PROVE m \in Levels(x, u)
          <5>1. \A a \in AclScope(x)' : a \in AclScope(x) /\ acl'[a][u] = acl[a][u]
            BY <2>1, <4>2
          <5>2. m = 0 \/ m \in entries
            BY <1>3, <1>4, <2>2, <5>1
          <5> HIDE DEF entries
          <5> QED BY <1>3, <5>2
        <4>4. ASSUME NEW m \in {0} \cup entries \cup default PROVE m \in Levels(x, u)'
          <5>1. CASE m = 0
            BY <1>4, <5>1
          <5>2. CASE m \in default
            BY <1>5, <3>1, <5>2
          <5>3. ASSUME NEW a \in AclScope(x), acl[a][u].until \in {"ever", "later"},
                       m = acl[a][u].level
                PROVE  m \in Levels(x, u)'
            <6>1. a \in AclScope(x)'
              BY <1>5, <2>1, <3>1, <5>3
            <6> QED BY <1>4, <4>2, <5>3, <6>1
          <5> QED BY <1>3, <5>1, <5>2, <5>3
        <4>5. {0} \cup entries \cup default \subseteq 0..4
          BY <1>0
        <4> HIDE DEF entries, default
        <4> QED BY <4>3, <4>4, <4>5
      <3>2. CASE copied # {}
        <4> DEFINE S == copied \cup {own.level}
                   g == Greatest(S)
                   until == IF own = NoEntry THEN "ever" ELSE own.until
        <4>1. own.level \in 0..4 /\ (own = NoEntry => own.level = 0)
          BY <1>0 DEF Entries, NoEntry
        <4>2. g \in S /\ \A m \in S : m <= g
          <5>1. S \in SUBSET (0..5) /\ S # {}
            BY <4>1, BreakWritesEntry
          <5> HIDE DEF S
          <5> QED BY <5>1, GreatestIs
        <4>3. acl'[o][u] = [level |-> g, until |-> until]
          BY <1>2, <3>2 DEF AfterBreak
        <4>4. acl'[o][u].level = g /\ acl'[o][u].until = until
          BY <4>3
        <4>5. until \in {"ever", "later"} <=> own = NoEntry \/ own.until \in {"ever", "later"}
          BY <1>0 DEF Entries, NoEntry
        <4>6. own.until = "over" \/ until \in {"ever", "later"}
          BY <1>0 DEF Entries, NoEntry
        <4>7. g \in 0..4 /\ copied \subseteq 0..4
          BY <4>1, <4>2, BreakWritesEntry
        <4> HIDE DEF g, until, copied, entries, default
        <4>8. ASSUME NEW n \in Levels(x, u)' PROVE n \in Levels(x, u) \cup default
          <5>1. CASE n = 0
            BY <1>3, <5>1
          <5>2. ASSUME NEW a \in AclScope(x)', a # o, acl'[a][u].until \in {"ever", "later"},
                       n = acl'[a][u].level
                PROVE  n \in Levels(x, u)
            BY <1>0, <1>2, <1>3, <2>1, <5>2
          <5>3. CASE n = g /\ until \in {"ever", "later"}
            <6>1. CASE g \in copied
              BY <1>3, <2>3, <5>3, <6>1
            <6>2. CASE g = own.level
              BY <1>3, <1>7, <4>1, <4>5, <5>3, <6>2
            <6> QED BY <4>2, <6>1, <6>2
          <5> QED BY <1>4, <2>1, <2>2, <4>4, <5>1, <5>2, <5>3
        <4>9. ASSUME own.until # "over", NEW m \in {0} \cup entries \cup default
              PROVE  \E n \in Levels(x, u)' : m <= n
          <5>1. g \in Levels(x, u)'
            BY <1>4, <2>1, <4>4, <4>6, <4>9
          <5>2. CASE m = 0
            BY <1>4, <5>2
          <5>3. CASE m \in default
            BY <1>5, <4>2, <5>1, <5>3
          <5>4. ASSUME NEW a \in AclScope(x), acl[a][u].until \in {"ever", "later"},
                       m = acl[a][u].level
                PROVE  \E n \in Levels(x, u)' : m <= n
            <6>1. CASE a = o
              BY <4>2, <5>1, <5>4, <6>1
            <6>2. CASE a # o /\ a \in AclScope(o)
              <7>1. m \in copied
                BY <1>5, <5>4, <6>2
              <7> QED BY <4>2, <5>1, <7>1
            <6>3. CASE a # o /\ a \in AclScope(x)'
              <7>1. m \in Levels(x, u)'
                BY <1>0, <1>2, <1>4, <5>4, <6>3
              <7> QED BY <1>1, <7>1
            <6> QED BY <2>1, <6>1, <6>2, <6>3
          <5> QED BY <1>3, <5>2, <5>3, <5>4
        <4> QED BY <4>8, <4>9
      <3> QED BY <3>1, <3>2
    <2>5. AsDefault(o, u) => Levels(x, u) = {0} \cup entries \cup default
      BY <1>3, <2>2 DEF AsDefault
    <2> HIDE DEF entries, default
    <2>6. AsDefault(o, u) => Levels(x, u)' \subseteq Levels(x, u)
      BY <2>4, <2>5
    <2>7. own.until # "over" =>
            /\ \A m \in {0} \cup entries : \E n \in Levels(x, u)' : m <= n
            /\ AsDefault(o, u) => \A m \in Levels(x, u) : \E n \in Levels(x, u)' : m <= n
      BY <2>4, <2>5
    <2> QED BY <2>4, <2>6, <2>7 DEF entries, default
  <1> QED BY <1>6, <1>7

\* A break with its copies, for every tree, every set of entries and whatever the
\* space makes of its roles: the level that entries gave a person stays, unless
\* the person's own entry on the broken object was over, and grows at most to the
\* default level of the role.  Where the role gives its default level, or does not
\* count on the object, the level is the same as before.
THEOREM BreakChangesNoLevel == AccessSpec => BreakKeepsAccess
  <1> DEFINE Kept(o, x, u) ==
               LET asDefault == RoleLevel(o, u) = CopiedRole(o, u)
                   own == acl[o][u].until # "over"
               IN /\ EffectiveLevel(x, u)' <= Greatest({EffectiveLevel(x, u)} \cup CopiedRole(o, u))
                  /\ own => EntriesGive(x, u) <= EffectiveLevel(x, u)'
                  /\ asDefault => EffectiveLevel(x, u)' <= EffectiveLevel(x, u)
                  /\ asDefault /\ own => EffectiveLevel(x, u)' = EffectiveLevel(x, u)
  <1>1. ASSUME AccessInv, NEW o \in Objects, BreakInheritance(o),
               NEW x \in Objects, NEW u \in Members
        PROVE  Kept(o, x, u)
    <2> DEFINE old == EffectiveLevel(x, u)
               new == EffectiveLevel(x, u)'
               default == CopiedRole(o, u)
               given == {0} \cup EntryLevels(AclScope(x), u)
    <2>1. AccessInv'
      BY <1>1, AccessStep DEF AccessNext
    <2>2. /\ Levels(x, u) \in SUBSET (0..5)
          /\ old \in Levels(x, u) /\ \A m \in Levels(x, u) : m <= old
      BY <1>1, GreatestLevel DEF LevelsHaveGreatest
    <2>3. LevelsHaveGreatest'
      BY <2>1, GreatestLevel, PTL
    <2>4. /\ Levels(x, u)' \in SUBSET (0..5)
          /\ new \in Levels(x, u)' /\ \A m \in Levels(x, u)' : m <= new
      BY <2>3 DEF LevelsHaveGreatest
    <2>5. AclScope(x) \in SUBSET Objects
      BY DEF AclScope, Ancestors
    <2>6. default \subseteq 1..4 /\ given \in SUBSET (0..5) /\ given # {}
      <3>1. EntryLevels(AclScope(x), u) \subseteq 0..4 /\ default \subseteq 1..4
        BY <1>1, <2>5, LevelsAreLevels
      <3> QED BY <3>1
    <2>7. EntriesGive(x, u) \in given
      <3>1. EntriesGive(x, u) = Greatest(given)
        BY DEF EntriesGive
      <3> HIDE DEF given
      <3> QED BY <2>6, <3>1, GreatestIs
    <2>8. \A m \in {old} \cup default : m <= Greatest({old} \cup default)
      <3>1. {old} \cup default \in SUBSET (0..5) /\ {old} \cup default # {}
        BY <2>2, <2>6
      <3> DEFINE T == {old} \cup default
      <3> HIDE DEF T
      <3>2. \A m \in T : m <= Greatest(T)
        BY <3>1, GreatestIs DEF T
      <3> QED BY <3>2 DEF T
    <2>9. new <= Greatest({old} \cup default)
      <3>1. new \in Levels(x, u) \cup default
        BY <1>1, <2>4, BreakLevels
      <3>2. \E m \in {old} \cup default : new <= m
        BY <2>2, <2>4, <2>6, <3>1
      <3>3. Greatest({old} \cup default) \in 0..5
        <4> DEFINE T == {old} \cup default
        <4>1. T \in SUBSET (0..5) /\ T # {}
          BY <2>2, <2>6
        <4> HIDE DEF T
        <4>2. Greatest(T) \in T
          BY <4>1, GreatestIs
        <4> QED BY <4>1, <4>2 DEF T
      <3>4. new \in 0..5 /\ old \in 0..5
        BY <2>2, <2>4
      <3> HIDE DEF new, old, default
      <3> QED BY <2>6, <2>8, <3>2, <3>3, <3>4
    <2>10. ASSUME acl[o][u].until # "over" PROVE EntriesGive(x, u) <= new
      <3>1. PICK n \in Levels(x, u)' : EntriesGive(x, u) <= n
        BY <1>1, <2>7, <2>10, BreakLevels
      <3> QED BY <2>4, <2>6, <2>7, <3>1
    <2>11. ASSUME RoleLevel(o, u) = CopiedRole(o, u) PROVE new <= old
      BY <1>1, <2>2, <2>4, <2>11, BreakLevels DEF AsDefault
    <2>12. ASSUME RoleLevel(o, u) = CopiedRole(o, u), acl[o][u].until # "over" PROVE old <= new
      <3>1. PICK n \in Levels(x, u)' : old <= n
        BY <1>1, <2>2, <2>12, BreakLevels DEF AsDefault
      <3> QED BY <2>2, <2>4, <3>1
    <2>13. old \in 0..5 /\ new \in 0..5
      BY <2>2, <2>4
    <2> QED BY <2>9, <2>10, <2>11, <2>12, <2>13
  <1>2. AccessInv /\ [AccessNext]_accessVars =>
          [\A o \in Objects : BreakInheritance(o) =>
             \A x \in Objects, u \in Members : Kept(o, x, u)]_accessVars
    BY <1>1
  <1> QED BY <1>2, AccessTyped, PTL DEF BreakKeepsAccess, AccessSpec
=============================================================================
