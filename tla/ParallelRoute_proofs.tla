------------------------ MODULE ParallelRoute_proofs ------------------------
(* Machine-checked proof that a route stays whole, for every definition the   *)
(* validation lets through, every order of calls, every answer and every      *)
(* condition.  In order: the facts about a definition and about a machine;    *)
(* what passing on, clearing up and opening leave of the places of the runs;  *)
(* that each single move leads from between two moves to between two moves;   *)
(* that a transition, which is a number of moves, does.                       *)
EXTENDS ParallelRouteInductive, LeastNumber, FiniteSetTheorems, FunctionTheorems, SequenceTheorems

\* What the schema and the validation say of a step, in the parts the proofs use.
LEMMA StepFacts ==
    ASSUME NEW k \in StepKeys
    PROVE  LET step == Definition[k] IN
           /\ step.type \in {"end", "return", "condition"} => k \in TopKeys
           /\ k \in TopKeys /\ step.type \notin {"end", "condition"} => step.next \in TopKeys
           /\ step.type = "condition" => step.then \in TopKeys /\ step.else \in TopKeys
           /\ step.type \in {"approval", "sign"} => step.onReject \in {"continue", "end"} \cup TopKeys
           /\ step.type = "parallel" => step.join \in {"all", "any"}
  BY DefinitionAssumption

\* A parallel step has branches; each has steps, all of them different.
LEMMA BranchFacts ==
    ASSUME NEW k \in StepKeys, Definition[k].type = "parallel"
    PROVE  LET branches == Definition[k].branches IN
           /\ branches \in Seq(Seq(StepKeys)) /\ Len(branches) \in Nat \ {0}
           /\ DOMAIN branches = 1..Len(branches)
           /\ \A n \in DOMAIN branches :
                /\ branches[n] \in Seq(StepKeys) /\ Len(branches[n]) \in Nat \ {0}
                /\ DOMAIN branches[n] = 1..Len(branches[n])
                /\ \A i, j \in DOMAIN branches[n] : branches[n][i] = branches[n][j] => i = j
                /\ \A i \in DOMAIN branches[n] : branches[n][i] \in StepKeys \ TopKeys
  <1> DEFINE branches == Definition[k].branches
  <1>1. /\ branches \in Seq(Seq(StepKeys)) /\ branches # <<>>
        /\ \A n \in DOMAIN branches : branches[n] # <<>> /\ IsInjective(branches[n])
    BY DefinitionAssumption
  <1> HIDE DEF branches
  <1>2. Len(branches) \in Nat \ {0} /\ DOMAIN branches = 1..Len(branches)
    BY <1>1, EmptySeq
  <1>3. ASSUME NEW n \in DOMAIN branches
        PROVE  /\ branches[n] \in Seq(StepKeys) /\ Len(branches[n]) \in Nat \ {0}
               /\ DOMAIN branches[n] = 1..Len(branches[n])
               /\ \A i, j \in DOMAIN branches[n] : branches[n][i] = branches[n][j] => i = j
               /\ \A i \in DOMAIN branches[n] : branches[n][i] \in StepKeys \ TopKeys
    <2>1. branches[n] \in Seq(StepKeys)
      BY <1>1, <1>2, ElementOfSeq
    <2>2. Len(branches[n]) \in Nat \ {0} /\ DOMAIN branches[n] = 1..Len(branches[n])
      BY <1>1, <2>1, EmptySeq
    <2>3. \A i, j \in DOMAIN branches[n] : branches[n][i] = branches[n][j] => i = j
      BY <1>1 DEF IsInjective
    <2>4. ASSUME NEW i \in DOMAIN branches[n] PROVE branches[n][i] \in StepKeys \ TopKeys
      <3>1. branches[n][i] \in StepKeys
        BY <2>1, <2>2, ElementOfSeq
      <3>2. StandsIn(branches[n][i], k, n)
        BY DEF StandsIn, branches
      <3>3. k \in KeysOfType({"parallel"})
        BY DEF KeysOfType
      <3> QED BY <3>1, <3>2, <3>3 DEF InBranches, TopKeys, branches
    <2> QED BY <2>1, <2>2, <2>3, <2>4
  <1> QED BY <1>1, <1>2, <1>3 DEF branches

\* The parts of a machine.
LEMMA MachineParts ==
    ASSUME NEW m \in Machines
    PROVE  /\ m.runs \in Seq(Runs) /\ Len(m.runs) \in Nat /\ DOMAIN m.runs = 1..Len(m.runs)
           /\ m.work \in Seq(Nat) /\ m.opens \in Seq(Places) /\ m.after \in Nat /\ m.round \in Nat
           /\ m.status \in {"none", "running", "finished", "cancelled"}
           /\ \A i \in DOMAIN m.runs :
                /\ i \in Nat \ {0} /\ m.runs[i] \in Runs /\ m.runs[i].key \in StepKeys
                /\ m.runs[i].parent \in Nat /\ m.runs[i].branch \in Nat
                /\ m.runs[i].status \in {"active", "completed", "cancelled"}
  <1>1. /\ m.runs \in Seq(Runs) /\ m.work \in Seq(Nat) /\ m.opens \in Seq(Places)
        /\ m.after \in Nat /\ m.round \in Nat
        /\ m.status \in {"none", "running", "finished", "cancelled"}
    BY DEF Machines
  <1>2. Len(m.runs) \in Nat /\ DOMAIN m.runs = 1..Len(m.runs)
    BY <1>1
  <1>3. \A i \in DOMAIN m.runs : m.runs[i] \in Runs
    BY <1>1
  <1>4. \A i \in DOMAIN m.runs : i \in Nat \ {0}
    BY <1>2
  <1> QED BY <1>1, <1>2, <1>3, <1>4 DEF Runs

\* Two machines with the same runs in the same places, whatever became of them.
SamePlaces(m, m2) ==
    /\ DOMAIN m2.runs = DOMAIN m.runs
    /\ \A i \in DOMAIN m.runs : /\ m2.runs[i].key = m.runs[i].key
                                /\ m2.runs[i].parent = m.runs[i].parent
                                /\ m2.runs[i].branch = m.runs[i].branch
KeepsCompleted(m, m2) ==
    \A i \in DOMAIN m.runs : m.runs[i].status = "completed" => m2.runs[i].status = "completed"

\* Where the runs stand decides what is said of places.
LEMMA PlacesStay ==
    ASSUME NEW m, NEW m2, SamePlaces(m, m2)
    PROVE  /\ \A i \in DOMAIN m.runs : StepOfRun(m2, i) = StepOfRun(m, i)
           /\ \A p : IsParallel(m2, p) <=> IsParallel(m, p)
           /\ \A p \in {Top} \cup DOMAIN m.runs : LinesOf(m2, p) = LinesOf(m, p)
           /\ \A p, b : RunsAt(m2, p, b) = RunsAt(m, p, b)
           /\ \A i \in DOMAIN m.runs : Earlier(m2, i) = Earlier(m, i)
           /\ \A x, n : PlacedBelow(m2, x, n) <=> PlacedBelow(m, x, n)
           /\ \A x, S : x.parent \in {Top} \cup DOMAIN m.runs => (IsNth(m2, x, S) <=> IsNth(m, x, S))
  <1>1. \A i \in DOMAIN m.runs : StepOfRun(m2, i) = StepOfRun(m, i)
    BY DEF SamePlaces, StepOfRun
  <1>2. \A p : IsParallel(m2, p) <=> IsParallel(m, p)
    BY <1>1 DEF SamePlaces, IsParallel
  <1>3. \A p \in {Top} \cup DOMAIN m.runs : LinesOf(m2, p) = LinesOf(m, p)
    BY <1>1 DEF LinesOf
  <1>4. \A p, b : RunsAt(m2, p, b) = RunsAt(m, p, b)
    BY DEF SamePlaces, RunsAt, At
  <1>5. \A i \in DOMAIN m.runs : Earlier(m2, i) = Earlier(m, i)
    BY <1>4 DEF SamePlaces, Earlier
  <1>6. \A x, n : PlacedBelow(m2, x, n) <=> PlacedBelow(m, x, n)
    BY <1>2, <1>3 DEF SamePlaces, PlacedBelow, IsParallel
  <1>7. \A x, S : x.parent \in {Top} \cup DOMAIN m.runs => (IsNth(m2, x, S) <=> IsNth(m, x, S))
    BY <1>1 DEF IsNth
  <1> QED BY <1>1, <1>2, <1>3, <1>4, <1>5, <1>6, <1>7

\* A run stands in the top line or below an earlier, parallel run.
LEMMA ParentFacts ==
    ASSUME NEW m \in Machines, RunsInPlace(m), NEW i \in DOMAIN m.runs
    PROVE  LET q == m.runs[i].parent  b == m.runs[i].branch IN
           /\ q \in Nat /\ q < i /\ (q = Top \/ q \in DOMAIN m.runs)
           /\ q = Top => b = 0 /\ m.runs[i].key \in TopKeys
           /\ q # Top => IsParallel(m, q) /\ StandsIn(m.runs[i].key, m.runs[q].key, b)
           /\ b \in LinesOf(m, q) /\ i \in RunsAt(m, q, b)
  BY MachineParts DEF RunsInPlace, PlacedBelow, IsParallel, LinesOf, Top, RunsAt, At

\* A branch that is done stays done.
LEMMA DoneStays ==
    ASSUME NEW m, NEW m2, SamePlaces(m, m2), KeepsCompleted(m, m2),
           NEW p \in DOMAIN m.runs, NEW b, BranchDone(m, p, b)
    PROVE  BranchDone(m2, p, b)
  BY DEF SamePlaces, KeepsCompleted, BranchDone, ChildrenOf, StepOfRun

\* It is done by a run that was completed just now, or was done before.
LEMMA DoneBy ==
    ASSUME NEW m, NEW m2, SamePlaces(m, m2), NEW p \in DOMAIN m.runs, NEW b,
           BranchDone(m2, p, b), ~BranchDone(m, p, b)
    PROVE  \E i \in RunsAt(m, p, b) :
             /\ m2.runs[i].status = "completed" /\ m.runs[i].status # "completed"
             /\ LET keys == StepOfRun(m, p).branches[b] IN m.runs[i].key = keys[Len(keys)]
  BY DEF SamePlaces, BranchDone, ChildrenOf, StepOfRun, RunsAt, At

\* The runs keep their order.
LEMMA OrderStays ==
    ASSUME NEW m \in Machines, NEW m2, RunsInPlace(m), SamePlaces(m, m2), KeepsCompleted(m, m2)
    PROVE  RunsInPlace(m2)
  <1> SUFFICES ASSUME NEW i \in DOMAIN m.runs
               PROVE  /\ PlacedBelow(m2, m2.runs[i], i) /\ IsNth(m2, m2.runs[i], Earlier(m2, i))
                      /\ m2.runs[i].parent # Top => AllCompleted(m2, Earlier(m2, i))
    BY DEF RunsInPlace, SamePlaces
  <1>1. /\ PlacedBelow(m, m.runs[i], i) /\ IsNth(m, m.runs[i], Earlier(m, i))
        /\ m.runs[i].parent # Top => AllCompleted(m, Earlier(m, i))
    BY DEF RunsInPlace
  <1>2. m.runs[i].parent \in {Top} \cup DOMAIN m.runs
    BY ParentFacts
  <1>3. PlacedBelow(m2, m.runs[i], i) /\ IsNth(m2, m.runs[i], Earlier(m2, i))
    BY <1>1, <1>2, PlacesStay
  <1>4. PlacedBelow(m2, m2.runs[i], i)
    BY <1>3 DEF PlacedBelow, SamePlaces
  <1>5. IsNth(m2, m2.runs[i], Earlier(m2, i))
    BY <1>3 DEF IsNth, SamePlaces
  <1>6. Earlier(m2, i) = Earlier(m, i) /\ Earlier(m, i) \subseteq DOMAIN m.runs
    BY PlacesStay DEF Earlier, RunsAt
  <1>7. m2.runs[i].parent # Top => AllCompleted(m2, Earlier(m2, i))
    BY <1>1, <1>6 DEF SamePlaces, KeepsCompleted, AllCompleted
  <1> QED BY <1>4, <1>5, <1>7

\* What was passed stays passed.
LEMMA PassedStays ==
    ASSUME NEW m \in Machines, NEW m2, SamePlaces(m, m2), KeepsCompleted(m, m2),
           NEW p \in DOMAIN m.runs, MayPass(m, p)
    PROVE  MayPass(m2, p)
  <1>1. StepOfRun(m2, p) = StepOfRun(m, p) /\ LinesOf(m2, p) = LinesOf(m, p)
    BY PlacesStay
  <1>2. \A b : BranchDone(m, p, b) => BranchDone(m2, p, b)
    BY DoneStays
  <1> QED BY <1>1, <1>2 DEF MayPass

\* The active runs below a run: in its branches, and in those of what is there.
Below(m, p, D) ==
    /\ D \subseteq DOMAIN m.runs
    /\ \A i \in D : IsActive(m, i) /\ m.runs[i].parent \in {p} \cup D
    /\ \A i \in DOMAIN m.runs : IsActive(m, i) /\ m.runs[i].parent \in {p} \cup D => i \in D

\* They come after it.
LEMMA BelowIsLater ==
    ASSUME NEW m \in Machines, RunsInPlace(m), NEW p \in DOMAIN m.runs, NEW D, Below(m, p, D)
    PROVE  \A i \in D : p < i
  <1> DEFINE S == {i \in D : i <= p}
  <1>1. \A i \in DOMAIN m.runs : i \in Nat /\ m.runs[i].parent \in Nat /\ m.runs[i].parent < i
    BY MachineParts, ParentFacts
  <1>2. S \in SUBSET Nat
    BY <1>1 DEF Below
  <1>3. ASSUME NEW i \in S PROVE \E k \in S : k < i
    <2>1. i \in DOMAIN m.runs /\ i <= p /\ m.runs[i].parent \in {p} \cup D
      BY DEF Below
    <2>2. m.runs[i].parent \in S /\ m.runs[i].parent < i
      BY <1>1, <2>1
    <2> QED BY <2>2
  <1>4. S = {}
    <2> HIDE DEF S
    <2> QED BY <1>2, <1>3, NoDescent
  <1> QED BY <1>1, <1>4 DEF Below

\* An active run and all that is active below a run at the top are the same.
LEMMA NothingElse ==
    ASSUME NEW m \in Machines, RunsInPlace(m), ActiveBelow(m), NEW p \in DOMAIN m.runs,
           NEW D, Below(m, p, D),
           \A i \in DOMAIN m.runs : IsActive(m, i) /\ m.runs[i].parent = Top => i = p
    PROVE  \A i \in DOMAIN m.runs : IsActive(m, i) => i \in {p} \cup D
  <1> DEFINE S == {i \in DOMAIN m.runs : IsActive(m, i) /\ i \notin {p} \cup D}
  <1>1. S \in SUBSET Nat
    BY MachineParts
  <1>2. ASSUME NEW i \in S PROVE \E k \in S : k < i
    <2> DEFINE q == m.runs[i].parent
    <2>1. q # Top
      OBVIOUS
    <2>2. Goes(m, q)
      BY DEF ActiveBelow
    <2>3. IsActive(m, q) /\ q \in DOMAIN m.runs
      BY <2>1, <2>2 DEF Goes, IsParallel
    <2>4. q \notin {p} \cup D
      BY DEF Below
    <2>5. q < i
      BY ParentFacts
    <2> QED BY <2>3, <2>4, <2>5
  <1>3. S = {}
    <2> HIDE DEF S
    <2> QED BY <1>1, <1>2, NoDescent
  <1> QED BY <1>3

\* The move that completes a run, after what is active below it was cancelled.
PassesOn(m, p, D, m2) ==
    /\ SamePlaces(m, m2)
    /\ \A i \in DOMAIN m.runs :
         m2.runs[i].status = IF i = p THEN "completed"
                             ELSE IF i \in D THEN "cancelled" ELSE m.runs[i].status
    /\ m2.status = m.status /\ m2.after = p /\ m2.opens = <<>>

\* What such a move starts from.
MayPassOn(m, p, D) ==
    /\ m \in Machines /\ BetweenMoves(m) /\ m.opens = <<>>
    /\ p \in DOMAIN m.runs /\ IsActive(m, p) /\ Below(m, p, D)
    /\ StepOfRun(m, p).type \notin {"end", "condition"}
    /\ m.after = Top \/ m.runs[m.after].parent = p
    /\ StepOfRun(m, p).type = "parallel" => MayPass(m, p)

\* What it leaves as it was: the lines that go on, what stands in them, and
\* every branch but the run's own.
LEMMA PassesOnLeaves ==
    ASSUME NEW m, NEW p, NEW D, NEW m2, MayPassOn(m, p, D), PassesOn(m, p, D, m2)
    PROVE  /\ KeepsCompleted(m, m2) /\ p \notin D /\ p # Top
           /\ \A i \in DOMAIN m.runs : IsActive(m2, i) <=> IsActive(m, i) /\ i \notin {p} \cup D
           /\ \A q : Goes(m2, q) <=> Goes(m, q) /\ q \notin {p} \cup D
           /\ ~BranchDone(m, m.runs[p].parent, m.runs[p].branch) \/ m.runs[p].parent = Top
           /\ \A q \in DOMAIN m.runs : \A b : BranchDone(m2, q, b) =>
                BranchDone(m, q, b) \/ IsAfter(m2, q, b)
           /\ \A q, b : Goes(m2, q) => ~IsAfter(m, q, b) /\ StandsAt(m2, q, b) = StandsAt(m, q, b)
           /\ \A q, b : WaitsAt(m2, q, b) = {} /\ WaitsAt(m, q, b) = {}
  <1> USE DEF MayPassOn, BetweenMoves
  <1>1. p \notin D /\ p # Top /\ (m.after = Top \/ m.after \in DOMAIN m.runs)
    <2>1. p \notin D
      <3> SUFFICES ASSUME p \in D PROVE FALSE
        OBVIOUS
      <3>1. p < p
        BY BelowIsLater
      <3> QED BY <3>1, MachineParts
    <2>2. p # Top
      BY MachineParts DEF Top
    <2> QED BY <2>1, <2>2 DEF AfterInPlace
  <1>2. KeepsCompleted(m, m2)
    BY DEF KeepsCompleted, PassesOn, Below, IsActive
  <1>3. \A i \in DOMAIN m.runs : IsActive(m2, i) <=> IsActive(m, i) /\ i \notin {p} \cup D
    BY DEF PassesOn, IsActive
  <1>4. ASSUME NEW q PROVE Goes(m2, q) <=> Goes(m, q) /\ q \notin {p} \cup D
    <2>1. CASE q = Top
      <3>1. q \notin D
        BY <2>1, MachineParts DEF Below, Top
      <3> QED BY <1>1, <2>1, <3>1 DEF Goes, PassesOn
    <2>2. CASE q # Top
      <3>1. IsParallel(m2, q) <=> IsParallel(m, q)
        BY PlacesStay DEF PassesOn
      <3> QED BY <1>3, <2>2, <3>1 DEF Goes, IsParallel
    <2> QED BY <2>1, <2>2
  <1>5. ~BranchDone(m, m.runs[p].parent, m.runs[p].branch) \/ m.runs[p].parent = Top
    <2> DEFINE q == m.runs[p].parent  b == m.runs[p].branch
    <2> SUFFICES ASSUME q # Top, BranchDone(m, q, b) PROVE FALSE
      OBVIOUS
    <2>1. Goes(m, q) /\ q \in DOMAIN m.runs /\ b \in LinesOf(m, q) /\ p \in RunsAt(m, q, b)
      BY ParentFacts DEF ActiveBelow
    <2>2. p \in StandsAt(m, q, b)
      BY <2>1 DEF StandsAt
    <2>3. p = m.after
      BY <2>1, <2>2 DEF OneAtATime
    <2>4. m.runs[p].status = "completed"
      BY <1>1, <2>3 DEF AfterInPlace
    <2> QED BY <2>4 DEF IsActive
  <1>6. ASSUME NEW q \in DOMAIN m.runs, NEW b, BranchDone(m2, q, b)
        PROVE  BranchDone(m, q, b) \/ IsAfter(m2, q, b)
    <2> SUFFICES ASSUME ~BranchDone(m, q, b) PROVE IsAfter(m2, q, b)
      OBVIOUS
    <2>1. PICK i \in RunsAt(m, q, b) : /\ m2.runs[i].status = "completed"
                                       /\ m.runs[i].status # "completed"
      BY <1>6, DoneBy DEF PassesOn
    <2>2. i \in DOMAIN m.runs /\ At(m.runs[i], q, b)
      BY DEF RunsAt
    <2>3. i = p
      BY <2>1, <2>2 DEF PassesOn
    <2> QED BY <1>1, <2>2, <2>3 DEF PassesOn, SamePlaces, IsAfter, At
  <1>7. ASSUME NEW q, NEW b, Goes(m2, q)
        PROVE  ~IsAfter(m, q, b) /\ StandsAt(m2, q, b) = StandsAt(m, q, b)
    <2>1. Goes(m, q) /\ q \notin {p} \cup D
      BY <1>4, <1>7
    <2>2. ~IsAfter(m, q, b)
      BY <2>1 DEF IsAfter, At
    <2>3. RunsAt(m2, q, b) = RunsAt(m, q, b)
      BY PlacesStay DEF PassesOn
    <2>4. ASSUME NEW i \in RunsAt(m, q, b)
          PROVE  (IsActive(m2, i) \/ i = m2.after) <=> (IsActive(m, i) \/ i = m.after)
      <3>1. i \in DOMAIN m.runs /\ m.runs[i].parent = q /\ At(m.runs[i], q, b)
        BY DEF RunsAt, At
      <3>2. i # m.after
        BY <2>2, <3>1, MachineParts DEF IsAfter, Top
      <3>3. i \notin D
        BY <2>1, <3>1 DEF Below
      <3> QED BY <1>3, <3>1, <3>2, <3>3 DEF PassesOn
    <2>5. StandsAt(m2, q, b) = StandsAt(m, q, b)
      BY <2>3, <2>4 DEF StandsAt
    <2> QED BY <2>2, <2>5
  <1>8. \A q, b : WaitsAt(m2, q, b) = {} /\ WaitsAt(m, q, b) = {}
    BY DEF WaitsAt, PassesOn
  <1> QED BY <1>1, <1>2, <1>3, <1>4, <1>5, <1>6, <1>7, <1>8

\* Such a move leads from between two moves to between two moves.
LEMMA PassedOn ==
    ASSUME NEW m, NEW p, NEW D, MayPassOn(m, p, D),
           NEW m2 \in Machines, WorkIsOfRuns(m2), PassesOn(m, p, D, m2)
    PROVE  BetweenMoves(m2)
  <1>1. /\ m \in Machines /\ RunsInPlace(m) /\ ActiveBelow(m) /\ OneAtATime(m) /\ TopAlone(m)
        /\ JoinsPassed(m) /\ JoinsOpen(m)
        /\ p \in DOMAIN m.runs /\ IsActive(m, p) /\ Below(m, p, D)
        /\ StepOfRun(m, p).type \notin {"end", "condition"}
        /\ StepOfRun(m, p).type = "parallel" => MayPass(m, p)
    BY DEF MayPassOn, BetweenMoves
  <1>2. /\ SamePlaces(m, m2) /\ KeepsCompleted(m, m2) /\ p \notin D /\ p # Top
        /\ m2.status = m.status /\ m2.after = p /\ m2.opens = <<>>
        /\ m2.runs[p].status = "completed"
    <2>1. KeepsCompleted(m, m2) /\ p \notin D /\ p # Top
      BY PassesOnLeaves
    <2> QED BY <1>1, <2>1 DEF PassesOn
  <1>3. \A i \in DOMAIN m.runs : IsActive(m2, i) <=> IsActive(m, i) /\ i \notin {p} \cup D
    BY PassesOnLeaves
  <1>4. \A q : Goes(m2, q) <=> Goes(m, q) /\ q \notin {p} \cup D
    BY PassesOnLeaves
  <1>5. ~BranchDone(m, m.runs[p].parent, m.runs[p].branch) \/ m.runs[p].parent = Top
    BY PassesOnLeaves
  <1>6. \A q \in DOMAIN m.runs : \A b : BranchDone(m2, q, b) => BranchDone(m, q, b) \/ IsAfter(m2, q, b)
    BY PassesOnLeaves
  <1>7. \A q, b : Goes(m2, q) => ~IsAfter(m, q, b) /\ StandsAt(m2, q, b) = StandsAt(m, q, b)
    BY PassesOnLeaves
  <1>8. \A q, b : WaitsAt(m2, q, b) = {} /\ WaitsAt(m, q, b) = {}
    BY PassesOnLeaves
  <1>9. \A q \in DOMAIN m.runs : \A b : BranchDone(m, q, b) => BranchDone(m2, q, b)
    BY <1>2, DoneStays
  <1>10. /\ DOMAIN m2.runs = DOMAIN m.runs /\ \A q : IsParallel(m2, q) <=> IsParallel(m, q)
         /\ \A i \in DOMAIN m.runs : StepOfRun(m2, i) = StepOfRun(m, i)
         /\ \A q \in {Top} \cup DOMAIN m.runs : LinesOf(m2, q) = LinesOf(m, q)
         /\ \A q, b : RunsAt(m2, q, b) = RunsAt(m, q, b)
    BY <1>2, PlacesStay DEF SamePlaces
  <1>11. RunsInPlace(m2)
    BY <1>1, <1>2, OrderStays
  <1>12. ActiveBelow(m2)
    <2> SUFFICES ASSUME NEW i \in DOMAIN m.runs, IsActive(m2, i) PROVE Goes(m2, m2.runs[i].parent)
      BY <1>10 DEF ActiveBelow
    <2>1. IsActive(m, i) /\ i \notin {p} \cup D
      BY <1>3
    <2>2. Goes(m, m.runs[i].parent) /\ m.runs[i].parent \notin {p} \cup D
      BY <1>1, <2>1 DEF ActiveBelow, Below
    <2> QED BY <1>2, <1>4, <2>2 DEF SamePlaces
  <1>13. OpensInPlace(m2)
    BY <1>2 DEF OpensInPlace
  <1>14. AfterInPlace(m2)
    <2> DEFINE q == m.runs[p].parent  b == m.runs[p].branch
    <2>1. /\ m2.runs[p].parent = q /\ m2.runs[p].branch = b /\ m2.runs[p].key = m.runs[p].key
      BY <1>1, <1>2 DEF SamePlaces
    <2>2. Goes(m, q) /\ q < p /\ q \in Nat /\ p \in Nat /\ p \in RunsAt(m, q, b)
      BY <1>1, ParentFacts, MachineParts DEF ActiveBelow
    <2>3. q \notin {p} \cup D
      <3> SUFFICES ASSUME q \in D PROVE FALSE
        BY <2>2
      <3>1. p < q
        BY <1>1, BelowIsLater
      <3> QED BY <2>2, <3>1
    <2>4. Goes(m2, q)
      BY <1>4, <2>2, <2>3
    <2>5. ASSUME q # Top, NEW i \in RunsAt(m, q, b) PROVE i <= p
      <3> SUFFICES ASSUME p < i PROVE FALSE
        BY <2>2, MachineParts, <1>1 DEF RunsAt
      <3>1. i \in DOMAIN m.runs /\ m.runs[i].parent = q /\ m.runs[i].branch = b
        BY DEF RunsAt, At
      <3>2. p \in Earlier(m, i)
        BY <2>2, <3>1 DEF Earlier
      <3>3. m.runs[p].status = "completed"
        BY <1>1, <2>5, <3>1, <3>2 DEF RunsInPlace, AllCompleted
      <3> QED BY <1>1, <3>3 DEF IsActive
    <2>6. ASSUME q # Top PROVE LET keys == StepOfRun(m2, q).branches[b] IN
                               m.runs[p].key = keys[Len(keys)] \/ ~BranchDone(m2, q, b)
      <3> SUFFICES ASSUME BranchDone(m2, q, b)
                   PROVE  LET keys == StepOfRun(m, q).branches[b] IN m.runs[p].key = keys[Len(keys)]
        BY <1>1, <1>10, <2>6, ParentFacts
      <3>1. q \in DOMAIN m.runs /\ ~BranchDone(m, q, b)
        BY <1>1, <1>5, <2>6, ParentFacts
      <3>2. PICK i \in RunsAt(m, q, b) :
               /\ m2.runs[i].status = "completed" /\ m.runs[i].status # "completed"
               /\ LET keys == StepOfRun(m, q).branches[b] IN m.runs[i].key = keys[Len(keys)]
        BY <1>2, <3>1, DoneBy
      <3>3. i = p
        <4>1. i \in DOMAIN m.runs
          BY DEF RunsAt
        <4> QED BY <3>2, <4>1 DEF PassesOn
      <3> QED BY <3>2, <3>3
    <2>7. m2.after \in DOMAIN m2.runs /\ StepOfRun(m2, m2.after) = StepOfRun(m, p)
      BY <1>1, <1>2, <1>10
    <2> HIDE DEF q, b
    <2> QED BY <1>1, <1>2, <1>10, <2>1, <2>4, <2>5, <2>6, <2>7 DEF AfterInPlace
  <1>15. OneAtATime(m2)
    <2> SUFFICES ASSUME NEW q \in {Top} \cup DOMAIN m.runs, Goes(m2, q), NEW b \in LinesOf(m, q)
                 PROVE  /\ \A i, j \in StandsAt(m2, q, b) : i = j
                        /\ q # Top /\ BranchDone(m2, q, b) => \A i \in StandsAt(m2, q, b) : i = m2.after
                        /\ q = Top \/ ~BranchDone(m2, q, b) => StandsAt(m2, q, b) # {}
      BY <1>8, <1>10 DEF OneAtATime
    <2>1. /\ Goes(m, q) /\ StandsAt(m2, q, b) = StandsAt(m, q, b) /\ ~IsAfter(m, q, b)
      BY <1>4, <1>7
    <2>2. /\ \A i, j \in StandsAt(m, q, b) : i = j
          /\ q # Top /\ BranchDone(m, q, b) => \A i \in StandsAt(m, q, b) : i = m.after
          /\ q = Top \/ ~BranchDone(m, q, b) => StandsAt(m, q, b) # {}
      BY <1>1, <1>8, <2>1 DEF OneAtATime
    <2>3. ASSUME q # Top, BranchDone(m2, q, b), NEW i \in StandsAt(m, q, b) PROVE i = m2.after
      <3>1. CASE BranchDone(m, q, b)
        <4>1. i = m.after /\ i \in RunsAt(m, q, b)
          BY <2>2, <2>3, <3>1 DEF StandsAt
        <4>2. i # Top
          BY <1>1, <4>1, MachineParts DEF RunsAt, Top
        <4> QED BY <2>1, <4>1, <4>2 DEF IsAfter, RunsAt
      <3>2. CASE ~BranchDone(m, q, b)
        <4>1. IsAfter(m2, q, b)
          BY <1>6, <2>3, <3>2
        <4>2. p \in RunsAt(m2, q, b)
          BY <1>1, <1>2, <1>10, <4>1 DEF IsAfter, RunsAt
        <4>3. p \in StandsAt(m2, q, b)
          BY <1>2, <4>2 DEF StandsAt
        <4> QED BY <1>2, <2>1, <2>2, <4>3
      <3> QED BY <3>1, <3>2
    <2>4. q = Top \/ ~BranchDone(m2, q, b) => StandsAt(m, q, b) # {}
      BY <1>9, <2>2
    <2> QED BY <2>1, <2>2, <2>3, <2>4
  <1>16. TopAlone(m2)
    <2>1. m.status = "running"
      BY <1>1 DEF TopAlone
    <2> SUFFICES ASSUME IsAfter(m2, Top, 0), NEW i \in DOMAIN m.runs, IsActive(m2, i) PROVE FALSE
      BY <1>2, <1>8, <1>10, <2>1 DEF TopAlone
    <2>2. m.runs[p].parent = Top /\ m.runs[p].branch = 0
      BY <1>1, <1>2 DEF IsAfter, At, SamePlaces
    <2>3. ASSUME NEW j \in DOMAIN m.runs, IsActive(m, j), m.runs[j].parent = Top PROVE j = p
      <3>1. j \in StandsAt(m, Top, 0) /\ p \in StandsAt(m, Top, 0)
        BY <1>1, <2>2, <2>3, ParentFacts DEF StandsAt
      <3>2. Goes(m, Top) /\ 0 \in LinesOf(m, Top)
        BY <2>1 DEF Goes, LinesOf
      <3> QED BY <1>1, <3>1, <3>2 DEF OneAtATime
    <2>4. i \in {p} \cup D
      BY <1>1, <1>3, <2>3, NothingElse
    <2> QED BY <1>3, <2>4
  <1>17. JoinsPassed(m2)
    <2> SUFFICES ASSUME NEW q \in DOMAIN m.runs, IsParallel(m, q), m2.runs[q].status = "completed"
                 PROVE  MayPass(m2, q)
      BY <1>10 DEF JoinsPassed
    <2>1. q = p \/ m.runs[q].status = "completed"
      BY DEF PassesOn
    <2>2. MayPass(m, q)
      BY <1>1, <2>1 DEF JoinsPassed, IsParallel
    <2> QED BY <1>1, <1>2, <2>2, PassedStays
  <1>18. JoinsOpen(m2)
    <2> SUFFICES ASSUME NEW q \in DOMAIN m.runs, IsParallel(m, q), IsActive(m2, q)
                 PROVE  IF StepOfRun(m, q).join = "all"
                        THEN \E b \in LinesOf(m, q) : ~BranchDone(m2, q, b) \/ IsAfter(m2, q, b)
                        ELSE \A b \in LinesOf(m, q) : BranchDone(m2, q, b) => IsAfter(m2, q, b)
      BY <1>10 DEF JoinsOpen
    <2>1. IsActive(m, q)
      BY <1>3
    <2>2. Goes(m2, q)
      BY <1>1, <1>10, MachineParts DEF Goes, Top
    <2>3. \A b : ~IsAfter(m, q, b)
      BY <1>7, <2>2
    <2>4. IF StepOfRun(m, q).join = "all"
          THEN \E b \in LinesOf(m, q) : ~BranchDone(m, q, b)
          ELSE \A b \in LinesOf(m, q) : ~BranchDone(m, q, b)
      BY <1>1, <2>1, <2>3 DEF JoinsOpen
    <2> QED BY <1>6, <2>4
  <1> QED BY <1>11, <1>12, <1>13, <1>14, <1>15, <1>16, <1>17, <1>18 DEF BetweenMoves

\* The moves that leave no run active: the end of the route, or the one step
\* of the top line that it goes on with.
Clears(m, m2) ==
    /\ SamePlaces(m, m2) /\ KeepsCompleted(m, m2)
    /\ \A i \in DOMAIN m.runs :
         /\ ~IsActive(m2, i)
         /\ IsParallel(m, i) /\ m2.runs[i].status = "completed" => m.runs[i].status = "completed"
    /\ m2.after = Top
    /\ \/ m2.status \in {"finished", "cancelled"} /\ m2.opens = <<>>
       \/ m2.status = "running" /\ \E k \in TopKeys : m2.opens = <<Opening(k, Top, 0)>>

\* Such a move leads to between two moves.
LEMMA ClearedUp ==
    ASSUME NEW m \in Machines, RunsInPlace(m), JoinsPassed(m),
           NEW m2 \in Machines, WorkIsOfRuns(m2), Clears(m, m2)
    PROVE  BetweenMoves(m2)
  <1>1. /\ SamePlaces(m, m2) /\ KeepsCompleted(m, m2) /\ DOMAIN m2.runs = DOMAIN m.runs
        /\ \A i \in DOMAIN m2.runs : ~IsActive(m2, i)
        /\ m2.after = Top
        /\ \/ m2.status \in {"finished", "cancelled"} /\ m2.opens = <<>>
           \/ m2.status = "running" /\ \E k \in TopKeys : m2.opens = <<Opening(k, Top, 0)>>
    BY DEF Clears, SamePlaces
  <1>2. RunsInPlace(m2)
    BY <1>1, OrderStays
  <1>3. ActiveBelow(m2) /\ AfterInPlace(m2) /\ JoinsOpen(m2)
    BY <1>1 DEF ActiveBelow, AfterInPlace, JoinsOpen
  <1>4. \A q : Goes(m2, q) => q = Top /\ m2.status = "running"
    BY <1>1 DEF Goes, IsParallel
  <1>5. \A q, b : StandsAt(m2, q, b) = {}
    <2>1. \A i \in DOMAIN m2.runs : i # Top
      BY MachineParts DEF Top
    <2> QED BY <1>1, <2>1 DEF StandsAt, RunsAt
  <1>6. OpensInPlace(m2) /\ (m2.status = "running" => WaitsAt(m2, Top, 0) = {1})
    <2>1. CASE m2.opens = <<>> /\ m2.status # "running"
      BY <2>1 DEF OpensInPlace
    <2>2. CASE m2.status = "running" /\ \E k \in TopKeys : m2.opens = <<Opening(k, Top, 0)>>
      <3>1. PICK k \in TopKeys : m2.opens = <<Opening(k, Top, 0)>>
        BY <2>2
      <3>2. DOMAIN m2.opens = {1} /\ m2.opens[1] = [key |-> k, parent |-> Top, branch |-> 0]
        BY <3>1 DEF Opening
      <3> QED BY <2>2, <3>2 DEF OpensInPlace, WaitsAt, At, PlacedBelow, IsNth, Goes
    <2> QED BY <1>1, <2>1, <2>2
  <1>7. OneAtATime(m2)
    BY <1>4, <1>5, <1>6 DEF OneAtATime, LinesOf
  <1>8. TopAlone(m2)
    BY <1>1 DEF TopAlone
  <1>9. JoinsPassed(m2)
    <2> SUFFICES ASSUME NEW q \in DOMAIN m.runs, IsParallel(m2, q), m2.runs[q].status = "completed"
                 PROVE  MayPass(m2, q)
      BY <1>1 DEF JoinsPassed
    <2>1. IsParallel(m, q)
      BY <1>1, PlacesStay
    <2>2. MayPass(m, q)
      BY <2>1 DEF JoinsPassed, Clears
    <2> QED BY <1>1, <2>2, PassedStays
  <1> QED BY <1>2, <1>3, <1>6, <1>7, <1>8, <1>9 DEF BetweenMoves

\* What completing a run does to a machine.
LEMMA CompleteParts ==
    ASSUME NEW m \in Machines, NEW id \in DOMAIN m.runs
    PROVE  LET m2 == CompleteRun(m, id) IN
           /\ m2 \in Machines /\ SamePlaces(m, m2) /\ KeepsCompleted(m, m2)
           /\ \A i \in DOMAIN m.runs :
                m2.runs[i].status = IF i = id THEN "completed" ELSE m.runs[i].status
           /\ \A i \in DOMAIN m.runs : m2.runs[i].round = m.runs[i].round
           /\ m2.status = m.status /\ m2.round = m.round /\ m2.work = m.work
           /\ m2.after = m.after /\ m2.opens = m.opens
  <1> DEFINE m2 == CompleteRun(m, id)
             r2 == [m.runs EXCEPT ![id].status = "completed"]
  <1>1. m.runs \in Seq(Runs) /\ m.runs[id] \in Runs
    BY MachineParts
  <1>2. [m.runs[id] EXCEPT !.status = "completed"] \in Runs
    BY <1>1 DEF Runs
  <1>3. r2 \in Seq(Runs) /\ DOMAIN r2 = DOMAIN m.runs
    BY <1>1, <1>2
  <1>4. m2 = [m EXCEPT !.runs = r2]
    BY DEF CompleteRun, Machines
  <1>5. m2 \in Machines /\ m2.runs = r2
    BY <1>3, <1>4 DEF Machines
  <1>6. /\ m2.status = m.status /\ m2.round = m.round /\ m2.work = m.work
        /\ m2.after = m.after /\ m2.opens = m.opens
    BY <1>4 DEF Machines
  <1>7. \A i \in DOMAIN m.runs : r2[i] = IF i = id THEN [m.runs[i] EXCEPT !.status = "completed"]
                                         ELSE m.runs[i]
    OBVIOUS
  <1>8. \A i \in DOMAIN m.runs :
          /\ r2[i].key = m.runs[i].key /\ r2[i].parent = m.runs[i].parent
          /\ r2[i].branch = m.runs[i].branch /\ r2[i].round = m.runs[i].round
          /\ r2[i].status = IF i = id THEN "completed" ELSE m.runs[i].status
    BY <1>1, <1>7, MachineParts DEF Runs
  <1> HIDE DEF m2, r2
  <1> QED BY <1>3, <1>5, <1>6, <1>8 DEF SamePlaces, KeepsCompleted, m2

\* What cancelling runs does to a machine.
LEMMA CancelParts ==
    ASSUME NEW m \in Machines, NEW ids
    PROVE  LET m2 == CancelRuns(m, ids) IN
           /\ m2 \in Machines /\ SamePlaces(m, m2) /\ KeepsCompleted(m, m2)
           /\ \A i \in DOMAIN m.runs :
                m2.runs[i].status = IF i \in ids /\ IsActive(m, i) THEN "cancelled" ELSE m.runs[i].status
           /\ m2.status = m.status /\ m2.round = m.round /\ m2.work = m.work
           /\ m2.after = m.after /\ m2.opens = m.opens
  <1> DEFINE m2 == CancelRuns(m, ids)
             r2 == [i \in DOMAIN m.runs |->
                      IF i \in ids /\ m.runs[i].status = "active"
                      THEN [m.runs[i] EXCEPT !.status = "cancelled"] ELSE m.runs[i]]
  <1>1. m.runs \in Seq(Runs) /\ DOMAIN m.runs = 1..Len(m.runs) /\ Len(m.runs) \in Nat
    BY MachineParts
  <1>2. ASSUME NEW i \in DOMAIN m.runs
        PROVE  /\ r2[i] \in Runs
               /\ r2[i].key = m.runs[i].key /\ r2[i].parent = m.runs[i].parent
               /\ r2[i].branch = m.runs[i].branch
               /\ r2[i].status = IF i \in ids /\ IsActive(m, i) THEN "cancelled" ELSE m.runs[i].status
    <2>1. m.runs[i] \in Runs
      BY MachineParts
    <2>2. r2[i] = IF i \in ids /\ m.runs[i].status = "active"
                  THEN [m.runs[i] EXCEPT !.status = "cancelled"] ELSE m.runs[i]
      OBVIOUS
    <2> HIDE DEF r2
    <2> QED BY <2>1, <2>2 DEF Runs, IsActive
  <1>3. r2 \in Seq(Runs) /\ DOMAIN r2 = DOMAIN m.runs
    <2>1. r2 \in [1..Len(m.runs) -> Runs]
      BY <1>1, <1>2
    <2> QED BY <1>1, <2>1, SeqDef
  <1> HIDE DEF r2
  <1>4. m2 = [m EXCEPT !.runs = r2]
    BY DEF CancelRuns, r2
  <1>5. m2 \in Machines /\ m2.runs = r2
    BY <1>3, <1>4 DEF Machines
  <1>6. /\ m2.status = m.status /\ m2.round = m.round /\ m2.work = m.work
        /\ m2.after = m.after /\ m2.opens = m.opens
    BY <1>4 DEF Machines
  <1> HIDE DEF m2
  <1> QED BY <1>2, <1>3, <1>5, <1>6 DEF SamePlaces, KeepsCompleted, IsActive, m2

\* What the end of the route does to a machine.
LEMMA FinishParts ==
    ASSUME NEW m \in Machines, NEW status \in {"finished", "cancelled"}
    PROVE  LET m2 == FinishRoute(m, status) IN
           /\ m2 \in Machines /\ SamePlaces(m, m2) /\ KeepsCompleted(m, m2)
           /\ \A i \in DOMAIN m.runs :
                m2.runs[i].status = IF IsActive(m, i) THEN "cancelled" ELSE m.runs[i].status
           /\ m2.status = status /\ m2.round = m.round /\ m2.work = m.work
           /\ m2.after = m.after /\ m2.opens = m.opens
  <1> DEFINE m1 == CancelRuns(m, DOMAIN m.runs)
             m2 == FinishRoute(m, status)
  <1>1. /\ m1 \in Machines /\ SamePlaces(m, m1) /\ KeepsCompleted(m, m1)
        /\ \A i \in DOMAIN m.runs :
             m1.runs[i].status = IF IsActive(m, i) THEN "cancelled" ELSE m.runs[i].status
        /\ m1.status = m.status /\ m1.round = m.round /\ m1.work = m.work
        /\ m1.after = m.after /\ m1.opens = m.opens
    BY CancelParts
  <1> HIDE DEF m1
  <1>2. m2 = [m1 EXCEPT !.status = status]
    BY DEF FinishRoute, m1
  <1>3. /\ m2 \in Machines /\ m2.runs = m1.runs /\ m2.status = status /\ m2.round = m1.round
        /\ m2.work = m1.work /\ m2.after = m1.after /\ m2.opens = m1.opens
    BY <1>1, <1>2 DEF Machines
  <1> HIDE DEF m2
  <1> QED BY <1>1, <1>3 DEF SamePlaces, KeepsCompleted, m2

\* The end of the route, after a step that is no parallel one, clears up.
LEMMA FinishClears ==
    ASSUME NEW m \in Machines, RunsInPlace(m), JoinsPassed(m), WorkIsOfRuns(m),
           m.after = Top, m.opens = <<>>, NEW status \in {"finished", "cancelled"}
    PROVE  BetweenMoves(FinishRoute(m, status))
  <1> DEFINE m2 == FinishRoute(m, status)
  <1>1. /\ m2 \in Machines /\ SamePlaces(m, m2) /\ KeepsCompleted(m, m2)
        /\ \A i \in DOMAIN m.runs :
             m2.runs[i].status = IF IsActive(m, i) THEN "cancelled" ELSE m.runs[i].status
        /\ m2.status = status /\ m2.work = m.work /\ m2.after = m.after /\ m2.opens = m.opens
    BY FinishParts
  <1> HIDE DEF m2
  <1>2. Clears(m, m2)
    BY <1>1 DEF Clears, IsActive
  <1>3. WorkIsOfRuns(m2)
    BY <1>1 DEF WorkIsOfRuns, SamePlaces
  <1>4. BetweenMoves(m2)
    BY <1>1, <1>2, <1>3, ClearedUp
  <1> QED BY <1>4 DEF m2

\* Completing a run that is no parallel one keeps the places and the joins.
LEMMA CompleteKeeps ==
    ASSUME NEW m \in Machines, RunsInPlace(m), JoinsPassed(m), WorkIsOfRuns(m),
           NEW id \in DOMAIN m.runs, ~IsParallel(m, id)
    PROVE  LET m2 == CompleteRun(m, id) IN
           RunsInPlace(m2) /\ JoinsPassed(m2) /\ WorkIsOfRuns(m2)
  <1> DEFINE m2 == CompleteRun(m, id)
  <1>1. /\ m2 \in Machines /\ SamePlaces(m, m2) /\ KeepsCompleted(m, m2)
        /\ \A i \in DOMAIN m.runs :
             m2.runs[i].status = IF i = id THEN "completed" ELSE m.runs[i].status
        /\ m2.work = m.work
    BY CompleteParts
  <1> HIDE DEF m2
  <1>2. RunsInPlace(m2)
    BY <1>1, OrderStays
  <1>3. WorkIsOfRuns(m2)
    BY <1>1 DEF WorkIsOfRuns, SamePlaces
  <1>4. JoinsPassed(m2)
    <2> SUFFICES ASSUME NEW q \in DOMAIN m.runs, IsParallel(m2, q), m2.runs[q].status = "completed"
                 PROVE  MayPass(m2, q)
      BY <1>1 DEF JoinsPassed, SamePlaces
    <2>1. IsParallel(m, q)
      BY <1>1, PlacesStay
    <2>2. MayPass(m, q)
      BY <1>1, <2>1 DEF JoinsPassed
    <2> QED BY <1>1, <2>2, PassedStays
  <1> QED BY <1>2, <1>3, <1>4 DEF m2

\* Going back in the top line clears up.
LEMMA ReturnClears ==
    ASSUME NEW m \in Machines, RunsInPlace(m), JoinsPassed(m), WorkIsOfRuns(m),
           m.after = Top, m.status = "running", NEW k \in TopKeys
    PROVE  BetweenMoves([CancelRuns(m, DOMAIN m.runs) EXCEPT !.opens = <<Opening(k, Top, 0)>>])
  <1> DEFINE m1 == CancelRuns(m, DOMAIN m.runs)
             m2 == [m1 EXCEPT !.opens = <<Opening(k, Top, 0)>>]
  <1>1. /\ m1 \in Machines /\ SamePlaces(m, m1) /\ KeepsCompleted(m, m1)
        /\ \A i \in DOMAIN m.runs :
             m1.runs[i].status = IF IsActive(m, i) THEN "cancelled" ELSE m.runs[i].status
        /\ m1.status = m.status /\ m1.work = m.work /\ m1.after = m.after
    BY CancelParts
  <1>2. <<Opening(k, Top, 0)>> \in Seq(Places)
    BY DEF Opening, Places, TopKeys, Top
  <1> HIDE DEF m1
  <1>3. /\ m2 \in Machines /\ m2.runs = m1.runs /\ m2.status = m1.status /\ m2.work = m1.work
        /\ m2.after = m1.after /\ m2.opens = <<Opening(k, Top, 0)>>
    BY <1>1, <1>2 DEF Machines
  <1> HIDE DEF m2
  <1>4. Clears(m, m2)
    BY <1>1, <1>3 DEF Clears, IsActive, SamePlaces, KeepsCompleted
  <1>5. WorkIsOfRuns(m2)
    BY <1>1, <1>3 DEF WorkIsOfRuns, SamePlaces
  <1>6. BetweenMoves(m2)
    BY <1>3, <1>4, <1>5, ClearedUp
  <1> QED BY <1>6 DEF m1, m2

\* What a step may be concluded with: a decision of its type, or its end where
\* it stands.
MayConclude(m, id, verdict) ==
    /\ m \in Machines /\ BetweenMoves(m) /\ m.after = Top /\ m.opens = <<>>
    /\ id \in DOMAIN m.runs /\ IsActive(m, id)
    /\ \/ /\ StepOfRun(m, id).type \in DOMAIN Verdicts
          /\ verdict \in Verdicts[StepOfRun(m, id).type]
       \/ verdict = "done" /\ StepOfRun(m, id).type \in {"auto", "acknowledge", "approval"}

\* Only an approval and a signature are refused; no parallel step, condition or
\* end is concluded.
LEMMA ConcludedTypes ==
    ASSUME NEW m, NEW id, NEW verdict, MayConclude(m, id, verdict)
    PROVE  /\ StepOfRun(m, id).type \notin {"parallel", "end", "condition"}
           /\ verdict \in Refusals => StepOfRun(m, id).type \in {"approval", "sign"}
  <1> DEFINE t == StepOfRun(m, id).type
  <1>1. \/ t \in {"approval", "sign", "acknowledge", "register", "return"} /\ verdict \in Verdicts[t]
        \/ verdict = "done" /\ t \in {"auto", "acknowledge", "approval"}
    BY DEF MayConclude, Verdicts
  <1> HIDE DEF t
  <1>2. t \notin {"parallel", "end", "condition"}
    BY <1>1
  <1>3. verdict \in Refusals => t \in {"approval", "sign"}
    BY <1>1 DEF Refusals, Verdicts
  <1> QED BY <1>2, <1>3 DEF t

\* A concluded step may be gone on after.
LEMMA ConcludedGoesOn ==
    ASSUME NEW m, NEW id, NEW verdict, MayConclude(m, id, verdict),
           NEW m2 \in Machines, m2.runs = CompleteRun(m, id).runs, m2.status = m.status,
           m2.work = m.work, m2.after = id, m2.opens = <<>>
    PROVE  BetweenMoves(m2)
  <1>1. /\ m \in Machines /\ BetweenMoves(m) /\ m.after = Top /\ m.opens = <<>>
        /\ id \in DOMAIN m.runs /\ IsActive(m, id)
        /\ StepOfRun(m, id).type \notin {"parallel", "end", "condition"}
    BY ConcludedTypes DEF MayConclude
  <1>2. Below(m, id, {})
    <2> SUFFICES ASSUME NEW i \in DOMAIN m.runs, m.runs[i].parent = id PROVE FALSE
      BY DEF Below
    <2>1. id # Top
      BY <1>1, MachineParts DEF Top
    <2>2. IsParallel(m, id)
      BY <1>1, <2>1, ParentFacts DEF BetweenMoves
    <2> QED BY <1>1, <2>2 DEF IsParallel
  <1>3. MayPassOn(m, id, {})
    BY <1>1, <1>2 DEF MayPassOn
  <1> DEFINE m1 == CompleteRun(m, id)
  <1>4. /\ SamePlaces(m, m1)
        /\ \A i \in DOMAIN m.runs :
             m1.runs[i].status = IF i = id THEN "completed" ELSE m.runs[i].status
    BY <1>1, CompleteParts
  <1> HIDE DEF m1
  <1>5. PassesOn(m, id, {}, m2)
    BY <1>4 DEF PassesOn, SamePlaces, m1
  <1>6. WorkIsOfRuns(m2)
    BY <1>1, <1>5 DEF BetweenMoves, WorkIsOfRuns, PassesOn, SamePlaces
  <1> QED BY <1>3, <1>5, <1>6, PassedOn

\* Concluding a step leads to between two moves.
LEMMA ConcludeKeeps ==
    ASSUME NEW m, NEW id, NEW verdict, MayConclude(m, id, verdict)
    PROVE  BetweenMoves(Conclude(m, id, verdict))
  <1>1. /\ m \in Machines /\ BetweenMoves(m) /\ m.after = Top /\ m.opens = <<>>
        /\ id \in DOMAIN m.runs /\ IsActive(m, id) /\ m.round \in Nat /\ id \in Nat
        /\ RunsInPlace(m) /\ JoinsPassed(m) /\ WorkIsOfRuns(m) /\ m.status = "running"
    BY MachineParts DEF MayConclude, BetweenMoves, TopAlone
  <1>2. ~IsParallel(m, id)
    BY ConcludedTypes DEF IsParallel
  <1> DEFINE m1 == CompleteRun(m, id)
  <1>3. /\ m1 \in Machines /\ SamePlaces(m, m1) /\ KeepsCompleted(m, m1)
        /\ m1.status = m.status /\ m1.round = m.round /\ m1.work = m.work
        /\ m1.after = m.after /\ m1.opens = m.opens
    BY <1>1, CompleteParts
  <1>4. RunsInPlace(m1) /\ JoinsPassed(m1) /\ WorkIsOfRuns(m1)
    BY <1>1, <1>2, CompleteKeeps
  <1>5. BetweenMoves([m1 EXCEPT !.after = id])
    <2> DEFINE m2 == [m1 EXCEPT !.after = id]
    <2> HIDE DEF m1
    <2>1. /\ m2 \in Machines /\ m2.runs = m1.runs /\ m2.status = m1.status /\ m2.work = m1.work
          /\ m2.after = id /\ m2.opens = m1.opens
      BY <1>1, <1>3 DEF Machines
    <2> HIDE DEF m2
    <2>2. BetweenMoves(m2)
      BY <1>1, <1>3, <2>1, ConcludedGoesOn DEF m1
    <2> QED BY <2>2 DEF m2
  <1>6. BetweenMoves([m1 EXCEPT !.round = m.round + 1, !.after = id])
    <2> DEFINE m2 == [m1 EXCEPT !.round = m.round + 1, !.after = id]
    <2> HIDE DEF m1
    <2>0. m.round + 1 \in Nat
      BY <1>1
    <2>1. /\ m2 \in Machines /\ m2.runs = m1.runs /\ m2.status = m1.status /\ m2.work = m1.work
          /\ m2.after = id /\ m2.opens = m1.opens
      BY <1>1, <1>3, <2>0 DEF Machines
    <2> HIDE DEF m2
    <2>2. BetweenMoves(m2)
      BY <1>1, <1>3, <2>1, ConcludedGoesOn DEF m1
    <2> QED BY <2>2 DEF m2
  <1>7. \A status \in {"finished", "cancelled"} : BetweenMoves(FinishRoute(m1, status))
    <2> HIDE DEF m1
    <2> QED BY <1>1, <1>3, <1>4, FinishClears
  <1>8. ASSUME verdict \in Refusals PROVE BetweenMoves(Negative(m1, id))
    <2> DEFINE where == StepOfRun(m1, id).onReject
    <2>1. StepOfRun(m1, id) = StepOfRun(m, id)
      BY <1>1, <1>3, PlacesStay
    <2>2. StepOfRun(m, id).type \in {"approval", "sign"}
      BY <1>8, ConcludedTypes
    <2>3. where \in {"continue", "end"} \cup TopKeys
      BY <1>1, <2>1, <2>2, StepFacts, MachineParts DEF StepOfRun
    <2> HIDE DEF m1, where
    <2>4. CASE where = "continue"
      BY <1>5, <2>4 DEF Negative, where
    <2>5. CASE where = "end"
      <3>1. Negative(m1, id) = FinishRoute(m1, "finished")
        BY <2>5 DEF Negative, where
      <3> QED BY <1>7, <3>1
    <2>6. CASE where \notin {"continue", "end"}
      <3>1. Negative(m1, id) = [CancelRuns(m1, DOMAIN m1.runs) EXCEPT !.opens = <<Opening(where, Top, 0)>>]
        BY <2>6 DEF Negative, where
      <3>2. BetweenMoves([CancelRuns(m1, DOMAIN m1.runs) EXCEPT !.opens = <<Opening(where, Top, 0)>>])
        BY <1>1, <1>3, <1>4, <2>3, <2>6, ReturnClears
      <3> QED BY <3>1, <3>2
    <2> QED BY <2>4, <2>5, <2>6
  <1> HIDE DEF m1
  <1>9. CASE verdict = "withdrawn"
    <2>1. Conclude(m, id, verdict) = FinishRoute(m1, "cancelled")
      BY <1>9 DEF Conclude, Refusals, m1
    <2> QED BY <1>7, <2>1
  <1>10. CASE verdict = "resubmitted"
    <2>1. Conclude(m, id, verdict) = [m1 EXCEPT !.round = m.round + 1, !.after = id]
      BY <1>10 DEF Conclude, Refusals, m1
    <2> QED BY <1>6, <2>1
  <1>11. CASE verdict \in Refusals
    <2>1. Conclude(m, id, verdict) = Negative(m1, id)
      BY <1>11 DEF Conclude, m1, Refusals
    <2> QED BY <1>8, <1>11, <2>1
  <1>12. CASE verdict \notin {"withdrawn", "resubmitted"} \cup Refusals
    <2>1. Conclude(m, id, verdict) = [m1 EXCEPT !.after = id]
      BY <1>12 DEF Conclude, m1
    <2> QED BY <1>5, <2>1
  <1> QED BY <1>9, <1>10, <1>11, <1>12

\* A run is added, where the next opening says, and is active.
Adds(m, m2) ==
    LET x == m.opens[1]
        id == Len(m.runs) + 1
    IN /\ DOMAIN m2.runs = 1..id
       /\ \A i \in DOMAIN m.runs : m2.runs[i] = m.runs[i]
       /\ m2.runs[id].key = x.key /\ m2.runs[id].parent = x.parent
       /\ m2.runs[id].branch = x.branch /\ m2.runs[id].status = "active"
MayAdd(m) == m \in Machines /\ BetweenMoves(m) /\ m.after = Top /\ m.opens # <<>>

\* The parts of the openings, and of the next one in particular.
LEMMA OpeningFacts ==
    ASSUME NEW m, MayAdd(m)
    PROVE  /\ 1 \in DOMAIN m.opens /\ DOMAIN m.opens = 1..Len(m.opens) /\ Len(m.opens) \in Nat
           /\ \A k \in DOMAIN m.opens :
                LET x == m.opens[k] IN
                /\ x \in Places /\ x.key \in StepKeys /\ x.parent \in Nat /\ x.branch \in Nat
                /\ x.parent = Top \/ x.parent \in DOMAIN m.runs
                /\ x.branch \in LinesOf(m, x.parent) /\ Goes(m, x.parent)
                /\ k \in WaitsAt(m, x.parent, x.branch)
           /\ m.status = "running"
  <1>1. m \in Machines /\ OpensInPlace(m) /\ m.opens # <<>> /\ m.status = "running"
    BY DEF MayAdd, BetweenMoves, TopAlone
  <1>2. m.opens \in Seq(Places)
    BY <1>1, MachineParts
  <1>3. 1 \in DOMAIN m.opens /\ DOMAIN m.opens = 1..Len(m.opens) /\ Len(m.opens) \in Nat
    BY <1>1, <1>2
  <1>4. ASSUME NEW k \in DOMAIN m.opens
        PROVE  LET x == m.opens[k] IN
                /\ x \in Places /\ x.key \in StepKeys /\ x.parent \in Nat /\ x.branch \in Nat
                /\ x.parent = Top \/ x.parent \in DOMAIN m.runs
                /\ x.branch \in LinesOf(m, x.parent) /\ Goes(m, x.parent)
                /\ k \in WaitsAt(m, x.parent, x.branch)
    <2> DEFINE x == m.opens[k]
    <2>1. x \in Places
      BY <1>2, <1>3, ElementOfSeq
    <2>2. PlacedBelow(m, x, Len(m.runs) + 1) /\ Goes(m, x.parent)
      BY <1>1 DEF OpensInPlace
    <2>3. k \in WaitsAt(m, x.parent, x.branch)
      BY DEF WaitsAt, At
    <2> HIDE DEF x
    <2>4. x.key \in StepKeys /\ x.parent \in Nat /\ x.branch \in Nat
      BY <2>1 DEF Places
    <2>5. (x.parent = Top \/ x.parent \in DOMAIN m.runs) /\ x.branch \in LinesOf(m, x.parent)
      BY <2>2 DEF PlacedBelow, IsParallel, LinesOf
    <2> QED BY <2>1, <2>2, <2>3, <2>4, <2>5 DEF x
  <1> QED BY <1>1, <1>3, <1>4

\* Nothing changes for the runs that were there; the new one has none below it.
LEMMA AddLeaves ==
    ASSUME NEW m, NEW m2, MayAdd(m), Adds(m, m2)
    PROVE  LET id == Len(m.runs) + 1  x == m.opens[1] IN
           /\ id \in Nat /\ id # Top /\ DOMAIN m2.runs = DOMAIN m.runs \cup {id} /\ id \notin DOMAIN m.runs
           /\ \A i \in DOMAIN m.runs : i < id /\ StepOfRun(m2, i) = StepOfRun(m, i)
                                       /\ (IsActive(m2, i) <=> IsActive(m, i))
           /\ IsActive(m2, id) /\ StepOfRun(m2, id) = Definition[x.key]
           /\ \A p \in DOMAIN m.runs : IsParallel(m2, p) <=> IsParallel(m, p)
           /\ \A p \in {Top} \cup DOMAIN m.runs : LinesOf(m2, p) = LinesOf(m, p)
           /\ \A p, b : RunsAt(m2, p, b) = IF At(x, p, b) THEN RunsAt(m, p, b) \cup {id}
                                                          ELSE RunsAt(m, p, b)
           /\ \A b : RunsAt(m2, id, b) = {}
           /\ \A p \in DOMAIN m.runs : \A b : BranchDone(m2, p, b) <=> BranchDone(m, p, b)
  <1> DEFINE id == Len(m.runs) + 1
             x == m.opens[1]
  <1>1. m \in Machines /\ RunsInPlace(m) /\ DOMAIN m.runs = 1..Len(m.runs) /\ Len(m.runs) \in Nat
    BY MachineParts DEF MayAdd, BetweenMoves
  <1>2. /\ id \in Nat /\ id # Top /\ DOMAIN m2.runs = DOMAIN m.runs \cup {id} /\ id \notin DOMAIN m.runs
        /\ \A i \in DOMAIN m.runs : i < id /\ m2.runs[i] = m.runs[i]
        /\ m2.runs[id].key = x.key /\ m2.runs[id].parent = x.parent
        /\ m2.runs[id].branch = x.branch /\ m2.runs[id].status = "active"
    BY <1>1 DEF Adds, Top
  <1>3. \A i \in DOMAIN m.runs : m.runs[i].parent # id
    BY <1>1, <1>2, ParentFacts
  <1>4. x.parent # id
    BY <1>2, OpeningFacts
  <1> HIDE DEF id, x
  <1>5. /\ \A i \in DOMAIN m.runs : StepOfRun(m2, i) = StepOfRun(m, i)
                                       /\ (IsActive(m2, i) <=> IsActive(m, i))
        /\ IsActive(m2, id) /\ StepOfRun(m2, id) = Definition[x.key]
    BY <1>2 DEF StepOfRun, IsActive
  <1>6. \A p \in DOMAIN m.runs : IsParallel(m2, p) <=> IsParallel(m, p)
    BY <1>2, <1>5 DEF IsParallel
  <1>7. \A p \in {Top} \cup DOMAIN m.runs : LinesOf(m2, p) = LinesOf(m, p)
    BY <1>5 DEF LinesOf
  <1>8. \A p, b : RunsAt(m2, p, b) = IF At(x, p, b) THEN RunsAt(m, p, b) \cup {id}
                                                    ELSE RunsAt(m, p, b)
    BY <1>2 DEF RunsAt, At
  <1>9. \A b : RunsAt(m2, id, b) = {}
    BY <1>2, <1>3, <1>4 DEF RunsAt, At
  <1>10. ASSUME NEW p \in DOMAIN m.runs, NEW b PROVE BranchDone(m2, p, b) <=> BranchDone(m, p, b)
    BY <1>2, <1>5 DEF BranchDone, ChildrenOf
  <1> QED BY <1>2, <1>5, <1>6, <1>7, <1>8, <1>9, <1>10 DEF id, x

\* A place keeps what is said of it, while the runs before it are the same.
LEMMA PlaceKept ==
    ASSUME NEW m, NEW m2, MayAdd(m), Adds(m, m2), NEW x,
           NEW n \in Nat, NEW k \in Nat, n <= k, PlacedBelow(m, x, n)
    PROVE  /\ PlacedBelow(m2, x, k)
           /\ \A S : IsNth(m, x, S) => IsNth(m2, x, S)
           /\ \A S : S \subseteq DOMAIN m.runs /\ AllCompleted(m, S) => AllCompleted(m2, S)
           /\ Goes(m, x.parent) /\ m2.status = "running" => Goes(m2, x.parent)
  <1>1. x.parent = Top \/ x.parent \in DOMAIN m.runs
    BY DEF PlacedBelow, IsParallel
  <1>2. /\ \A i \in DOMAIN m.runs : m2.runs[i] = m.runs[i] /\ StepOfRun(m2, i) = StepOfRun(m, i)
        /\ \A p \in DOMAIN m.runs : IsParallel(m2, p) <=> IsParallel(m, p)
        /\ \A i \in DOMAIN m.runs : IsActive(m2, i) <=> IsActive(m, i)
        /\ \A p \in {Top} \cup DOMAIN m.runs : LinesOf(m2, p) = LinesOf(m, p)
    BY AddLeaves DEF Adds
  <1>3. PlacedBelow(m2, x, k)
    <2>1. CASE x.parent = Top
      BY <2>1 DEF PlacedBelow
    <2>2. CASE x.parent # Top
      <3>1. /\ x.parent < n /\ IsParallel(m, x.parent) /\ x.parent \in DOMAIN m.runs
            /\ x.branch \in LinesOf(m, x.parent) /\ StandsIn(x.key, m.runs[x.parent].key, x.branch)
        BY <1>1, <2>2 DEF PlacedBelow
      <3>2. x.parent \in Nat
        BY <3>1, MachineParts DEF MayAdd
      <3>3. x.parent < k
        BY <3>1, <3>2
      <3> QED BY <1>2, <2>2, <3>1, <3>3 DEF PlacedBelow
    <2> QED BY <2>1, <2>2
  <1>4. \A S : IsNth(m, x, S) => IsNth(m2, x, S)
    BY <1>1, <1>2 DEF IsNth
  <1>5. \A S : S \subseteq DOMAIN m.runs /\ AllCompleted(m, S) => AllCompleted(m2, S)
    BY <1>2 DEF AllCompleted
  <1>6. Goes(m, x.parent) /\ m2.status = "running" => Goes(m2, x.parent)
    BY <1>1, <1>2 DEF Goes
  <1> QED BY <1>3, <1>4, <1>5, <1>6

\* The places and the joins are as they should be with the new run.
LEMMA AddKeeps ==
    ASSUME NEW m, NEW m2, MayAdd(m), Adds(m, m2)
    PROVE  RunsInPlace(m2) /\ JoinsPassed(m2)
  <1> DEFINE id == Len(m.runs) + 1
             x == m.opens[1]
  <1>1. /\ m \in Machines /\ RunsInPlace(m) /\ OpensInPlace(m) /\ JoinsPassed(m)
    BY DEF MayAdd, BetweenMoves
  <1>2. /\ id \in Nat /\ DOMAIN m2.runs = DOMAIN m.runs \cup {id} /\ id \notin DOMAIN m.runs
        /\ \A i \in DOMAIN m.runs : i < id /\ m2.runs[i] = m.runs[i] /\ i \in Nat
        /\ \A p, b : RunsAt(m2, p, b) = IF At(x, p, b) THEN RunsAt(m, p, b) \cup {id}
                                                          ELSE RunsAt(m, p, b)
        /\ m2.runs[id].key = x.key /\ m2.runs[id].parent = x.parent
        /\ m2.runs[id].branch = x.branch /\ m2.runs[id].status = "active"
    <2>1. /\ id \in Nat /\ DOMAIN m2.runs = DOMAIN m.runs \cup {id} /\ id \notin DOMAIN m.runs
          /\ \A i \in DOMAIN m.runs : i < id
          /\ \A p, b : RunsAt(m2, p, b) = IF At(x, p, b) THEN RunsAt(m, p, b) \cup {id}
                                                          ELSE RunsAt(m, p, b)
      BY AddLeaves
    <2>2. \A i \in DOMAIN m.runs : i \in Nat
      BY <1>1, MachineParts
    <2>3. /\ \A i \in DOMAIN m.runs : m2.runs[i] = m.runs[i]
          /\ m2.runs[id].key = x.key /\ m2.runs[id].parent = x.parent
          /\ m2.runs[id].branch = x.branch /\ m2.runs[id].status = "active"
      BY DEF Adds
    <2> HIDE DEF id, x
    <2> QED BY <2>1, <2>2, <2>3
  <1>3. PlacedBelow(m, x, id) /\ IsNth(m, x, RunsAt(m, x.parent, x.branch))
        /\ (x.parent # Top => AllCompleted(m, RunsAt(m, x.parent, x.branch)))
    BY <1>1, OpeningFacts DEF OpensInPlace
  <1> HIDE DEF id, x
  <1>4. \A p, b : RunsAt(m, p, b) \subseteq DOMAIN m.runs
    BY DEF RunsAt
  <1>5. ASSUME NEW i \in DOMAIN m.runs
        PROVE  /\ PlacedBelow(m2, m2.runs[i], i) /\ IsNth(m2, m2.runs[i], Earlier(m2, i))
               /\ m2.runs[i].parent # Top => AllCompleted(m2, Earlier(m2, i))
    <2>1. Earlier(m2, i) = Earlier(m, i) /\ Earlier(m, i) \subseteq DOMAIN m.runs
      BY <1>2, <1>4 DEF Earlier
    <2>2. /\ PlacedBelow(m, m.runs[i], i) /\ IsNth(m, m.runs[i], Earlier(m, i))
          /\ m.runs[i].parent # Top => AllCompleted(m, Earlier(m, i))
      BY <1>1 DEF RunsInPlace
    <2>3. m2.runs[i] = m.runs[i] /\ i \in Nat /\ i <= i
      BY <1>2
    <2> QED BY <2>1, <2>2, <2>3, PlaceKept
  <1>6. /\ PlacedBelow(m2, m2.runs[id], id) /\ IsNth(m2, m2.runs[id], Earlier(m2, id))
        /\ m2.runs[id].parent # Top => AllCompleted(m2, Earlier(m2, id))
    <2>1. Earlier(m2, id) = RunsAt(m, x.parent, x.branch)
      BY <1>2, <1>4 DEF Earlier, At
    <2>2. PlacedBelow(m2, x, id) /\ IsNth(m2, x, RunsAt(m, x.parent, x.branch))
          /\ (x.parent # Top => AllCompleted(m2, RunsAt(m, x.parent, x.branch)))
      <3>1. id <= id
        BY <1>2
      <3> QED BY <1>2, <1>3, <1>4, <3>1, PlaceKept
    <2>3. PlacedBelow(m2, m2.runs[id], id)
      BY <1>2, <2>2 DEF PlacedBelow
    <2>4. IsNth(m2, m2.runs[id], Earlier(m2, id))
      BY <1>2, <2>1, <2>2 DEF IsNth
    <2> QED BY <1>2, <2>1, <2>2, <2>3, <2>4
  <1>7. RunsInPlace(m2)
    BY <1>2, <1>5, <1>6 DEF RunsInPlace
  <1>8. JoinsPassed(m2)
    <2> SUFFICES ASSUME NEW q \in DOMAIN m2.runs, IsParallel(m2, q), m2.runs[q].status = "completed"
                 PROVE  MayPass(m2, q)
      BY DEF JoinsPassed
    <2>1. q \in DOMAIN m.runs
      BY <1>2
    <2>2. IsParallel(m, q) /\ StepOfRun(m2, q) = StepOfRun(m, q) /\ LinesOf(m2, q) = LinesOf(m, q)
          /\ \A b : BranchDone(m2, q, b) <=> BranchDone(m, q, b)
      BY <2>1, AddLeaves
    <2>3. MayPass(m, q)
      BY <1>1, <1>2, <2>1, <2>2 DEF JoinsPassed
    <2> QED BY <2>2, <2>3 DEF MayPass
  <1> QED BY <1>7, <1>8

\* The new run waits for an answer, or its branches are to be opened: the first
\* nb openings are those of the branches, the others were there.
Enters(m, m2, nb) ==
    LET step == Definition[m.opens[1].key]
        id == Len(m.runs) + 1
    IN /\ Adds(m, m2) /\ m2.status = m.status /\ m2.after = Top
       /\ nb = IF step.type = "parallel" THEN Len(step.branches) ELSE 0
       /\ step.type \notin {"end", "condition"}
       /\ DOMAIN m2.opens = 1..(nb + Len(m.opens) - 1)
       /\ \A k \in 1..nb : m2.opens[k] = Opening(step.branches[k][1], id, k)
       /\ \A k \in DOMAIN m2.opens : k > nb => m2.opens[k] = m.opens[k - nb + 1]

\* In a run that was just opened, each branch waits for its first step.
AtTheStart(m, id, nb) == \A b, k : k \in WaitsAt(m, id, b) <=> k \in 1..nb /\ k = b
\* In the other lines wait the same, but the one that was next.
OneFewer(m, m2, nb) ==
    /\ \A p \in {Top} \cup DOMAIN m.runs : \A b : \A k \in WaitsAt(m2, p, b) :
         k > nb /\ k \in Nat /\ k - nb + 1 \in WaitsAt(m, p, b) /\ k - nb + 1 # 1
    /\ \A p \in {Top} \cup DOMAIN m.runs : \A b : \A j \in WaitsAt(m, p, b) :
         j # 1 => j + nb - 1 \in WaitsAt(m2, p, b)

\* Which steps are still to be opened, and where.
LEMMA EnteredWaits ==
    ASSUME NEW m, NEW m2, NEW nb, MayAdd(m), Enters(m, m2, nb)
    PROVE  LET id == Len(m.runs) + 1 IN
           /\ nb \in Nat
           /\ \A k \in DOMAIN m2.opens : k \in Nat /\ (k \in 1..nb \/
                (k > nb /\ k - nb + 1 \in DOMAIN m.opens /\ k - nb + 1 # 1 /\ m2.opens[k] = m.opens[k - nb + 1]))
           /\ OneFewer(m, m2, nb)
           /\ AtTheStart(m2, id, nb)
  <1> DEFINE id == Len(m.runs) + 1
             step == Definition[m.opens[1].key]
  <1>1. /\ DOMAIN m2.opens = 1..(nb + Len(m.opens) - 1)
        /\ \A k \in 1..nb : m2.opens[k] = Opening(step.branches[k][1], id, k)
        /\ \A k \in DOMAIN m2.opens : k > nb => m2.opens[k] = m.opens[k - nb + 1]
    BY DEF Enters
  <1>2. nb \in Nat
    <2>1. m.opens[1].key \in StepKeys
      BY OpeningFacts
    <2>2. step.type = "parallel" => Len(step.branches) \in Nat
      BY <2>1, BranchFacts
    <2> QED BY <2>2 DEF Enters
  <1>3. /\ DOMAIN m.opens = 1..Len(m.opens) /\ Len(m.opens) \in Nat /\ 1 \in DOMAIN m.opens
        /\ \A k \in DOMAIN m.opens : m.opens[k].parent \in {Top} \cup DOMAIN m.runs
    BY OpeningFacts
  <1>4. id \notin {Top} \cup DOMAIN m.runs
    BY AddLeaves DEF Enters
  <1> HIDE DEF id, step
  <1>5. ASSUME NEW k \in 1..nb PROVE m2.opens[k].parent = id /\ m2.opens[k].branch = k
    <2>1. m2.opens[k] = Opening(step.branches[k][1], id, k)
      BY <1>1
    <2> QED BY <2>1 DEF Opening
  <1>6. ASSUME NEW k \in DOMAIN m2.opens
        PROVE  k \in Nat /\ (k \in 1..nb \/
                (k > nb /\ k - nb + 1 \in DOMAIN m.opens /\ k - nb + 1 # 1 /\ m2.opens[k] = m.opens[k - nb + 1]))
    BY <1>1, <1>2, <1>3
  <1>7. ASSUME NEW p \in {Top} \cup DOMAIN m.runs, NEW b, NEW k \in WaitsAt(m2, p, b)
        PROVE  k > nb /\ k \in Nat /\ k - nb + 1 \in WaitsAt(m, p, b) /\ k - nb + 1 # 1
    <2>1. k \in DOMAIN m2.opens /\ m2.opens[k].parent = p /\ m2.opens[k].branch = b
      BY DEF WaitsAt, At
    <2>2. k \notin 1..nb
      BY <1>4, <1>5, <2>1
    <2>3. k \in Nat /\ k > nb /\ k - nb + 1 \in DOMAIN m.opens /\ k - nb + 1 # 1
          /\ m2.opens[k] = m.opens[k - nb + 1]
      BY <1>6, <2>1, <2>2
    <2> QED BY <2>1, <2>3 DEF WaitsAt, At
  <1>8. ASSUME NEW p \in {Top} \cup DOMAIN m.runs, NEW b, NEW j \in WaitsAt(m, p, b), j # 1
        PROVE  j + nb - 1 \in WaitsAt(m2, p, b)
    <2>1. j \in DOMAIN m.opens /\ m.opens[j].parent = p /\ m.opens[j].branch = b
      BY DEF WaitsAt, At
    <2>2. j + nb - 1 \in DOMAIN m2.opens /\ j + nb - 1 > nb /\ (j + nb - 1) - nb + 1 = j
      <3>1. j \in 1..Len(m.opens) /\ Len(m.opens) \in Nat
        BY <1>3, <2>1
      <3>2. j + nb - 1 \in 1..(nb + Len(m.opens) - 1) /\ j + nb - 1 > nb /\ (j + nb - 1) - nb + 1 = j
        BY <1>2, <1>8, <3>1
      <3> QED BY <1>1, <3>2
    <2>3. m2.opens[j + nb - 1] = m.opens[j]
      BY <1>1, <2>2
    <2> QED BY <2>1, <2>2, <2>3 DEF WaitsAt, At
  <1>9. ASSUME NEW b, NEW k PROVE k \in WaitsAt(m2, id, b) <=> k \in 1..nb /\ k = b
    <2>1. ASSUME k \in WaitsAt(m2, id, b) PROVE k \in 1..nb /\ k = b
      <3>1. k \in DOMAIN m2.opens /\ m2.opens[k].parent = id /\ m2.opens[k].branch = b
        BY <2>1 DEF WaitsAt, At
      <3>2. k \in 1..nb
        BY <1>3, <1>4, <1>6, <3>1
      <3> QED BY <1>5, <3>1, <3>2
    <2>2. ASSUME k \in 1..nb, k = b PROVE k \in WaitsAt(m2, id, b)
      <3>1. k \in DOMAIN m2.opens
        BY <1>1, <1>2, <1>3, <2>2
      <3> QED BY <1>5, <2>2, <3>1 DEF WaitsAt, At
    <2> QED BY <2>1, <2>2
  <1> QED BY <1>2, <1>6, <1>7, <1>8, <1>9 DEF id, AtTheStart, OneFewer

\* Such a move leads from between two moves to between two moves.
LEMMA Entered ==
    ASSUME NEW m, NEW m2, NEW nb, MayAdd(m), Enters(m, m2, nb), m2 \in Machines, WorkIsOfRuns(m2)
    PROVE  BetweenMoves(m2)
  <1> DEFINE id == Len(m.runs) + 1
             x == m.opens[1]
             step == Definition[x.key]
  <1>1. /\ m \in Machines /\ ActiveBelow(m) /\ OpensInPlace(m) /\ OneAtATime(m) /\ TopAlone(m)
        /\ JoinsOpen(m) /\ m.after = Top
    BY DEF MayAdd, BetweenMoves
  <1>2. /\ Adds(m, m2) /\ m.status = "running" /\ m2.status = "running" /\ m2.after = Top
        /\ nb = IF step.type = "parallel" THEN Len(step.branches) ELSE 0
        /\ \A k \in 1..nb : m2.opens[k] = Opening(step.branches[k][1], id, k)
    BY OpeningFacts DEF Enters
  <1>3. /\ id \in Nat /\ id # Top /\ DOMAIN m2.runs = DOMAIN m.runs \cup {id} /\ id \notin DOMAIN m.runs
        /\ \A i \in DOMAIN m.runs : i < id /\ StepOfRun(m2, i) = StepOfRun(m, i)
                                       /\ (IsActive(m2, i) <=> IsActive(m, i))
        /\ IsActive(m2, id) /\ StepOfRun(m2, id) = step
        /\ \A p \in DOMAIN m.runs : IsParallel(m2, p) <=> IsParallel(m, p)
        /\ \A p \in {Top} \cup DOMAIN m.runs : LinesOf(m2, p) = LinesOf(m, p)
        /\ \A p, b : RunsAt(m2, p, b) = IF At(x, p, b) THEN RunsAt(m, p, b) \cup {id}
                                                          ELSE RunsAt(m, p, b)
        /\ \A b : RunsAt(m2, id, b) = {}
        /\ \A p \in DOMAIN m.runs : \A b : BranchDone(m2, p, b) <=> BranchDone(m, p, b)
    BY <1>2, AddLeaves
  <1>4. /\ \A i \in DOMAIN m.runs : m2.runs[i] = m.runs[i]
        /\ m2.runs[id].key = x.key /\ m2.runs[id].parent = x.parent /\ m2.runs[id].branch = x.branch
    BY <1>2 DEF Adds
  <1>5. /\ nb \in Nat
        /\ \A k \in DOMAIN m2.opens : k \in Nat /\ (k \in 1..nb \/
             (k > nb /\ k - nb + 1 \in DOMAIN m.opens /\ k - nb + 1 # 1 /\ m2.opens[k] = m.opens[k - nb + 1]))
        /\ \A p \in {Top} \cup DOMAIN m.runs : \A b : \A k \in WaitsAt(m2, p, b) :
             k > nb /\ k \in Nat /\ k - nb + 1 \in WaitsAt(m, p, b) /\ k - nb + 1 # 1
        /\ \A p \in {Top} \cup DOMAIN m.runs : \A b : \A j \in WaitsAt(m, p, b) :
             j # 1 => j + nb - 1 \in WaitsAt(m2, p, b)
        /\ \A b, k : k \in WaitsAt(m2, id, b) <=> k \in 1..nb /\ k = b
    <2>1. nb \in Nat
      BY EnteredWaits
    <2>2. \A k \in DOMAIN m2.opens : k \in Nat /\ (k \in 1..nb \/
             (k > nb /\ k - nb + 1 \in DOMAIN m.opens /\ k - nb + 1 # 1 /\ m2.opens[k] = m.opens[k - nb + 1]))
      BY EnteredWaits
    <2>3. OneFewer(m, m2, nb)
      BY EnteredWaits
    <2>4. AtTheStart(m2, id, nb)
      BY EnteredWaits
    <2> HIDE DEF id
    <2> QED BY <2>1, <2>2, <2>3, <2>4 DEF AtTheStart, OneFewer
  <1>6. /\ x.key \in StepKeys /\ x.parent \in {Top} \cup DOMAIN m.runs /\ x.branch \in LinesOf(m, x.parent)
        /\ Goes(m, x.parent) /\ 1 \in WaitsAt(m, x.parent, x.branch) /\ 1 \in DOMAIN m.opens
        /\ \A k \in DOMAIN m.opens :
             LET y == m.opens[k] IN
             /\ y.parent \in {Top} \cup DOMAIN m.runs /\ y.branch \in LinesOf(m, y.parent)
             /\ Goes(m, y.parent) /\ k \in WaitsAt(m, y.parent, y.branch)
    BY OpeningFacts
  <1>7. \A p \in {Top} \cup DOMAIN m.runs : Goes(m2, p) <=> Goes(m, p)
    BY <1>2, <1>3 DEF Goes
  \* Nothing else is to be opened where the new run stands.
  <1>8. \A k \in WaitsAt(m, x.parent, x.branch) : k = 1
    BY <1>1, <1>6 DEF OneAtATime
  <1>9. RunsInPlace(m2) /\ JoinsPassed(m2)
    BY <1>2, AddKeeps
  <1>10. step.type = "parallel" =>
           /\ IsParallel(m2, id) /\ Goes(m2, id) /\ LinesOf(m2, id) = 1..nb /\ nb # 0
           /\ \A k \in 1..nb : StandsIn(step.branches[k][1], x.key, k)
                               /\ 1 \in DOMAIN step.branches[k]
    <2> SUFFICES ASSUME step.type = "parallel"
                 PROVE  /\ IsParallel(m2, id) /\ Goes(m2, id) /\ LinesOf(m2, id) = 1..nb /\ nb # 0
                        /\ \A k \in 1..nb : StandsIn(step.branches[k][1], x.key, k)
                                            /\ 1 \in DOMAIN step.branches[k]
      OBVIOUS
    <2>1. /\ Len(step.branches) \in Nat \ {0} /\ DOMAIN step.branches = 1..Len(step.branches)
          /\ \A n \in DOMAIN step.branches :
               Len(step.branches[n]) \in Nat \ {0} /\ DOMAIN step.branches[n] = 1..Len(step.branches[n])
      BY <1>6, BranchFacts
    <2>2. \A k \in 1..nb : 1 \in DOMAIN step.branches[k]
      <3>1. nb = Len(step.branches)
        BY <1>2 DEF Adds, Enters
      <3>2. ASSUME NEW k \in 1..nb PROVE 1 \in DOMAIN step.branches[k]
        <4>1. k \in DOMAIN step.branches
          BY <2>1, <3>1
        <4> DEFINE L == Len(step.branches[k])
        <4>2. L \in Nat \ {0} /\ DOMAIN step.branches[k] = 1..L
          BY <2>1, <4>1
        <4> HIDE DEF L
        <4> QED BY <4>2
      <3> QED BY <3>2
    <2> HIDE DEF id
    <2> QED BY <1>2, <1>3, <2>1, <2>2 DEF IsParallel, Goes, LinesOf, StandsIn
  <1>11. step.type # "parallel" => ~Goes(m2, id) /\ ~IsParallel(m2, id)
    BY <1>3 DEF Goes, IsParallel
  <1> HIDE DEF id, x, step
  <1>12. ActiveBelow(m2)
    <2>1. ASSUME NEW i \in DOMAIN m.runs, IsActive(m2, i) PROVE Goes(m2, m2.runs[i].parent)
      <3>1. Goes(m, m.runs[i].parent)
        BY <1>1, <1>3, <2>1 DEF ActiveBelow
      <3>2. m.runs[i].parent \in {Top} \cup DOMAIN m.runs
        BY <3>1 DEF Goes, IsParallel
      <3> QED BY <1>4, <1>7, <3>1, <3>2
    <2>2. Goes(m2, m2.runs[id].parent)
      BY <1>4, <1>6, <1>7
    <2> QED BY <1>3, <2>1, <2>2 DEF ActiveBelow
  <1>13. OpensInPlace(m2)
    <2>1. Len(m2.runs) + 1 = id + 1
      <3>1. DOMAIN m2.runs = 1..Len(m2.runs) /\ Len(m2.runs) \in Nat
        BY MachineParts
      <3>2. DOMAIN m.runs = 1..Len(m.runs) /\ Len(m.runs) \in Nat /\ DOMAIN m2.runs = 1..(Len(m.runs) + 1)
        BY <1>1, <1>2, MachineParts DEF Adds
      <3>3. Len(m2.runs) = Len(m.runs) + 1
        BY <3>1, <3>2
      <3> QED BY <3>3 DEF id
    <2> SUFFICES ASSUME NEW k \in DOMAIN m2.opens
                 PROVE  LET y == m2.opens[k] IN
                        /\ PlacedBelow(m2, y, id + 1) /\ IsNth(m2, y, RunsAt(m2, y.parent, y.branch))
                        /\ y.parent # Top => AllCompleted(m2, RunsAt(m2, y.parent, y.branch))
                        /\ Goes(m2, y.parent)
      BY <2>1 DEF OpensInPlace
    <2>2. CASE k \in 1..nb
      <3>1. step.type = "parallel"
        BY <1>2, <2>2
      <3> DEFINE y == m2.opens[k]
      <3>2. y.key = step.branches[k][1] /\ y.parent = id /\ y.branch = k
        <4>1. y = Opening(step.branches[k][1], id, k)
          BY <1>2, <2>2
        <4> HIDE DEF y
        <4> QED BY <4>1 DEF Opening
      <3>3. /\ IsParallel(m2, id) /\ Goes(m2, id) /\ k \in LinesOf(m2, id)
            /\ StandsIn(y.key, m2.runs[id].key, k) /\ 1 \in DOMAIN step.branches[k]
        BY <1>4, <1>10, <2>2, <3>1, <3>2
      <3> HIDE DEF y
      <3>4. PlacedBelow(m2, y, id + 1)
        BY <1>3, <3>2, <3>3 DEF PlacedBelow
      <3>5. RunsAt(m2, y.parent, y.branch) = {}
        BY <1>3, <3>2
      <3>6. IsNth(m2, y, {})
        BY <1>3, <3>2, <3>3, FS_EmptySet DEF IsNth
      <3> QED BY <3>2, <3>3, <3>4, <3>5, <3>6 DEF AllCompleted, y
    <2>3. CASE k \notin 1..nb
      <3> DEFINE j == k - nb + 1
                 y == m.opens[j]
      <3>1. j \in DOMAIN m.opens /\ j # 1 /\ m2.opens[k] = y
        BY <1>5, <2>3
      <3> HIDE DEF j
      <3>2. /\ PlacedBelow(m, y, id) /\ IsNth(m, y, RunsAt(m, y.parent, y.branch))
            /\ y.parent # Top => AllCompleted(m, RunsAt(m, y.parent, y.branch))
            /\ Goes(m, y.parent)
        BY <1>1, <3>1 DEF OpensInPlace, id
      <3>3. ~At(x, y.parent, y.branch)
        BY <1>6, <1>8, <3>1 DEF At
      <3>4. RunsAt(m2, y.parent, y.branch) = RunsAt(m, y.parent, y.branch)
        BY <1>3, <3>3
      <3>5. RunsAt(m, y.parent, y.branch) \subseteq DOMAIN m.runs
        BY DEF RunsAt
      <3> HIDE DEF y
      <3>6. id <= id + 1 /\ id + 1 \in Nat
        BY <1>3
      <3>7. /\ PlacedBelow(m2, y, id + 1) /\ IsNth(m2, y, RunsAt(m, y.parent, y.branch))
            /\ y.parent # Top => AllCompleted(m2, RunsAt(m, y.parent, y.branch))
            /\ Goes(m2, y.parent)
        BY <1>2, <1>3, <3>2, <3>5, <3>6, PlaceKept
      <3> QED BY <3>1, <3>4, <3>7
    <2> QED BY <2>2, <2>3
  <1>14. AfterInPlace(m2)
    BY <1>2 DEF AfterInPlace
  <1>15. OneAtATime(m2)
    <2>1. \A p, b : StandsAt(m2, p, b) = {i \in RunsAt(m2, p, b) : IsActive(m2, i)}
      <3>1. \A i \in DOMAIN m2.runs : i # Top
        BY MachineParts DEF Top
      <3> QED BY <1>2, <3>1 DEF StandsAt, RunsAt
    <2>2. \A p, b : StandsAt(m, p, b) = {i \in RunsAt(m, p, b) : IsActive(m, i)}
      <3>1. \A i \in DOMAIN m.runs : i # Top
        BY <1>1, MachineParts DEF Top
      <3> QED BY <1>1, <3>1 DEF StandsAt, RunsAt
    <2>3. \A p, b : StandsAt(m2, p, b) = IF At(x, p, b) THEN StandsAt(m, p, b) \cup {id}
                                                        ELSE StandsAt(m, p, b)
      <3> SUFFICES ASSUME NEW p, NEW b
                   PROVE  StandsAt(m2, p, b) = IF At(x, p, b) THEN StandsAt(m, p, b) \cup {id}
                                                              ELSE StandsAt(m, p, b)
        OBVIOUS
      <3>1. RunsAt(m, p, b) \subseteq DOMAIN m.runs
        BY DEF RunsAt
      <3>2. RunsAt(m2, p, b) = IF At(x, p, b) THEN RunsAt(m, p, b) \cup {id} ELSE RunsAt(m, p, b)
        BY <1>3
      <3>3. \A i \in RunsAt(m, p, b) : IsActive(m2, i) <=> IsActive(m, i)
        BY <1>3, <3>1
      <3>4. IsActive(m2, id)
        BY <1>3
      <3> QED BY <2>1, <2>2, <3>2, <3>3, <3>4
    <2> DEFINE Whole(p, b) ==
           /\ \A i, j \in StandsAt(m2, p, b) : i = j
           /\ \A k, l \in WaitsAt(m2, p, b) : k = l
           /\ StandsAt(m2, p, b) = {} \/ WaitsAt(m2, p, b) = {}
           /\ p # Top /\ BranchDone(m2, p, b) =>
                WaitsAt(m2, p, b) = {} /\ \A i \in StandsAt(m2, p, b) : i = m2.after
           /\ p = Top \/ ~BranchDone(m2, p, b) => StandsAt(m2, p, b) # {} \/ WaitsAt(m2, p, b) # {}
    <2>4. ASSUME NEW p \in {Top} \cup DOMAIN m.runs, Goes(m2, p), NEW b \in LinesOf(m2, p)
          PROVE  Whole(p, b)
      <3>1. Goes(m, p) /\ b \in LinesOf(m, p)
        BY <1>3, <1>7, <2>4
      <3>2. /\ \A i, j \in StandsAt(m, p, b) : i = j
            /\ \A k, l \in WaitsAt(m, p, b) : k = l
            /\ StandsAt(m, p, b) = {} \/ WaitsAt(m, p, b) = {}
            /\ p # Top /\ BranchDone(m, p, b) =>
                 WaitsAt(m, p, b) = {} /\ \A i \in StandsAt(m, p, b) : i = m.after
            /\ p = Top \/ ~BranchDone(m, p, b) => StandsAt(m, p, b) # {} \/ WaitsAt(m, p, b) # {}
        BY <1>1, <3>1 DEF OneAtATime
      <3>3. p # Top => (BranchDone(m2, p, b) <=> BranchDone(m, p, b))
        BY <1>3, <2>4
      <3>4. CASE At(x, p, b)
        <4>1. p = x.parent /\ b = x.branch
          BY <3>4 DEF At
        <4>2. StandsAt(m2, p, b) = {id} /\ (p # Top => ~BranchDone(m2, p, b))
          BY <1>6, <2>3, <3>2, <3>3, <3>4, <4>1
        <4>3. ASSUME NEW k \in WaitsAt(m2, p, b) PROVE FALSE
          <5>1. k - nb + 1 \in WaitsAt(m, p, b) /\ k - nb + 1 # 1
            BY <1>5
          <5> QED BY <1>8, <4>1, <5>1
        <4> QED BY <4>2, <4>3
      <3>5. CASE ~At(x, p, b)
        <4>1. StandsAt(m2, p, b) = StandsAt(m, p, b)
          BY <2>3, <3>5
        <4>2. 1 \notin WaitsAt(m, p, b)
          <5>1. \A k \in WaitsAt(m, p, b) : At(m.opens[k], p, b)
            BY DEF WaitsAt
          <5> QED BY <3>5, <5>1 DEF x
        <4>3. \A k, l \in WaitsAt(m2, p, b) : k = l
          <5> SUFFICES ASSUME NEW k \in WaitsAt(m2, p, b), NEW l \in WaitsAt(m2, p, b) PROVE k = l
            OBVIOUS
          <5>1. k - nb + 1 = l - nb + 1 /\ k \in Nat /\ l \in Nat
            BY <1>5, <3>2
          <5> QED BY <1>5, <5>1
        <4>4. WaitsAt(m2, p, b) = {} <=> WaitsAt(m, p, b) = {}
          BY <1>5, <4>2
        <4> QED BY <1>1, <1>2, <3>2, <3>3, <4>1, <4>3, <4>4
      <3> QED BY <3>4, <3>5
    <2>5. ASSUME Goes(m2, id), NEW b \in LinesOf(m2, id) PROVE Whole(id, b)
      <3>1. step.type = "parallel" /\ b \in 1..nb
        BY <1>10, <1>11, <2>5
      <3>2. StandsAt(m2, id, b) = {}
        BY <1>3, <2>1
      <3>3. WaitsAt(m2, id, b) = {b}
        BY <1>5, <3>1
      <3>4. ~BranchDone(m2, id, b)
        BY <1>3 DEF BranchDone, ChildrenOf, RunsAt, At
      <3> QED BY <3>2, <3>3, <3>4
    <2> QED BY <1>3, <2>4, <2>5 DEF OneAtATime
  <1>16. TopAlone(m2)
    <2>1. WaitsAt(m2, Top, 0) = {}
      <3> SUFFICES ASSUME NEW k \in WaitsAt(m2, Top, 0) PROVE FALSE
        OBVIOUS
      <3>1. k - nb + 1 \in WaitsAt(m, Top, 0) /\ k - nb + 1 # 1
        BY <1>5
      <3>2. \A i \in DOMAIN m.runs : ~IsActive(m, i)
        BY <1>1, <3>1 DEF TopAlone
      <3>3. x.parent = Top /\ x.branch = 0
        BY <1>6, <3>2 DEF Goes, IsParallel, LinesOf
      <3> QED BY <1>8, <3>1, <3>3
    <2> QED BY <1>2, <2>1 DEF TopAlone, IsAfter
  <1>17. JoinsOpen(m2)
    <2> SUFFICES ASSUME NEW q \in DOMAIN m2.runs, IsParallel(m2, q), IsActive(m2, q)
                 PROVE  IF StepOfRun(m2, q).join = "all"
                        THEN \E b \in LinesOf(m2, q) : ~BranchDone(m2, q, b)
                        ELSE \A b \in LinesOf(m2, q) : ~BranchDone(m2, q, b)
      BY DEF JoinsOpen
    <2>1. CASE q = id
      <3>1. \A b : ~BranchDone(m2, id, b)
        BY <1>3 DEF BranchDone, ChildrenOf, RunsAt, At
      <3>2. 1 \in LinesOf(m2, id)
        BY <1>5, <1>10, <1>11, <2>1
      <3> QED BY <2>1, <3>1, <3>2
    <2>2. CASE q # id
      <3>1. q \in DOMAIN m.runs /\ IsParallel(m, q) /\ IsActive(m, q)
        BY <1>3, <2>2
      <3>2. \A b : ~IsAfter(m, q, b)
        BY <1>1 DEF IsAfter
      <3>3. IF StepOfRun(m, q).join = "all"
            THEN \E b \in LinesOf(m, q) : ~BranchDone(m, q, b)
            ELSE \A b \in LinesOf(m, q) : ~BranchDone(m, q, b)
        BY <1>1, <3>1, <3>2 DEF JoinsOpen
      <3> QED BY <1>3, <3>1, <3>3
    <2> QED BY <2>1, <2>2
  <1> QED BY <1>9, <1>12, <1>13, <1>14, <1>15, <1>16, <1>17 DEF BetweenMoves

\* A step of the top line is activated when nothing is active and nothing else
\* is to be opened.
LEMMA AloneAtTop ==
    ASSUME NEW m, MayAdd(m), m.opens[1].key \in TopKeys
    PROVE  /\ m.opens[1].parent = Top /\ m.opens[1].branch = 0
           /\ Tail(m.opens) = <<>> /\ Len(m.opens) = 1
           /\ \A i \in DOMAIN m.runs : ~IsActive(m, i)
  <1> DEFINE x == m.opens[1]
  <1>1. /\ m \in Machines /\ OpensInPlace(m) /\ OneAtATime(m) /\ TopAlone(m)
    BY DEF MayAdd, BetweenMoves
  <1>2. /\ 1 \in DOMAIN m.opens /\ DOMAIN m.opens = 1..Len(m.opens) /\ Len(m.opens) \in Nat
        /\ \A k \in DOMAIN m.opens :
             LET y == m.opens[k] IN
             /\ y.parent = Top \/ y.parent \in DOMAIN m.runs
             /\ y.branch \in LinesOf(m, y.parent) /\ Goes(m, y.parent)
             /\ k \in WaitsAt(m, y.parent, y.branch)
        /\ m.status = "running"
    BY OpeningFacts
  <1>3. x.parent = Top /\ x.branch = 0
    <2>1. PlacedBelow(m, x, Len(m.runs) + 1)
      BY <1>1, <1>2 DEF OpensInPlace
    <2> SUFFICES ASSUME x.parent # Top PROVE FALSE
      BY <2>1 DEF PlacedBelow
    <2>2. /\ x.parent \in DOMAIN m.runs /\ StepOfRun(m, x.parent).type = "parallel"
          /\ x.branch \in DOMAIN StepOfRun(m, x.parent).branches
          /\ StandsIn(x.key, m.runs[x.parent].key, x.branch)
      BY <2>1 DEF PlacedBelow, IsParallel, LinesOf
    <2> DEFINE k == m.runs[x.parent].key
    <2>3. k \in StepKeys
      BY <1>1, <2>2, MachineParts
    <2>4. k \in KeysOfType({"parallel"}) /\ x.branch \in DOMAIN Definition[k].branches
      BY <2>2, <2>3 DEF KeysOfType, StepOfRun
    <2>5. x.key \in InBranches
      <3>1. x.key \in StepKeys
        BY DEF TopKeys
      <3> HIDE DEF k, x
      <3> QED BY <2>2, <2>4, <3>1 DEF InBranches, k
    <2> QED BY <2>5 DEF TopKeys
  <1>4. \A i \in DOMAIN m.runs : ~IsActive(m, i)
    <2>1. 1 \in WaitsAt(m, Top, 0)
      BY <1>2, <1>3
    <2> QED BY <1>1, <2>1 DEF TopAlone
  <1>5. \A k \in DOMAIN m.opens : k = 1
    <2> SUFFICES ASSUME NEW k \in DOMAIN m.opens PROVE k = 1
      OBVIOUS
    <2>1. m.opens[k].parent = Top
      BY <1>2, <1>4 DEF Goes, IsParallel
    <2>2. m.opens[k].branch = 0 /\ 0 \in LinesOf(m, Top) /\ Goes(m, Top)
      BY <1>2, <2>1 DEF LinesOf
    <2>3. k \in WaitsAt(m, Top, 0) /\ 1 \in WaitsAt(m, Top, 0)
      BY <1>2, <1>3, <2>1, <2>2
    <2> QED BY <1>1, <2>2, <2>3 DEF OneAtATime
  <1>6. Len(m.opens) = 1
    <2>1. Len(m.opens) \in DOMAIN m.opens
      BY <1>2
    <2> QED BY <1>5, <2>1
  <1>7. Tail(m.opens) = <<>>
    <2>1. m.opens \in Seq(Places)
      BY <1>1, MachineParts
    <2>2. Tail(m.opens) \in Seq(Places) /\ Len(Tail(m.opens)) = 0
      BY <1>6, <2>1
    <2> QED BY <2>2, EmptySeq
  <1> QED BY <1>3, <1>4, <1>6, <1>7

\* The machine with the new run, before anything follows.
WithNext(m) ==
    [m EXCEPT !.opens = Tail(m.opens),
              !.runs = Append(m.runs, [key |-> Head(m.opens).key, parent |-> Head(m.opens).parent,
                         branch |-> Head(m.opens).branch, round |-> m.round, status |-> "active"])]

\* What it consists of.
LEMMA WithNextParts ==
    ASSUME NEW m, MayAdd(m)
    PROVE  LET m1 == WithNext(m) IN
           /\ m1 \in Machines /\ Adds(m, m1) /\ WorkIsOfRuns(m1)
           /\ m1.status = m.status /\ m1.round = m.round /\ m1.work = m.work
           /\ m1.after = Top /\ m1.opens = Tail(m.opens)
  <1> DEFINE m1 == WithNext(m)
             x == Head(m.opens)
             y == [key |-> x.key, parent |-> x.parent, branch |-> x.branch, round |-> m.round,
                   status |-> "active"]
  <1>1. /\ m \in Machines /\ m.runs \in Seq(Runs) /\ m.opens \in Seq(Places) /\ m.opens # <<>>
        /\ Len(m.runs) \in Nat /\ DOMAIN m.runs = 1..Len(m.runs)
        /\ m.after = Top /\ WorkIsOfRuns(m) /\ m.round \in Nat
    BY MachineParts DEF MayAdd, BetweenMoves
  <1>2. x = m.opens[1] /\ x.key \in StepKeys /\ x.parent \in Nat /\ x.branch \in Nat
    BY <1>1, OpeningFacts
  <1>3. Tail(m.opens) \in Seq(Places)
    BY <1>1
  <1>4. y \in Runs
    BY <1>1, <1>2 DEF Runs
  <1>5. y.key = x.key /\ y.parent = x.parent /\ y.branch = x.branch /\ y.status = "active"
    OBVIOUS
  <1> HIDE DEF y
  <1>6. /\ Append(m.runs, y) \in Seq(Runs)
        /\ DOMAIN Append(m.runs, y) = 1..(Len(m.runs) + 1)
        /\ \A i \in DOMAIN m.runs : Append(m.runs, y)[i] = m.runs[i]
        /\ Append(m.runs, y)[Len(m.runs) + 1] = y
    BY <1>1, <1>4
  <1>7. m1 = [m EXCEPT !.opens = Tail(m.opens), !.runs = Append(m.runs, y)]
    BY DEF WithNext, y
  <1> HIDE DEF m1, x
  <1>8. /\ m1 \in Machines /\ m1.runs = Append(m.runs, y) /\ m1.opens = Tail(m.opens)
        /\ m1.status = m.status /\ m1.round = m.round /\ m1.work = m.work /\ m1.after = m.after
    BY <1>1, <1>3, <1>6, <1>7 DEF Machines
  <1>9. Adds(m, m1)
    BY <1>2, <1>5, <1>6, <1>8 DEF Adds
  <1>10. WorkIsOfRuns(m1)
    BY <1>1, <1>6, <1>8 DEF WorkIsOfRuns
  <1> QED BY <1>1, <1>8, <1>9, <1>10 DEF m1

\* Activating the next step leads to between two moves.
LEMMA ActivateKeeps ==
    ASSUME NEW m, MayAdd(m), NEW holds
    PROVE  BetweenMoves(ActivateRun(m, holds))
  <1> DEFINE m1 == WithNext(m)
             x == Head(m.opens)
             step == Definition[x.key]
             id == Len(m.runs) + 1
             target == IF x.key \in holds THEN step.then ELSE step.else
  <1>1. /\ m1 \in Machines /\ Adds(m, m1) /\ WorkIsOfRuns(m1)
        /\ m1.status = m.status /\ m1.round = m.round /\ m1.work = m.work
        /\ m1.after = Top /\ m1.opens = Tail(m.opens)
    BY WithNextParts
  <1>2. /\ RunsInPlace(m1) /\ JoinsPassed(m1)
    BY <1>1, AddKeeps
  <1>3. /\ m \in Machines /\ m.opens \in Seq(Places) /\ m.opens # <<>> /\ m.status = "running"
        /\ Len(m.opens) \in Nat /\ DOMAIN m.opens = 1..Len(m.opens) /\ 1 \in DOMAIN m.opens
        /\ x = m.opens[1] /\ x.key \in StepKeys
    BY MachineParts, OpeningFacts DEF MayAdd
  <1>4. /\ id \in Nat /\ DOMAIN m1.runs = DOMAIN m.runs \cup {id} /\ id \in DOMAIN m1.runs
        /\ StepOfRun(m1, id) = step
        /\ \A i \in DOMAIN m.runs : IsActive(m1, i) <=> IsActive(m, i)
    BY <1>1, <1>3, AddLeaves
  <1>5. ActivateRun(m, holds) =
          CASE step.type = "end" -> FinishRoute(CompleteRun(m1, id), "finished")
            [] step.type = "condition" ->
                 [CompleteRun(m1, id) EXCEPT !.opens = <<Opening(target, x.parent, x.branch)>> \o m1.opens]
            [] step.type = "parallel" -> [m1 EXCEPT !.opens = Branches(id, step) \o m1.opens]
            [] OTHER -> [m1 EXCEPT !.work = Append(m.work, id)]
    BY DEF ActivateRun, WithNext
  <1>6. step.type \in {"end", "condition"} =>
          /\ x.key \in TopKeys /\ x.parent = Top /\ x.branch = 0 /\ m1.opens = <<>>
          /\ \A i \in DOMAIN m.runs : ~IsActive(m, i)
    <2>1. step.type \in {"end", "condition"} => x.key \in TopKeys
      BY <1>3, StepFacts
    <2> HIDE DEF step, m1
    <2> QED BY <1>1, <1>3, <2>1, AloneAtTop
  <1> DEFINE m2 == CompleteRun(m1, id)
  <1> HIDE DEF m1, step, id
  <1>7. /\ m2 \in Machines /\ SamePlaces(m1, m2) /\ KeepsCompleted(m1, m2)
        /\ \A i \in DOMAIN m1.runs :
             m2.runs[i].status = IF i = id THEN "completed" ELSE m1.runs[i].status
        /\ m2.status = m1.status /\ m2.work = m1.work /\ m2.after = m1.after /\ m2.opens = m1.opens
    BY <1>1, <1>4, CompleteParts
  <1>8. step.type # "parallel" => RunsInPlace(m2) /\ JoinsPassed(m2) /\ WorkIsOfRuns(m2)
    BY <1>1, <1>2, <1>4, CompleteKeeps DEF IsParallel
  <1>9. CASE step.type = "end"
    <2>1. ActivateRun(m, holds) = FinishRoute(m2, "finished")
      BY <1>5, <1>9
    <2> HIDE DEF m2
    <2>2. BetweenMoves(FinishRoute(m2, "finished"))
      BY <1>1, <1>6, <1>7, <1>8, <1>9, FinishClears
    <2> QED BY <2>1, <2>2
  <1>10. CASE step.type = "condition"
    <2> DEFINE m3 == [m2 EXCEPT !.opens = <<Opening(target, Top, 0)>>]
    <2>1. ActivateRun(m, holds) = m3
      <3>1. ActivateRun(m, holds) = [m2 EXCEPT !.opens = <<Opening(target, x.parent, x.branch)>> \o m1.opens]
        BY <1>5, <1>10
      <3>2. <<Opening(target, x.parent, x.branch)>> \o m1.opens = <<Opening(target, Top, 0)>>
        <4>1. \A y : <<y>> \o <<>> = <<y>>
          OBVIOUS
        <4>2. m1.opens = <<>> /\ Opening(target, x.parent, x.branch) = Opening(target, Top, 0)
          BY <1>6, <1>10
        <4> QED BY <4>1, <4>2
      <3> QED BY <3>1, <3>2
    <2>2. target \in TopKeys
      BY <1>3, <1>10, StepFacts DEF step
    <2> HIDE DEF m2, target
    <2>3. <<Opening(target, Top, 0)>> \in Seq(Places)
      BY <2>2 DEF Opening, Places, TopKeys, Top
    <2>4. /\ m3 \in Machines /\ m3.runs = m2.runs /\ m3.status = m2.status /\ m3.work = m2.work
          /\ m3.after = m2.after /\ m3.opens = <<Opening(target, Top, 0)>>
      BY <1>7, <2>3 DEF Machines
    <2> HIDE DEF m3
    <2>5. \A i \in DOMAIN m2.runs : ~IsActive(m3, i)
      <3>1. DOMAIN m2.runs = DOMAIN m.runs \cup {id}
        BY <1>4, <1>7 DEF SamePlaces
      <3>2. m3.runs[id].status = "completed"
        BY <1>4, <1>7, <2>4
      <3>3. ASSUME NEW i \in DOMAIN m.runs PROVE m3.runs[i].status # "active" \/ i = id
        BY <1>4, <1>6, <1>7, <1>10, <2>4 DEF IsActive
      <3> QED BY <3>1, <3>2, <3>3 DEF IsActive
    <2>6. Clears(m2, m3)
      BY <1>1, <1>3, <1>7, <2>2, <2>4, <2>5 DEF Clears, SamePlaces, KeepsCompleted
    <2>7. WorkIsOfRuns(m3)
      BY <1>8, <1>10, <2>4 DEF WorkIsOfRuns
    <2>8. BetweenMoves(m3)
      BY <1>7, <1>8, <1>10, <2>4, <2>6, <2>7, ClearedUp
    <2> QED BY <2>1, <2>8
  <1>11. CASE step.type = "parallel"
    <2> DEFINE B == Branches(id, step)
               m3 == [m1 EXCEPT !.opens = B \o m1.opens]
    <2>1. ActivateRun(m, holds) = m3
      BY <1>5, <1>11
    <2>2. /\ Len(step.branches) \in Nat \ {0} /\ DOMAIN step.branches = 1..Len(step.branches)
          /\ \A n \in DOMAIN step.branches :
               /\ step.branches[n] \in Seq(StepKeys) /\ Len(step.branches[n]) \in Nat \ {0}
      BY <1>3, <1>11, BranchFacts DEF step
    <2>3. \A n \in DOMAIN step.branches : Opening(step.branches[n][1], id, n) \in Places
      <3> SUFFICES ASSUME NEW n \in DOMAIN step.branches
                   PROVE  Opening(step.branches[n][1], id, n) \in Places
        OBVIOUS
      <3>1. n \in Nat /\ step.branches[n][1] \in StepKeys
        BY <2>2
      <3> QED BY <1>4, <3>1 DEF Opening, Places
    <2>4. B \in [1..Len(step.branches) -> Places]
      BY <2>2, <2>3 DEF Branches
    <2>5. B \in Seq(Places) /\ Len(B) = Len(step.branches)
      BY <2>2, <2>4, SeqDef, LenProperties
    <2>6. \A k \in 1..Len(step.branches) : B[k] = Opening(step.branches[k][1], id, k)
      BY <2>2 DEF Branches
    <2> HIDE DEF B
    <2>7. Tail(m.opens) \in Seq(Places) /\ Len(Tail(m.opens)) = Len(m.opens) - 1
          /\ \A k \in 1..(Len(m.opens) - 1) : Tail(m.opens)[k] = m.opens[k + 1]
      BY <1>3
    <2>8. /\ B \o m1.opens \in Seq(Places)
          /\ DOMAIN (B \o m1.opens) = 1..(Len(B) + Len(m.opens) - 1)
          /\ \A k \in 1..Len(B) : (B \o m1.opens)[k] = B[k]
          /\ \A k \in DOMAIN (B \o m1.opens) : k > Len(B) => (B \o m1.opens)[k] = m.opens[k - Len(B) + 1]
      <3> DEFINE T == Tail(m.opens)
      <3> HIDE DEF T
      <3>1. T \in Seq(Places) /\ Len(T) = Len(m.opens) - 1 /\ m1.opens = T
            /\ \A k \in 1..(Len(m.opens) - 1) : T[k] = m.opens[k + 1]
        BY <1>1, <2>7 DEF T
      <3>2. /\ B \o T \in Seq(Places) /\ Len(B \o T) = Len(B) + Len(T)
            /\ \A k \in 1..(Len(B) + Len(T)) :
                 (B \o T)[k] = IF k <= Len(B) THEN B[k] ELSE T[k - Len(B)]
        <4>1. B \in Seq(Places) /\ T \in Seq(Places)
          BY <2>5, <3>1
        <4> QED BY <4>1
      <3>3. DOMAIN (B \o T) = 1..(Len(B) + Len(m.opens) - 1) /\ Len(B) \in Nat
        <4>1. DOMAIN (B \o T) = 1..Len(B \o T) /\ Len(B) \in Nat
          BY <2>5, <3>2
        <4>2. Len(B \o T) = Len(B) + Len(m.opens) - 1
          BY <1>3, <3>1, <3>2, <4>1
        <4> QED BY <4>1, <4>2
      <3>4. \A k \in 1..Len(B) : (B \o T)[k] = B[k]
        BY <1>3, <3>1, <3>2, <3>3
      <3>5. ASSUME NEW k \in DOMAIN (B \o T), k > Len(B) PROVE (B \o T)[k] = m.opens[k - Len(B) + 1]
        <4>1. k - Len(B) \in 1..(Len(m.opens) - 1) /\ k \in 1..(Len(B) + Len(T)) /\ ~(k <= Len(B))
          BY <1>3, <3>1, <3>3, <3>5
        <4> QED BY <3>1, <3>2, <4>1
      <3> QED BY <3>1, <3>2, <3>3, <3>4, <3>5
    <2>9. /\ m3 \in Machines /\ m3.runs = m1.runs /\ m3.status = m1.status /\ m3.work = m1.work
          /\ m3.after = m1.after /\ m3.opens = B \o m1.opens
      BY <1>1, <2>8 DEF Machines
    <2> HIDE DEF m3
    <2>10. Adds(m, m3)
      BY <1>1, <2>9 DEF Adds
    <2>11. Enters(m, m3, Len(step.branches))
      BY <1>1, <1>3, <1>11, <2>5, <2>6, <2>8, <2>9, <2>10 DEF Enters, step, id
    <2>12. WorkIsOfRuns(m3)
      BY <1>1, <2>9 DEF WorkIsOfRuns
    <2>13. BetweenMoves(m3)
      BY <2>9, <2>11, <2>12, Entered
    <2> QED BY <2>1, <2>13
  <1>12. CASE step.type \notin {"end", "condition", "parallel"}
    <2> DEFINE m3 == [m1 EXCEPT !.work = Append(m.work, id)]
    <2>1. ActivateRun(m, holds) = m3
      BY <1>5, <1>12
    <2>2. m.work \in Seq(Nat) /\ Append(m.work, id) \in Seq(Nat)
      BY <1>3, <1>4, MachineParts
    <2>3. /\ m3 \in Machines /\ m3.runs = m1.runs /\ m3.status = m1.status
          /\ m3.work = Append(m.work, id) /\ m3.after = m1.after /\ m3.opens = m1.opens
      BY <1>1, <2>2 DEF Machines
    <2> HIDE DEF m3
    <2>4. Adds(m, m3)
      BY <1>1, <2>3 DEF Adds
    <2>5. /\ DOMAIN Tail(m.opens) = 1..(Len(m.opens) - 1)
          /\ \A k \in 1..(Len(m.opens) - 1) : Tail(m.opens)[k] = m.opens[k + 1]
      BY <1>3
    <2>6. Enters(m, m3, 0)
      <3>1. DOMAIN m3.opens = 1..(0 + Len(m.opens) - 1)
        BY <1>1, <1>3, <2>3, <2>5
      <3>2. \A k \in DOMAIN m3.opens : m3.opens[k] = m.opens[k - 0 + 1]
        BY <1>1, <1>3, <2>3, <2>5
      <3> QED BY <1>1, <1>3, <1>12, <2>3, <2>4, <3>1, <3>2 DEF Enters, step
    <2>7. WorkIsOfRuns(m3)
      <3> SUFFICES ASSUME NEW k \in DOMAIN m3.work PROVE m3.work[k] \in DOMAIN m3.runs
        BY DEF WorkIsOfRuns
      <3>1. CASE k \in DOMAIN m.work
        BY <1>1, <2>2, <2>3, <3>1 DEF WorkIsOfRuns
      <3>2. CASE k \notin DOMAIN m.work
        <4>1. m3.work[k] = id
          BY <2>2, <2>3, <3>2
        <4> QED BY <1>4, <2>3, <4>1
      <3> QED BY <3>1, <3>2
    <2>8. BetweenMoves(m3)
      BY <2>3, <2>6, <2>7, Entered
    <2> QED BY <2>1, <2>8
  <1> QED BY <1>9, <1>10, <1>11, <1>12

\* The active runs below a run, as they are gathered in one pass.
LEMMA DescendantsAreBelow ==
    ASSUME NEW m \in Machines, RunsInPlace(m), NEW p \in DOMAIN m.runs
    PROVE  Below(m, p, Descendants(m, p))
  <1> DEFINE N == Len(m.runs)
             Step(f) == [i \in 0..N |-> IF i = 0 THEN {} ELSE Gather(m, p, f[i - 1], i)]
             found == CHOOSE f : f = Step(f)
  <1>1. /\ N \in Nat /\ DOMAIN m.runs = 1..N
        /\ \A i \in DOMAIN m.runs : i \in Nat /\ m.runs[i].parent \in Nat /\ m.runs[i].parent < i
    BY MachineParts, ParentFacts
  <1>2. found = Step(found)
    <2> DEFINE M == SUBSET Nat
               F == [x \in Nat \X M |-> Gather(m, p, x[2], x[1])]
    <2>1. ASSUME NEW x \in Nat \X M PROVE Gather(m, p, x[2], x[1]) \in M
      BY DEF Gather
    <2>2. F \in [Nat \X M -> M]
      BY <2>1
    <2>3. {} \in M
      OBVIOUS
    <2>4. \A n \in Nat, y \in M : F[<<n, y>>] = Gather(m, p, y, n)
      OBVIOUS
    <2> HIDE DEF M, F, N
    <2>5. PICK g \in [0..N -> M] : GoesOn(g, N, {}, F)
      BY <1>1, <2>2, <2>3, StepByStep
    <2>6. g = Step(g)
      <3>1. ASSUME NEW i \in 0..N PROVE g[i] = IF i = 0 THEN {} ELSE Gather(m, p, g[i - 1], i)
        <4>1. CASE i = 0
          BY <2>5, <4>1 DEF GoesOn
        <4>2. CASE i # 0
          <5>1. i \in 1..N /\ i - 1 \in 0..N /\ i \in Nat
            BY <1>1, <4>2
          <5>2. g[i - 1] \in M
            BY <5>1
          <5>3. g[i] = Gather(m, p, g[i - 1], i)
            BY <2>4, <2>5, <5>1, <5>2 DEF GoesOn
          <5> QED BY <4>2, <5>3
        <4> QED BY <4>1, <4>2
      <3> QED BY <3>1
    <2> HIDE DEF Step
    <2> QED BY <2>6
  <1>3. Descendants(m, p) = found[N]
    BY DEF Descendants
  <1> HIDE DEF found
  <1>4. found[0] = {} /\ \A i \in 1..N : found[i] = Gather(m, p, found[i - 1], i)
    <2>1. \A i \in 0..N : found[i] = IF i = 0 THEN {} ELSE Gather(m, p, found[i - 1], i)
      BY <1>2
    <2>2. 0 \in 0..N /\ \A i \in 1..N : i \in 0..N /\ i # 0
      BY <1>1
    <2> QED BY <2>1, <2>2
  <1> DEFINE Holds(i) ==
               /\ found[i] \subseteq 1..i
               /\ \A j \in found[i] : IsActive(m, j) /\ m.runs[j].parent \in {p} \cup found[i]
               /\ \A j \in 1..i : IsActive(m, j) /\ m.runs[j].parent \in {p} \cup found[i] => j \in found[i]
             S == {i \in 0..N : Holds(i)}
  <1>5. 0 \in S
    BY <1>1, <1>4
  <1>6. ASSUME NEW n \in 1..N, n - 1 \in S PROVE n \in S
    <2> DEFINE was == found[n - 1]
               is == found[n]
    <2>1. is = was \cup {j \in {n} : IsActive(m, j) /\ m.runs[j].parent \in {p} \cup was}
      BY <1>4 DEF Gather
    <2>2. /\ was \subseteq 1..(n - 1)
          /\ \A j \in was : IsActive(m, j) /\ m.runs[j].parent \in {p} \cup was
          /\ \A j \in 1..(n - 1) : IsActive(m, j) /\ m.runs[j].parent \in {p} \cup was => j \in was
      BY <1>6
    <2>3. \A j \in 1..n : j \in DOMAIN m.runs /\ m.runs[j].parent \in Nat /\ m.runs[j].parent < j
      BY <1>1
    <2> HIDE DEF was, is
    <2>4. is \subseteq 1..n /\ was \subseteq is
      <3>1. \A j \in 1..(n - 1) : j \in 1..n
        BY <1>1
      <3>2. n \in 1..n
        BY <1>1
      <3>3. \A j \in is : j \in was \/ j = n
        BY <2>1
      <3> QED BY <2>1, <2>2, <3>1, <3>2, <3>3
    <2>5. ASSUME NEW j \in is PROVE IsActive(m, j) /\ m.runs[j].parent \in {p} \cup is
      BY <2>1, <2>2, <2>4
    <2>6. ASSUME NEW j \in 1..n, IsActive(m, j), m.runs[j].parent \in {p} \cup is PROVE j \in is
      <3>1. m.runs[j].parent # n
        BY <2>3
      <3>2. m.runs[j].parent \in {p} \cup was
        BY <2>1, <2>6, <3>1
      <3>3. CASE j = n
        BY <2>1, <2>6, <3>2, <3>3
      <3>4. CASE j # n
        <4>1. j \in 1..(n - 1)
          BY <3>4
        <4> QED BY <2>2, <2>4, <2>6, <3>2, <4>1
      <3> QED BY <3>3, <3>4
    <2>7. Holds(n)
      BY <2>4, <2>5, <2>6 DEF is
    <2>8. n \in 0..N
      BY <1>1
    <2> QED BY <2>7, <2>8
  <1>7. N \in S
    <2> HIDE DEF S
    <2>1. 0..N \subseteq S
      BY <1>1, <1>5, <1>6, UpTo
    <2> QED BY <1>1, <2>1
  <1>8. Holds(N)
    BY <1>7
  <1> QED BY <1>1, <1>3, <1>8 DEF Below

\* The run to go on after, and its line.
LEMMA AfterFacts ==
    ASSUME NEW m, BetweenMoves(m), m.after # Top
    PROVE  LET a == m.after  q == m.runs[a].parent  b == m.runs[a].branch IN
           /\ m \in Machines /\ m.status = "running" /\ m.opens = <<>>
           /\ a \in DOMAIN m.runs /\ m.runs[a].status = "completed" /\ ~IsActive(m, a)
           /\ StepOfRun(m, a).type \notin {"end", "condition"}
           /\ a \in RunsAt(m, q, b) /\ b \in LinesOf(m, q) /\ Goes(m, q) /\ a \in StandsAt(m, q, b)
           /\ q = Top => m.runs[a].key \in TopKeys /\ b = 0
           /\ q # Top => /\ q \in DOMAIN m.runs /\ IsParallel(m, q) /\ IsActive(m, q) /\ b \in DOMAIN StepOfRun(m, q).branches
                         /\ \A i \in RunsAt(m, q, b) : i <= a
                         /\ LET keys == StepOfRun(m, q).branches[b] IN
                            m.runs[a].key = keys[Len(keys)] \/ ~BranchDone(m, q, b)
  <1>1. m \in Machines /\ RunsInPlace(m) /\ TopAlone(m) /\ AfterInPlace(m)
    BY DEF BetweenMoves
  <1>2. /\ m.after \in DOMAIN m.runs /\ m.runs[m.after].status = "completed" /\ m.opens = <<>>
        /\ m.status = "running" /\ StepOfRun(m, m.after).type \notin {"end", "condition"}
    BY <1>1 DEF TopAlone, AfterInPlace
  <1> DEFINE a == m.after
             q == m.runs[a].parent
             b == m.runs[a].branch
  <1>3. /\ Goes(m, q)
        /\ q # Top => /\ \A i \in RunsAt(m, q, b) : i <= a
                      /\ LET keys == StepOfRun(m, q).branches[b] IN
                         m.runs[a].key = keys[Len(keys)] \/ ~BranchDone(m, q, b)
    BY <1>1 DEF AfterInPlace
  <1>4. /\ q = Top => b = 0 /\ m.runs[a].key \in TopKeys
        /\ b \in LinesOf(m, q) /\ a \in RunsAt(m, q, b)
    BY <1>1, <1>2, ParentFacts
  <1>5. a \in StandsAt(m, q, b)
    BY <1>4 DEF StandsAt
  <1>6. q # Top => q \in DOMAIN m.runs /\ IsParallel(m, q) /\ IsActive(m, q) /\ b \in DOMAIN StepOfRun(m, q).branches
    BY <1>3, <1>4 DEF Goes, IsParallel, LinesOf
  <1>7. ~IsActive(m, a)
    BY <1>2 DEF IsActive
  <1> HIDE DEF a, q, b
  <1> QED BY <1>1, <1>2, <1>3, <1>4, <1>5, <1>6, <1>7 DEF a, q, b

\* Nothing but the calls to be made changes: the next step of the branch is to
\* be opened, or nothing is.
StaysInBranch(m, m2) ==
    LET q == m.runs[m.after].parent
        b == m.runs[m.after].branch
        keys == StepOfRun(m, q).branches[b]
    IN /\ m2.runs = m.runs /\ m2.status = m.status /\ m2.work = m.work /\ m2.after = Top
       /\ \/ \E n \in 1..(Len(keys) - 1) :
               m.runs[m.after].key = keys[n] /\ m2.opens = <<Opening(keys[n + 1], q, b)>>
          \/ m.runs[m.after].key = keys[Len(keys)] /\ ~JoinIsDue(m, q) /\ m2.opens = <<>>

\* Such a move leads to between two moves.
LEMMA BranchGoesOn ==
    ASSUME NEW m, BetweenMoves(m), m.after # Top, m.runs[m.after].parent # Top,
           NEW m2 \in Machines, StaysInBranch(m, m2)
    PROVE  BetweenMoves(m2)
  <1> DEFINE a == m.after
             q == m.runs[a].parent
             b == m.runs[a].branch
             keys == StepOfRun(m, q).branches[b]
  <1>1. /\ m \in Machines /\ m.status = "running" /\ m.opens = <<>>
        /\ a \in DOMAIN m.runs /\ m.runs[a].status = "completed" /\ ~IsActive(m, a)
        /\ a \in RunsAt(m, q, b) /\ b \in LinesOf(m, q) /\ Goes(m, q) /\ a \in StandsAt(m, q, b)
        /\ q # Top /\ q \in DOMAIN m.runs /\ IsParallel(m, q) /\ IsActive(m, q)
        /\ b \in DOMAIN StepOfRun(m, q).branches
        /\ \A i \in RunsAt(m, q, b) : i <= a
        /\ m.runs[a].key = keys[Len(keys)] \/ ~BranchDone(m, q, b)
    BY AfterFacts
  <1>2. /\ RunsInPlace(m) /\ ActiveBelow(m) /\ OneAtATime(m) /\ TopAlone(m) /\ JoinsPassed(m)
        /\ JoinsOpen(m) /\ WorkIsOfRuns(m)
    BY DEF BetweenMoves
  <1>3. /\ keys \in Seq(StepKeys) /\ Len(keys) \in Nat \ {0} /\ DOMAIN keys = 1..Len(keys)
        /\ \A i, j \in DOMAIN keys : keys[i] = keys[j] => i = j
        /\ \A i \in DOMAIN keys : keys[i] \in StepKeys \ TopKeys
    <2>1. m.runs[q].key \in StepKeys /\ Definition[m.runs[q].key].type = "parallel"
      BY <1>1, MachineParts DEF IsParallel, StepOfRun
    <2> QED BY <1>1, <2>1, BranchFacts DEF StepOfRun
  <1>4. \/ \E n \in 1..(Len(keys) - 1) :
             m.runs[a].key = keys[n] /\ m2.opens = <<Opening(keys[n + 1], q, b)>>
        \/ m.runs[a].key = keys[Len(keys)] /\ ~JoinIsDue(m, q) /\ m2.opens = <<>>
    BY DEF StaysInBranch
  <1>5. m2.runs = m.runs /\ m2.status = m.status /\ m2.work = m.work /\ m2.after = Top
    BY DEF StaysInBranch
  <1>6. SamePlaces(m, m2)
    BY <1>5 DEF SamePlaces
  <1>7. /\ \A i : IsActive(m2, i) <=> IsActive(m, i)
        /\ \A p : Goes(m2, p) <=> Goes(m, p)
        /\ \A p : IsParallel(m2, p) <=> IsParallel(m, p)
        /\ \A i : StepOfRun(m2, i) = StepOfRun(m, i)
        /\ \A p : LinesOf(m2, p) = LinesOf(m, p)
        /\ \A p, c : RunsAt(m2, p, c) = RunsAt(m, p, c)
        /\ \A p, c : BranchDone(m2, p, c) <=> BranchDone(m, p, c)
        /\ \A S : AllCompleted(m2, S) <=> AllCompleted(m, S)
    BY <1>5 DEF IsActive, Goes, IsParallel, StepOfRun, LinesOf, RunsAt, BranchDone, ChildrenOf, AllCompleted
  <1> HIDE DEF a, q, b, keys
  <1>8. RunsInPlace(m2)
    BY <1>5, <1>1, <1>2, <1>6, OrderStays DEF KeepsCompleted
  <1>9. ActiveBelow(m2)
    BY <1>5, <1>2, <1>7 DEF ActiveBelow
  <1>10. WorkIsOfRuns(m2)
    BY <1>5, <1>2 DEF WorkIsOfRuns
  <1>11. AfterInPlace(m2)
    BY <1>5 DEF AfterInPlace
  <1>12. JoinsPassed(m2)
    <2>1. ASSUME NEW p, MayPass(m, p) PROVE MayPass(m2, p)
      BY <1>7, <2>1 DEF MayPass
    <2> QED BY <1>5, <1>2, <1>7, <2>1 DEF JoinsPassed
  <1>13. ASSUME \A p \in DOMAIN m.runs : IsParallel(m, p) /\ IsActive(m, p) =>
                   IF StepOfRun(m, p).join = "all"
                   THEN \E c \in LinesOf(m, p) : ~BranchDone(m, p, c)
                   ELSE \A c \in LinesOf(m, p) : ~BranchDone(m, p, c)
         PROVE  JoinsOpen(m2)
    <2> SUFFICES ASSUME NEW p \in DOMAIN m.runs, IsParallel(m2, p), IsActive(m2, p)
                 PROVE  IF StepOfRun(m2, p).join = "all"
                        THEN \E c \in LinesOf(m2, p) : ~BranchDone(m2, p, c)
                        ELSE \A c \in LinesOf(m2, p) : ~BranchDone(m2, p, c)
      BY <1>5 DEF JoinsOpen
    <2>1. /\ IsParallel(m, p) /\ IsActive(m, p) /\ LinesOf(m2, p) = LinesOf(m, p)
          /\ StepOfRun(m2, p) = StepOfRun(m, p)
      BY <1>7
    <2>2. \A c : BranchDone(m2, p, c) <=> BranchDone(m, p, c)
      BY <1>7
    <2> QED BY <1>13, <2>1, <2>2
  <1>14. \A p, c : IsAfter(m, p, c) => p = q /\ c = b
    BY DEF IsAfter, At, a, q, b
  <1>15. \A i \in StandsAt(m, q, b) : i = a
    BY <1>1, <1>2 DEF OneAtATime
  \* Where the line stood it stands no more; elsewhere it stands as it did.
  <1>16. \A p, c : StandsAt(m2, p, c) = StandsAt(m, p, c) \ {a}
    <2> SUFFICES ASSUME NEW p, NEW c PROVE StandsAt(m2, p, c) = StandsAt(m, p, c) \ {a}
      OBVIOUS
    <2>1. \A i \in RunsAt(m, p, c) : i # Top
      BY <1>1, MachineParts DEF RunsAt, Top
    <2> QED BY <1>5, <1>1, <1>7, <2>1 DEF StandsAt, a
  <1>17. ASSUME NEW p, NEW c, p # q \/ c # b PROVE StandsAt(m2, p, c) = StandsAt(m, p, c)
    <2>1. a \notin StandsAt(m, p, c)
      BY <1>17 DEF StandsAt, RunsAt, At, q, b
    <2> QED BY <1>16, <2>1
  <1>18. StandsAt(m2, q, b) = {}
    BY <1>15, <1>16
  \* The rest differs.
  <1>19. CASE \E n \in 1..(Len(keys) - 1) :
                m.runs[a].key = keys[n] /\ m2.opens = <<Opening(keys[n + 1], q, b)>>
    <2>1. PICK n \in 1..(Len(keys) - 1) :
                m.runs[a].key = keys[n] /\ m2.opens = <<Opening(keys[n + 1], q, b)>>
      BY <1>19
    <2>2. n \in DOMAIN keys /\ n + 1 \in DOMAIN keys /\ n # Len(keys) /\ Len(keys) \in DOMAIN keys /\ n \in Nat
      <3>1. Len(keys) \in Nat /\ Len(keys) # 0 /\ DOMAIN keys = 1..Len(keys)
        BY <1>3
      <3> DEFINE L == Len(keys)
      <3> HIDE DEF L
      <3>2. L \in Nat /\ L # 0 /\ n \in 1..(L - 1)
        BY <3>1 DEF L
      <3>3. n \in 1..L /\ n + 1 \in 1..L /\ n # L /\ L \in 1..L /\ n \in Nat
        BY <3>2
      <3> QED BY <3>1, <3>3 DEF L
    <2>3. ~BranchDone(m, q, b)
      BY <1>1, <1>3, <2>1, <2>2
    <2> DEFINE y == m2.opens[1]
    <2>4. DOMAIN m2.opens = {1} /\ y.key = keys[n + 1] /\ y.parent = q /\ y.branch = b
      BY <2>1 DEF Opening
    <2>5. \A p, c, k : k \in WaitsAt(m2, p, c) <=> k = 1 /\ p = q /\ c = b
      BY <2>4 DEF WaitsAt, At
    <2> HIDE DEF y
    <2>6. OpensInPlace(m2)
      <3>1. PlacedBelow(m2, y, Len(m2.runs) + 1)
        <4>1. q < Len(m2.runs) + 1
          <5>1. DOMAIN m.runs = 1..Len(m.runs) /\ Len(m.runs) \in Nat
            BY <1>1, MachineParts
          <5> QED BY <1>5, <1>1, <5>1
        <4>2. StandsIn(y.key, m2.runs[q].key, b)
          <5>1. /\ m2.runs = m.runs /\ keys = Definition[m.runs[q].key].branches[b]
            BY <1>5 DEF keys, StepOfRun
          <5> QED BY <2>2, <2>4, <5>1 DEF StandsIn
        <4> QED BY <1>1, <1>7, <2>4, <4>1, <4>2 DEF PlacedBelow
      <3>2. IsNth(m2, y, RunsAt(m2, q, b))
        <4>1. PICK k \in DOMAIN keys : m.runs[a].key = keys[k] /\ Cardinality(Earlier(m, a)) = k - 1
          <5>1. IsNth(m, m.runs[a], Earlier(m, a))
            BY <1>1, <1>2 DEF RunsInPlace
          <5> QED BY <1>1, <5>1 DEF IsNth, q, b, keys
        <4>2. k = n
          BY <1>3, <2>1, <2>2, <4>1
        <4>3. RunsAt(m, q, b) = Earlier(m, a) \cup {a} /\ a \notin Earlier(m, a)
          <5>1. Earlier(m, a) = {j \in RunsAt(m, q, b) : j < a}
            BY DEF Earlier, q, b
          <5>2. a \in Nat /\ \A j \in RunsAt(m, q, b) : j \in Nat
            BY <1>1, MachineParts DEF RunsAt
          <5>3. a \in RunsAt(m, q, b) /\ \A j \in RunsAt(m, q, b) : j <= a
            BY <1>1
          <5>4. \A j \in RunsAt(m, q, b) : j < a \/ j = a
            BY <5>2, <5>3
          <5>5. ~(a < a)
            BY <5>2
          <5> QED BY <5>1, <5>3, <5>4, <5>5
        <4>4. IsFiniteSet(Earlier(m, a))
          <5>1. Earlier(m, a) \subseteq 1..Len(m.runs) /\ Len(m.runs) \in Nat
            BY <1>1, MachineParts DEF Earlier, RunsAt
          <5>2. IsFiniteSet(1..Len(m.runs))
            <6>1. Len(m.runs) \in Int /\ 1 \in Int
              BY <5>1
            <6> QED BY <6>1, FS_Interval
          <5> QED BY <5>1, <5>2, FS_Subset
        <4>5. Cardinality(RunsAt(m, q, b)) = Cardinality(Earlier(m, a)) + 1
          BY <4>3, <4>4, FS_AddElement
        <4>6. Cardinality(RunsAt(m2, q, b)) = (n + 1) - 1
          <5>1. RunsAt(m2, q, b) = RunsAt(m, q, b)
            BY <1>7
          <5>2. n \in Nat
            BY <2>2
          <5> QED BY <4>1, <4>2, <4>5, <5>1, <5>2
        <4>7. StepOfRun(m2, y.parent).branches[y.branch] = keys
          BY <1>7, <2>4 DEF keys
        <4> QED BY <2>2, <2>4, <4>6, <4>7 DEF IsNth
      <3>3. AllCompleted(m2, RunsAt(m2, q, b))
        <4>1. AllCompleted(m, Earlier(m, a))
          BY <1>1, <1>2 DEF RunsInPlace, q
        <4>2. \A j \in RunsAt(m, q, b) : j \in Earlier(m, a) \/ j = a
          <5>1. a \in Nat /\ \A j \in RunsAt(m, q, b) : j \in Nat
            BY <1>1, MachineParts DEF RunsAt
          <5>2. \A j \in RunsAt(m, q, b) : j <= a
            BY <1>1
          <5>3. \A j \in RunsAt(m, q, b) : j < a \/ j = a
            BY <5>1, <5>2
          <5> QED BY <5>3 DEF Earlier, q, b
        <4>3. AllCompleted(m, RunsAt(m, q, b))
          BY <1>1, <4>1, <4>2 DEF AllCompleted
        <4> QED BY <1>7, <4>3
      <3> QED BY <1>1, <1>7, <2>4, <3>1, <3>2, <3>3 DEF OpensInPlace, y
    <2>7. OneAtATime(m2)
      <3> SUFFICES ASSUME NEW p \in {Top} \cup DOMAIN m.runs, Goes(m, p), NEW c \in LinesOf(m, p)
                   PROVE  /\ \A i, j \in StandsAt(m2, p, c) : i = j
                          /\ \A k, l \in WaitsAt(m2, p, c) : k = l
                          /\ StandsAt(m2, p, c) = {} \/ WaitsAt(m2, p, c) = {}
                          /\ p # Top /\ BranchDone(m, p, c) =>
                               WaitsAt(m2, p, c) = {} /\ \A i \in StandsAt(m2, p, c) : i = m2.after
                          /\ p = Top \/ ~BranchDone(m, p, c) =>
                               StandsAt(m2, p, c) # {} \/ WaitsAt(m2, p, c) # {}
        BY <1>5, <1>7 DEF OneAtATime
      <3>1. CASE p = q /\ c = b
        <4>1. StandsAt(m2, p, c) = {} /\ 1 \in WaitsAt(m2, p, c) /\ ~BranchDone(m, p, c)
          BY <1>18, <2>3, <2>5, <3>1
        <4>2. \A k \in WaitsAt(m2, p, c) : k = 1
          BY <2>5
        <4> QED BY <4>1, <4>2
      <3>2. CASE ~(p = q /\ c = b)
        <4>1. WaitsAt(m2, p, c) = {}
          BY <2>5, <3>2
        <4>2. StandsAt(m2, p, c) = StandsAt(m, p, c) /\ a \notin StandsAt(m2, p, c)
          BY <1>16, <1>17, <3>2
        <4>3. WaitsAt(m, p, c) = {}
          <5>1. DOMAIN m.opens = {}
            BY <1>1
          <5> QED BY <5>1 DEF WaitsAt
        <4>4. /\ \A i, j \in StandsAt(m, p, c) : i = j
              /\ p # Top /\ BranchDone(m, p, c) => \A i \in StandsAt(m, p, c) : i = a
              /\ p = Top \/ ~BranchDone(m, p, c) => StandsAt(m, p, c) # {}
          BY <1>2, <4>3 DEF OneAtATime, a
        <4> QED BY <4>1, <4>2, <4>4
      <3> QED BY <3>1, <3>2
    <2>8. TopAlone(m2)
      <3>1. WaitsAt(m2, Top, 0) = {}
        BY <1>1, <2>5
      <3> QED BY <1>5, <1>1, <3>1 DEF TopAlone, IsAfter
    <2>9. JoinsOpen(m2)
      <3> SUFFICES ASSUME NEW p \in DOMAIN m.runs, IsParallel(m, p), IsActive(m, p)
                   PROVE  IF StepOfRun(m, p).join = "all"
                          THEN \E c \in LinesOf(m, p) : ~BranchDone(m, p, c)
                          ELSE \A c \in LinesOf(m, p) : ~BranchDone(m, p, c)
        BY <1>13
      <3>1. \A c : IsAfter(m, p, c) => ~BranchDone(m, p, c)
        BY <1>14, <2>3
      <3> QED BY <1>2, <3>1 DEF JoinsOpen
    <2> QED BY <1>8, <1>9, <1>10, <1>11, <1>12, <2>6, <2>7, <2>8, <2>9 DEF BetweenMoves
  <1>20. CASE m.runs[a].key = keys[Len(keys)] /\ ~JoinIsDue(m, q) /\ m2.opens = <<>>
    <2>1. BranchDone(m, q, b)
      BY <1>1, <1>20 DEF BranchDone, ChildrenOf, RunsAt, At, keys
    <2>2. StepOfRun(m, q).join = "all" /\ \E c \in LinesOf(m, q) : ~BranchDone(m, q, c)
      <3>1. StepOfRun(m, q).join \in {"all", "any"}
        BY <1>1, StepFacts, MachineParts DEF IsParallel, StepOfRun
      <3> QED BY <1>1, <1>20, <3>1 DEF JoinIsDue, LinesOf
    <2>3. \A p, c : WaitsAt(m2, p, c) = {} /\ WaitsAt(m, p, c) = {}
      BY <1>1, <1>20 DEF WaitsAt
    <2>4. OpensInPlace(m2)
      BY <1>20 DEF OpensInPlace
    <2>5. OneAtATime(m2)
      <3> SUFFICES ASSUME NEW p \in {Top} \cup DOMAIN m.runs, Goes(m, p), NEW c \in LinesOf(m, p)
                   PROVE  /\ \A i, j \in StandsAt(m2, p, c) : i = j
                          /\ p # Top /\ BranchDone(m, p, c) => \A i \in StandsAt(m2, p, c) : i = m2.after
                          /\ p = Top \/ ~BranchDone(m, p, c) => StandsAt(m2, p, c) # {}
        BY <1>5, <1>7, <2>3 DEF OneAtATime
      <3>1. CASE p = q /\ c = b
        BY <1>1, <1>18, <2>1, <3>1
      <3>2. CASE ~(p = q /\ c = b)
        <4>1. StandsAt(m2, p, c) = StandsAt(m, p, c) /\ a \notin StandsAt(m2, p, c)
          BY <1>16, <1>17, <3>2
        <4>2. /\ \A i, j \in StandsAt(m, p, c) : i = j
              /\ p # Top /\ BranchDone(m, p, c) => \A i \in StandsAt(m, p, c) : i = a
              /\ p = Top \/ ~BranchDone(m, p, c) => StandsAt(m, p, c) # {}
          BY <1>2, <2>3 DEF OneAtATime, a
        <4> QED BY <4>1, <4>2
      <3> QED BY <3>1, <3>2
    <2>6. TopAlone(m2)
      BY <1>5, <1>1, <2>3, <1>20 DEF TopAlone, IsAfter
    <2>7. JoinsOpen(m2)
      <3> SUFFICES ASSUME NEW p \in DOMAIN m.runs, IsParallel(m, p), IsActive(m, p)
                   PROVE  IF StepOfRun(m, p).join = "all"
                          THEN \E c \in LinesOf(m, p) : ~BranchDone(m, p, c)
                          ELSE \A c \in LinesOf(m, p) : ~BranchDone(m, p, c)
        BY <1>13
      <3>1. CASE p = q
        BY <2>2, <3>1
      <3>2. CASE p # q
        BY <1>2, <1>14, <3>2 DEF JoinsOpen
      <3> QED BY <3>1, <3>2
    <2> QED BY <1>8, <1>9, <1>10, <1>11, <1>12, <2>4, <2>5, <2>6, <2>7 DEF BetweenMoves
  <1> QED BY <1>4, <1>19, <1>20

\* A join that is due is passed: the branches are cancelled, the parallel step
\* is completed and gone on after.
LEMMA JoinPasses ==
    ASSUME NEW m, BetweenMoves(m), m.after # Top, m.runs[m.after].parent # Top,
           LET q == m.runs[m.after].parent
               keys == StepOfRun(m, q).branches[m.runs[m.after].branch]
           IN m.runs[m.after].key = keys[Len(keys)] /\ JoinIsDue(m, q)
    PROVE  LET q == m.runs[m.after].parent IN
           BetweenMoves([CompleteRun(CancelRuns(m, Descendants(m, q)), q) EXCEPT !.after = q])
  <1> DEFINE a == m.after
             q == m.runs[a].parent
             b == m.runs[a].branch
             keys == StepOfRun(m, q).branches[b]
             D == Descendants(m, q)
             m1 == CancelRuns(m, D)
             m2 == CompleteRun(m1, q)
             m3 == [m2 EXCEPT !.after = q]
  <1>1. /\ m \in Machines /\ m.status = "running" /\ m.opens = <<>>
        /\ a \in DOMAIN m.runs /\ m.runs[a].status = "completed"
        /\ a \in RunsAt(m, q, b) /\ b \in LinesOf(m, q)
        /\ q # Top /\ q \in DOMAIN m.runs /\ IsParallel(m, q) /\ IsActive(m, q)
    BY AfterFacts
  <1>2. RunsInPlace(m) /\ WorkIsOfRuns(m) /\ q \in Nat
    BY <1>1, MachineParts DEF BetweenMoves
  <1>3. Below(m, q, D)
    BY <1>1, <1>2, DescendantsAreBelow
  <1>4. MayPass(m, q)
    <2>1. BranchDone(m, q, b)
      BY <1>1 DEF BranchDone, ChildrenOf, RunsAt, At
    <2>2. StepOfRun(m, q).join \in {"all", "any"}
      BY <1>1, StepFacts, MachineParts DEF IsParallel, StepOfRun
    <2>3. JoinIsDue(m, q) /\ LinesOf(m, q) = DOMAIN StepOfRun(m, q).branches
      BY <1>1 DEF LinesOf
    <2> HIDE DEF q, b
    <2> QED BY <1>1, <2>1, <2>2, <2>3 DEF MayPass, JoinIsDue
  <1>5. MayPassOn(m, q, D)
    <2>1. m.runs[m.after].parent = q /\ StepOfRun(m, q).type = "parallel"
      BY <1>1 DEF IsParallel
    <2> HIDE DEF q, D
    <2> QED BY <1>1, <1>3, <1>4, <2>1 DEF MayPassOn
  <1> HIDE DEF a, q, b, keys, D
  <1>6. /\ m1 \in Machines /\ SamePlaces(m, m1)
        /\ \A i \in DOMAIN m.runs :
             m1.runs[i].status = IF i \in D /\ IsActive(m, i) THEN "cancelled" ELSE m.runs[i].status
        /\ m1.status = m.status /\ m1.work = m.work /\ m1.opens = m.opens
    <2>1. m \in Machines
      BY <1>1
    <2> QED BY <2>1, CancelParts
  <1> HIDE DEF m1
  <1>7. DOMAIN m1.runs = DOMAIN m.runs
    BY <1>6 DEF SamePlaces
  <1>8. /\ m2 \in Machines /\ SamePlaces(m1, m2)
        /\ \A i \in DOMAIN m1.runs :
             m2.runs[i].status = IF i = q THEN "completed" ELSE m1.runs[i].status
        /\ m2.status = m1.status /\ m2.work = m1.work /\ m2.opens = m1.opens
    <2>1. m1 \in Machines /\ q \in DOMAIN m1.runs
      BY <1>1, <1>6, <1>7
    <2> QED BY <2>1, CompleteParts
  <1> HIDE DEF m2
  <1>9. /\ m3 \in Machines /\ m3.runs = m2.runs /\ m3.status = m2.status /\ m3.work = m2.work
        /\ m3.after = q /\ m3.opens = m2.opens
    BY <1>2, <1>8 DEF Machines
  <1> HIDE DEF m3
  <1>10. PassesOn(m, q, D, m3)
    <2>1. SamePlaces(m, m3)
      <3>1. SamePlaces(m, m2)
        BY <1>6, <1>8 DEF SamePlaces
      <3> QED BY <1>9, <3>1 DEF SamePlaces
    <2>2. \A i \in D : IsActive(m, i)
      BY <1>3 DEF Below
    <2>3. ASSUME NEW i \in DOMAIN m.runs
          PROVE  m3.runs[i].status = IF i = q THEN "completed"
                                     ELSE IF i \in D THEN "cancelled" ELSE m.runs[i].status
      BY <1>6, <1>7, <1>8, <1>9, <2>2
    <2> QED BY <1>1, <1>6, <1>8, <1>9, <2>1, <2>3 DEF PassesOn
  <1>11. WorkIsOfRuns(m3)
    BY <1>2, <1>6, <1>8, <1>9, <1>10 DEF WorkIsOfRuns, PassesOn, SamePlaces
  <1>12. BetweenMoves(m3)
    BY <1>5, <1>9, <1>10, <1>11, PassedOn
  <1> QED BY <1>12 DEF m3, m2, m1, D, q, a

\* Going on after a completed run leads to between two moves.
LEMMA AdvanceKeeps ==
    ASSUME NEW m, BetweenMoves(m), m.after # Top
    PROVE  BetweenMoves(AdvanceAfter(m))
  <1> DEFINE a == m.after
             q == m.runs[a].parent
             b == m.runs[a].branch
             keys == StepOfRun(m, q).branches[b]
             m1 == [m EXCEPT !.after = Top]
             index == CHOOSE n \in DOMAIN keys : keys[n] = m.runs[a].key
  <1>1. /\ m \in Machines /\ m.status = "running" /\ m.opens = <<>>
        /\ a \in DOMAIN m.runs
        /\ StepOfRun(m, a).type \notin {"end", "condition"}
        /\ b \in LinesOf(m, q)
        /\ q = Top => m.runs[a].key \in TopKeys /\ b = 0
        /\ q # Top => /\ q \in DOMAIN m.runs /\ IsParallel(m, q) /\ IsActive(m, q)
                      /\ b \in DOMAIN StepOfRun(m, q).branches
    BY AfterFacts
  <1>2. /\ RunsInPlace(m) /\ TopAlone(m) /\ JoinsPassed(m) /\ WorkIsOfRuns(m)
    BY DEF BetweenMoves
  <1>3. /\ m1 \in Machines /\ m1.runs = m.runs /\ m1.status = m.status /\ m1.work = m.work
        /\ m1.after = Top /\ m1.opens = m.opens
    BY <1>1 DEF Machines, Top
  <1>4. AdvanceAfter(m) =
          IF q = Top THEN [m1 EXCEPT !.opens = <<Opening(StepOfRun(m, a).next, Top, 0)>>]
          ELSE IF index < Len(keys) THEN [m1 EXCEPT !.opens = <<Opening(keys[index + 1], q, b)>>]
          ELSE IF JoinIsDue(m, q)
          THEN [CompleteRun(CancelRuns(m, Descendants(m, q)), q) EXCEPT !.after = q]
          ELSE m1
    <2>1. CASE q = Top
      BY <1>1, <2>1 DEF AdvanceAfter
    <2>2. CASE q # Top
      <3>1. IsActive(m, q) /\ m.status = "running"
        BY <1>1, <2>2
      <3> HIDE DEF index
      <3>2. AdvanceAfter(m) =
              IF index < Len(keys) THEN [m1 EXCEPT !.opens = <<Opening(keys[index + 1], q, b)>>]
              ELSE IF JoinIsDue(m, q)
              THEN [CompleteRun(CancelRuns(m, Descendants(m, q)), q) EXCEPT !.after = q]
              ELSE m1
        BY <2>2, <3>1 DEF AdvanceAfter, index
      <3> QED BY <2>2, <3>2
    <2> QED BY <2>1, <2>2
  <1>5. CASE q = Top
    <2> DEFINE k == StepOfRun(m, a).next
               m2 == [m1 EXCEPT !.opens = <<Opening(k, Top, 0)>>]
    <2>1. k \in TopKeys
      BY <1>1, <1>5, StepFacts, MachineParts DEF StepOfRun
    <2>2. AdvanceAfter(m) = m2
      BY <1>4, <1>5
    <2> HIDE DEF k, m1
    <2>3. <<Opening(k, Top, 0)>> \in Seq(Places)
      BY <2>1 DEF Opening, Places, TopKeys, Top
    <2>4. /\ m2 \in Machines /\ m2.runs = m1.runs /\ m2.status = m1.status /\ m2.work = m1.work
          /\ m2.after = Top /\ m2.opens = <<Opening(k, Top, 0)>>
      BY <1>3, <2>3 DEF Machines
    <2> HIDE DEF m2
    <2>5. \A i \in DOMAIN m.runs : ~IsActive(m, i)
      <3>1. IsAfter(m, Top, 0)
        BY <1>1, <1>5 DEF IsAfter, At
      <3> QED BY <1>2, <3>1 DEF TopAlone
    <2>6. Clears(m, m2)
      BY <1>1, <1>3, <2>1, <2>4, <2>5 DEF Clears, SamePlaces, KeepsCompleted, IsActive
    <2>7. WorkIsOfRuns(m2)
      BY <1>2, <1>3, <2>4 DEF WorkIsOfRuns
    <2>8. BetweenMoves(m2)
      BY <1>1, <1>2, <2>4, <2>6, <2>7, ClearedUp
    <2> QED BY <2>2, <2>8
  <1>6. ASSUME q # Top
        PROVE  /\ keys \in Seq(StepKeys) /\ Len(keys) \in Nat \ {0} /\ DOMAIN keys = 1..Len(keys)
               /\ index \in DOMAIN keys /\ keys[index] = m.runs[a].key /\ q \in Nat /\ b \in Nat
    <2>1. m.runs[q].key \in StepKeys /\ Definition[m.runs[q].key].type = "parallel"
      BY <1>1, <1>6, MachineParts DEF IsParallel, StepOfRun
    <2>2. keys \in Seq(StepKeys) /\ Len(keys) \in Nat \ {0} /\ DOMAIN keys = 1..Len(keys)
      BY <1>1, <1>6, <2>1, BranchFacts DEF StepOfRun
    <2>3. \E n \in DOMAIN keys : keys[n] = m.runs[a].key
      <3>1. StandsIn(m.runs[a].key, m.runs[q].key, b)
        BY <1>1, <1>2, <1>6, ParentFacts
      <3> QED BY <3>1 DEF StandsIn, StepOfRun
    <2>4. q \in Nat /\ b \in Nat
      BY <1>1, MachineParts
    <2> HIDE DEF keys
    <2> QED BY <2>2, <2>3, <2>4
  <1>7. CASE q # Top /\ index < Len(keys)
    <2> DEFINE y == Opening(keys[index + 1], q, b)
               m2 == [m1 EXCEPT !.opens = <<y>>]
    <2>1. AdvanceAfter(m) = m2
      BY <1>4, <1>7
    <2>2. index \in 1..(Len(keys) - 1) /\ index + 1 \in DOMAIN keys
      <3> DEFINE L == Len(keys)
      <3> HIDE DEF L, index
      <3>1. L \in Nat \ {0} /\ index \in 1..L /\ index < L /\ DOMAIN keys = 1..L
        BY <1>6, <1>7 DEF L
      <3>2. index \in 1..(L - 1) /\ index + 1 \in 1..L
        BY <3>1
      <3> QED BY <3>1, <3>2 DEF L
    <2>3. keys[index + 1] \in StepKeys
      BY <1>6, <1>7, <2>2, ElementOfSeq
    <2>4. y \in Places
      BY <1>6, <1>7, <2>3 DEF Opening, Places
    <2> HIDE DEF m1, y, index
    <2>8. <<y>> \in Seq(Places)
      BY <2>4
    <2>5. /\ m2 \in Machines /\ m2.runs = m1.runs /\ m2.status = m1.status /\ m2.work = m1.work
          /\ m2.after = Top /\ m2.opens = <<y>>
      BY <1>3, <2>8 DEF Machines
    <2> HIDE DEF m2
    <2>6. StaysInBranch(m, m2)
      <3>1. \E n \in 1..(Len(keys) - 1) :
               m.runs[a].key = keys[n] /\ m2.opens = <<Opening(keys[n + 1], q, b)>>
        BY <1>6, <1>7, <2>2, <2>5 DEF y
      <3> QED BY <1>3, <2>5, <3>1 DEF StaysInBranch
    <2>7. BetweenMoves(m2)
      BY <1>7, <2>5, <2>6, BranchGoesOn
    <2> QED BY <2>1, <2>7
  <1>8. ASSUME q # Top, ~(index < Len(keys)) PROVE m.runs[a].key = keys[Len(keys)]
    <2> DEFINE L == Len(keys)
    <2> HIDE DEF L, index
    <2>1. L \in Nat \ {0} /\ index \in 1..L /\ ~(index < L)
      BY <1>6, <1>8 DEF L
    <2>2. index = L
      BY <2>1
    <2> QED BY <1>6, <1>8, <2>2 DEF L
  <1>9. CASE q # Top /\ ~(index < Len(keys)) /\ JoinIsDue(m, q)
    <2>1. AdvanceAfter(m) = [CompleteRun(CancelRuns(m, Descendants(m, q)), q) EXCEPT !.after = q]
      BY <1>4, <1>9
    <2>2. BetweenMoves([CompleteRun(CancelRuns(m, Descendants(m, q)), q) EXCEPT !.after = q])
      BY <1>8, <1>9, JoinPasses
    <2> QED BY <2>1, <2>2
  <1>10. CASE q # Top /\ ~(index < Len(keys)) /\ ~JoinIsDue(m, q)
    <2>1. AdvanceAfter(m) = m1
      BY <1>4, <1>10
    <2> HIDE DEF m1
    <2>2. StaysInBranch(m, m1)
      BY <1>1, <1>3, <1>8, <1>10 DEF StaysInBranch
    <2>3. BetweenMoves(m1)
      BY <1>3, <1>10, <2>2, BranchGoesOn
    <2> QED BY <2>1, <2>3
  <1> QED BY <1>5, <1>7, <1>9, <1>10

\* Taking the next work leads to between two moves.
LEMMA TakeKeeps ==
    ASSUME NEW m, BetweenMoves(m), m.after = Top, m.opens = <<>>, m.work # <<>>, NEW atOnce
    PROVE  BetweenMoves(TakeWork(m, atOnce))
  <1> DEFINE id == Head(m.work)
             rest == [m EXCEPT !.work = Tail(m.work)]
  <1>1. m \in Machines /\ m.work \in Seq(Nat) /\ WorkIsOfRuns(m)
    BY MachineParts DEF BetweenMoves
  <1>2. /\ id \in DOMAIN m.runs /\ Tail(m.work) \in Seq(Nat)
        /\ \A k \in DOMAIN Tail(m.work) : Tail(m.work)[k] \in DOMAIN m.runs
    <2>1. 1 \in DOMAIN m.work /\ id = m.work[1]
      BY <1>1
    <2>2. /\ Tail(m.work) \in Seq(Nat) /\ DOMAIN Tail(m.work) = 1..(Len(m.work) - 1)
          /\ \A k \in 1..(Len(m.work) - 1) : Tail(m.work)[k] = m.work[k + 1]
          /\ DOMAIN m.work = 1..Len(m.work) /\ Len(m.work) \in Nat
      BY <1>1
    <2>3. \A k \in 1..(Len(m.work) - 1) : k + 1 \in DOMAIN m.work
      BY <2>2
    <2> QED BY <1>1, <2>1, <2>2, <2>3 DEF WorkIsOfRuns
  <1> HIDE DEF id
  <1>3. /\ rest \in Machines /\ rest.runs = m.runs /\ rest.status = m.status
        /\ rest.work = Tail(m.work) /\ rest.after = m.after /\ rest.opens = m.opens
    BY <1>1, <1>2 DEF Machines
  <1>4. TakeWork(m, atOnce) = IF IsActive(m, id) /\ m.runs[id].key \in atOnce /\ EndsAtOnce(m, id)
                              THEN Conclude(rest, id, "done") ELSE rest
    BY DEF TakeWork, id
  <1> HIDE DEF rest
  <1>5. BetweenMoves(rest)
    <2>1. WorkIsOfRuns(rest)
      BY <1>2, <1>3 DEF WorkIsOfRuns
    <2>2. TopAlone(m) /\ m.status # "none"
      BY <1>1 DEF BetweenMoves, TopAlone
    <2>3. TopAlone(rest)
      BY <1>3, <2>2 DEF TopAlone, WaitsAt, IsAfter, IsActive
    <2>4. /\ \A i : StepOfRun(rest, i) = StepOfRun(m, i) /\ (IsActive(rest, i) <=> IsActive(m, i))
          /\ \A p : (IsParallel(rest, p) <=> IsParallel(m, p)) /\ (Goes(rest, p) <=> Goes(m, p))
                    /\ LinesOf(rest, p) = LinesOf(m, p)
          /\ \A p, b : /\ RunsAt(rest, p, b) = RunsAt(m, p, b) /\ WaitsAt(rest, p, b) = WaitsAt(m, p, b)
                       /\ StandsAt(rest, p, b) = StandsAt(m, p, b)
                       /\ (IsAfter(rest, p, b) <=> IsAfter(m, p, b))
                       /\ (BranchDone(rest, p, b) <=> BranchDone(m, p, b))
      BY <1>3 DEF StepOfRun, IsActive, IsParallel, Goes, LinesOf, RunsAt, WaitsAt, StandsAt, IsAfter,
                  BranchDone, ChildrenOf
    <2>5. RunsInPlace(rest)
      <3>1. SamePlaces(m, rest) /\ KeepsCompleted(m, rest)
        BY <1>3 DEF SamePlaces, KeepsCompleted
      <3> QED BY <1>1, <3>1, OrderStays DEF BetweenMoves
    <2>6. ActiveBelow(rest)
      BY <1>3, <2>4 DEF BetweenMoves, ActiveBelow
    <2>7. OpensInPlace(rest) /\ AfterInPlace(rest)
      BY <1>3 DEF OpensInPlace, AfterInPlace
    <2>8. OneAtATime(rest)
      BY <1>3, <2>4 DEF BetweenMoves, OneAtATime
    <2>9. JoinsPassed(rest)
      <3>1. ASSUME NEW p, MayPass(m, p) PROVE MayPass(rest, p)
        BY <2>4, <3>1 DEF MayPass
      <3> QED BY <1>3, <2>4, <3>1 DEF BetweenMoves, JoinsPassed
    <2>10. JoinsOpen(rest)
      BY <1>3, <2>4 DEF BetweenMoves, JoinsOpen
    <2> QED BY <1>3, <2>1, <2>3, <2>5, <2>6, <2>7, <2>8, <2>9, <2>10 DEF BetweenMoves
  <1>6. CASE ~(IsActive(m, id) /\ m.runs[id].key \in atOnce /\ EndsAtOnce(m, id))
    BY <1>4, <1>5, <1>6
  <1>7. CASE IsActive(m, id) /\ m.runs[id].key \in atOnce /\ EndsAtOnce(m, id)
    <2>1. StepOfRun(m, id).type \in {"auto", "acknowledge", "approval"}
      BY <1>7 DEF EndsAtOnce
    <2>2. MayConclude(rest, id, "done")
      BY <1>2, <1>3, <1>5, <1>7, <2>1 DEF MayConclude, IsActive, StepOfRun
    <2>3. BetweenMoves(Conclude(rest, id, "done"))
      BY <2>2, ConcludeKeeps
    <2> QED BY <1>4, <1>7, <2>3
  <1> QED BY <1>6, <1>7

\* Every move leads from between two moves to between two moves.
LEMMA MakeCallKeeps ==
    ASSUME NEW m, BetweenMoves(m), NEW a
    PROVE  BetweenMoves(MakeCall(m, a))
  <1>1. CASE m.after # Top
    BY <1>1, AdvanceKeeps DEF MakeCall
  <1>2. CASE m.after = Top /\ m.opens # <<>>
    <2>1. MayAdd(m)
      BY <1>2 DEF MayAdd, BetweenMoves
    <2> QED BY <1>2, <2>1, ActivateKeeps DEF MakeCall
  <1>3. CASE m.after = Top /\ m.opens = <<>> /\ m.work # <<>>
    BY <1>3, TakeKeeps DEF MakeCall
  <1>4. CASE m.after = Top /\ m.opens = <<>> /\ m.work = <<>>
    BY <1>4 DEF MakeCall
  <1> QED BY <1>1, <1>2, <1>3, <1>4

\* And so do as many as a transition makes.
LEMMA ApplyKeeps ==
    ASSUME NEW m, BetweenMoves(m), NEW a
    PROVE  BetweenMoves(Apply(m, a))
  <1> DEFINE Step(f) == [n \in 0..MovesBound |-> IF n = 0 THEN m ELSE MakeCall(f[n - 1], a)]
             moved == CHOOSE f : f = Step(f)
             M == {x \in Machines : BetweenMoves(x)}
             F == [x \in Nat \X M |-> MakeCall(x[2], a)]
  <1>1. MovesBound \in Nat
    BY DefinitionAssumption
  <1>2. m \in M /\ \A x \in M : MakeCall(x, a) \in M
    BY MakeCallKeeps DEF BetweenMoves
  <1>3. moved = Step(moved)
    <2>1. F \in [Nat \X M -> M]
      <3> HIDE DEF M
      <3> QED BY <1>2
    <2>2. \A n \in Nat, x \in M : F[<<n, x>>] = MakeCall(x, a)
      <3> HIDE DEF M
      <3> QED OBVIOUS
    <2> HIDE DEF M, F
    <2>3. PICK g \in [0..MovesBound -> M] : GoesOn(g, MovesBound, m, F)
      BY <1>1, <1>2, <2>1, StepByStep
    <2>4. ASSUME NEW n \in 0..MovesBound PROVE g[n] = IF n = 0 THEN m ELSE MakeCall(g[n - 1], a)
      <3>1. CASE n = 0
        BY <2>3, <3>1 DEF GoesOn
      <3>2. CASE n # 0
        <4>1. n \in 1..MovesBound /\ n - 1 \in 0..MovesBound /\ n \in Nat
          BY <1>1, <3>2
        <4>2. g[n - 1] \in M
          BY <4>1
        <4> QED BY <2>2, <2>3, <3>2, <4>1, <4>2 DEF GoesOn
      <3> QED BY <3>1, <3>2
    <2>5. g = Step(g)
      BY <2>4
    <2> HIDE DEF Step
    <2> QED BY <2>5
  <1>4. Apply(m, a) = moved[MovesBound]
    BY DEF Apply
  <1> HIDE DEF moved, M
  <1>5. moved[0] = m /\ \A n \in 1..MovesBound : moved[n] = MakeCall(moved[n - 1], a)
    <2>1. \A n \in 0..MovesBound : moved[n] = IF n = 0 THEN m ELSE MakeCall(moved[n - 1], a)
      BY <1>3
    <2>2. 0 \in 0..MovesBound /\ \A n \in 1..MovesBound : n \in 0..MovesBound /\ n # 0
      BY <1>1
    <2> QED BY <2>1, <2>2
  <1> DEFINE S == {n \in 0..MovesBound : moved[n] \in M}
  <1>6. 0 \in S
    BY <1>1, <1>2, <1>5
  <1>7. ASSUME NEW n \in 1..MovesBound, n - 1 \in S PROVE n \in S
    BY <1>1, <1>2, <1>5, <1>7
  <1>8. MovesBound \in S
    <2> HIDE DEF S
    <2>1. 0..MovesBound \subseteq S
      BY <1>1, <1>6, <1>7, UpTo
    <2> QED BY <1>1, <2>1
  <1>9. moved[MovesBound] \in M
    BY <1>8
  <1> QED BY <1>4, <1>9 DEF M

\* A route that is not started is between two moves.
LEMMA RouteInitial == ParallelInit => RouteInv
  <1> SUFFICES ASSUME ParallelInit PROVE RouteInv
    OBVIOUS
  <1>1. /\ instance.status = "none" /\ instance.round = 1 /\ instance.runs = <<>>
        /\ instance.work = <<>> /\ instance.after = Top /\ instance.opens = <<>>
    BY DEF ParallelInit
  <1>2. instance \in Machines
    <2>1. <<>> \in Seq(Runs) /\ <<>> \in Seq(Nat) /\ <<>> \in Seq(Places) /\ Top \in Nat
      BY DEF Top
    <2> QED BY <2>1 DEF ParallelInit, Machines
  <1>3. DOMAIN instance.runs = {} /\ DOMAIN instance.work = {} /\ DOMAIN instance.opens = {}
    BY <1>1
  <1>4. \A p : ~Goes(instance, p)
    BY <1>1, <1>3 DEF Goes, IsParallel
  <1>5. WorkIsOfRuns(instance) /\ RunsInPlace(instance) /\ ActiveBelow(instance)
        /\ OpensInPlace(instance) /\ JoinsPassed(instance) /\ JoinsOpen(instance)
    BY <1>3 DEF WorkIsOfRuns, RunsInPlace, ActiveBelow, OpensInPlace, JoinsPassed, JoinsOpen
  <1>6. AfterInPlace(instance) /\ OneAtATime(instance) /\ TopAlone(instance)
    BY <1>1, <1>3, <1>4 DEF AfterInPlace, OneAtATime, TopAlone
  <1> QED BY <1>1, <1>2, <1>5, <1>6 DEF RouteInv, BetweenMoves, Settled

\* Every transition, with the work it leaves, leads to between two moves again.
LEMMA RouteInductive == RouteInv /\ [ParallelNext]_routeVars => RouteInv'
  <1> SUFFICES ASSUME RouteInv, [ParallelNext]_routeVars PROVE RouteInv'
    OBVIOUS
  <1>1. /\ BetweenMoves(instance) /\ instance \in Machines /\ Settled(instance)
        /\ instance.after = Top /\ instance.opens = <<>> /\ instance.work = <<>>
        /\ RunsInPlace(instance) /\ JoinsPassed(instance) /\ WorkIsOfRuns(instance)
    BY DEF RouteInv, BetweenMoves, Settled
  <1>2. ASSUME NEW m, BetweenMoves(m), Transition(m) PROVE RouteInv'
    <2>1. PICK a \in Answers : instance' = Apply(m, a) /\ Settled(instance')
      BY <1>2 DEF Transition
    <2>2. BetweenMoves(Apply(m, a))
      BY <1>2, ApplyKeeps
    <2> QED BY <2>1, <2>2 DEF RouteInv
  <1>3. CASE StartProcess
    <2> DEFINE m == [instance EXCEPT !.status = "running", !.opens = <<Opening(StartKey, Top, 0)>>]
    <2>1. instance.status = "none" /\ Transition(m)
      BY <1>3 DEF StartProcess
    <2>2. StartKey \in TopKeys
      BY DefinitionAssumption
    <2>3. <<Opening(StartKey, Top, 0)>> \in Seq(Places)
      BY <2>2 DEF Opening, Places, TopKeys, Top
    <2>4. /\ m \in Machines /\ m.runs = instance.runs /\ m.status = "running"
          /\ m.work = instance.work /\ m.after = Top /\ m.opens = <<Opening(StartKey, Top, 0)>>
      BY <1>1, <2>3 DEF Machines
    <2> HIDE DEF m
    <2>5. instance.runs = <<>>
      BY <1>1, <2>1 DEF BetweenMoves, TopAlone
    <2>6. Clears(instance, m)
      BY <2>2, <2>4, <2>5 DEF Clears, SamePlaces, KeepsCompleted
    <2>7. WorkIsOfRuns(m)
      BY <1>1, <2>4 DEF WorkIsOfRuns
    <2>8. BetweenMoves(m)
      BY <1>1, <2>4, <2>6, <2>7, ClearedUp
    <2> QED BY <1>2, <2>1, <2>8
  <1>4. CASE CancelProcess
    <2>1. instance.status = "running" /\ instance' = FinishRoute(instance, "cancelled")
      BY <1>4 DEF CancelProcess
    <2>2. BetweenMoves(FinishRoute(instance, "cancelled"))
      BY <1>1, FinishClears
    <2>3. Settled(FinishRoute(instance, "cancelled"))
      BY <1>1, FinishParts DEF Settled
    <2> QED BY <2>1, <2>2, <2>3 DEF RouteInv
  <1>5. ASSUME NEW id \in DOMAIN instance.runs, CompleteStep(id) PROVE RouteInv'
    <2>1. IsActive(instance, id) /\ StepOfRun(instance, id).type = "auto"
          /\ Transition(Conclude(instance, id, "done"))
      BY <1>5 DEF CompleteStep, CanEnd
    <2>2. MayConclude(instance, id, "done")
      BY <1>1, <2>1 DEF MayConclude
    <2>3. BetweenMoves(Conclude(instance, id, "done"))
      BY <2>2, ConcludeKeeps
    <2> QED BY <1>2, <2>1, <2>3
  <1>6. ASSUME NEW id \in DOMAIN instance.runs, NEW verdict, DecideStep(id, verdict) PROVE RouteInv'
    <2>1. /\ IsActive(instance, id) /\ StepOfRun(instance, id).type \in DOMAIN Verdicts
          /\ verdict \in Verdicts[StepOfRun(instance, id).type]
          /\ Transition(Conclude(instance, id, verdict))
      BY <1>6 DEF DecideStep, CanEnd
    <2>2. MayConclude(instance, id, verdict)
      BY <1>1, <2>1 DEF MayConclude
    <2>3. BetweenMoves(Conclude(instance, id, verdict))
      BY <2>2, ConcludeKeeps
    <2> QED BY <1>2, <2>1, <2>3
  <1>7. CASE UNCHANGED routeVars
    BY <1>7 DEF RouteInv, routeVars
  <1> QED BY <1>3, <1>4, <1>5, <1>6, <1>7 DEF ParallelNext

\* Between two transitions every run stands where its definition puts it and
\* nothing is left to do.
THEOREM RouteInvariance == ParallelSpec => []RouteInv
  BY RouteInitial, RouteInductive, PTL DEF ParallelSpec

\* A whole route between two transitions is what RouteIsWhole says.
LEMMA RouteInvMeansWhole == RouteInv => RouteIsWhole
  <1> SUFFICES ASSUME RouteInv PROVE RouteIsWhole
    OBVIOUS
  <1> DEFINE m == instance
  <1>1. /\ m \in Machines /\ RunsInPlace(m) /\ ActiveBelow(m) /\ OneAtATime(m) /\ TopAlone(m)
        /\ JoinsPassed(m) /\ JoinsOpen(m) /\ m.after = Top /\ m.opens = <<>>
    BY DEF RouteInv, BetweenMoves, Settled
  <1>2. \A p, b : WaitsAt(m, p, b) = {} /\ ~IsAfter(m, p, b)
    BY <1>1 DEF WaitsAt, IsAfter
  <1>3. \A p, b : StandsAt(m, p, b) = {i \in RunsAt(m, p, b) : IsActive(m, i)}
    <2>1. \A i \in DOMAIN m.runs : i # Top
      BY <1>1, MachineParts DEF Top
    <2> QED BY <1>1, <2>1 DEF StandsAt, RunsAt
  <1>4. \A S, x : S = {x} => Cardinality(S) = 1
    BY FS_Singleton
  <1>5. Cardinality({}) = 0
    BY FS_EmptySet
  <1>6. LinesAreWhole
    <2>1. ASSUME m.status # "running" PROVE ActiveRuns = {}
      BY <1>1, <2>1 DEF TopAlone, ActiveRuns, RunIds
    <2>2. ASSUME m.status = "running"
          PROVE  Cardinality({i \in ActiveRuns : m.runs[i].parent = Top}) = 1
      <3> DEFINE T == {i \in ActiveRuns : m.runs[i].parent = Top}
      <3>1. T = StandsAt(m, Top, 0)
        <4>1. \A i \in DOMAIN m.runs : m.runs[i].parent = Top <=> i \in RunsAt(m, Top, 0)
          BY <1>1, ParentFacts DEF RunsAt, At
        <4> QED BY <1>3, <4>1 DEF ActiveRuns, RunIds, RunsAt
      <3>2. Goes(m, Top) /\ 0 \in LinesOf(m, Top)
        BY <2>2 DEF Goes, LinesOf
      <3>3. (\A i, j \in StandsAt(m, Top, 0) : i = j) /\ StandsAt(m, Top, 0) # {}
        BY <1>1, <1>2, <3>2 DEF OneAtATime
      <3>4. \E x : StandsAt(m, Top, 0) = {x}
        BY <3>3
      <3> QED BY <1>4, <3>1, <3>4
    <2>3. ASSUME NEW i \in ActiveRuns, m.runs[i].parent # Top PROVE m.runs[i].parent \in ActiveRuns
      BY <1>1, <2>3 DEF ActiveBelow, ActiveRuns, RunIds, Goes, IsParallel
    <2>4. ASSUME NEW p \in ParallelRuns \cap ActiveRuns
          PROVE  /\ \A b \in DOMAIN StepOfRun(m, p).branches :
                      Cardinality(InBranch(p, b) \cap ActiveRuns) = IF BranchDone(m, p, b) THEN 0 ELSE 1
                 /\ StepOfRun(m, p).join = "all" => ~JoinIsDue(m, p)
                 /\ StepOfRun(m, p).join = "any" =>
                      \A b \in DOMAIN StepOfRun(m, p).branches : ~BranchDone(m, p, b)
      <3>1. /\ p \in DOMAIN m.runs /\ IsParallel(m, p) /\ IsActive(m, p) /\ p # Top
            /\ Goes(m, p) /\ LinesOf(m, p) = DOMAIN StepOfRun(m, p).branches
        <4>1. p \in DOMAIN m.runs /\ IsParallel(m, p) /\ IsActive(m, p)
          BY DEF ParallelRuns, ActiveRuns, RunIds, IsParallel
        <4>2. p # Top
          BY <1>1, <4>1, MachineParts DEF Top
        <4> QED BY <4>1, <4>2 DEF Goes, LinesOf
      <3>2. ASSUME NEW b \in DOMAIN StepOfRun(m, p).branches
            PROVE  Cardinality(InBranch(p, b) \cap ActiveRuns) = IF BranchDone(m, p, b) THEN 0 ELSE 1
        <4>1. InBranch(p, b) \cap ActiveRuns = StandsAt(m, p, b)
          BY <1>3 DEF InBranch, ChildrenOf, ActiveRuns, RunIds, RunsAt, At
        <4>2. /\ \A i, j \in StandsAt(m, p, b) : i = j
              /\ BranchDone(m, p, b) => \A i \in StandsAt(m, p, b) : i = m.after
              /\ ~BranchDone(m, p, b) => StandsAt(m, p, b) # {}
          BY <1>1, <1>2, <3>1 DEF OneAtATime
        <4>3. BranchDone(m, p, b) => StandsAt(m, p, b) = {}
          <5>1. \A i \in StandsAt(m, p, b) : i # Top
            BY <1>1, MachineParts DEF StandsAt, RunsAt, Top
          <5> QED BY <1>1, <4>2, <5>1
        <4>4. ~BranchDone(m, p, b) => \E x : StandsAt(m, p, b) = {x}
          BY <4>2
        <4> QED BY <1>4, <1>5, <4>1, <4>3, <4>4
      <3>3. IF StepOfRun(m, p).join = "all"
            THEN \E b \in LinesOf(m, p) : ~BranchDone(m, p, b)
            ELSE \A b \in LinesOf(m, p) : ~BranchDone(m, p, b)
        BY <1>1, <1>2, <3>1 DEF JoinsOpen
      <3> QED BY <3>1, <3>2, <3>3 DEF JoinIsDue
    <2> QED BY <2>1, <2>2, <2>3, <2>4 DEF LinesAreWhole
  <1>7. JoinsInFull
    <2> SUFFICES ASSUME NEW p \in ParallelRuns
                 PROVE  /\ \A b \in DOMAIN StepOfRun(m, p).branches : \A i \in InBranch(p, b) :
                             \E n \in DOMAIN StepOfRun(m, p).branches[b] :
                               /\ m.runs[i].key = StepOfRun(m, p).branches[b][n]
                               /\ Cardinality({j \in InBranch(p, b) : j < i}) = n - 1
                               /\ \A j \in InBranch(p, b) : j < i => m.runs[j].status = "completed"
                        /\ m.runs[p].status = "completed" =>
                             IF StepOfRun(m, p).join = "all"
                             THEN \A b \in DOMAIN StepOfRun(m, p).branches : BranchDone(m, p, b)
                             ELSE \E b \in DOMAIN StepOfRun(m, p).branches : BranchDone(m, p, b)
      BY DEF JoinsInFull
    <2>1. /\ p \in DOMAIN m.runs /\ IsParallel(m, p) /\ p # Top
          /\ LinesOf(m, p) = DOMAIN StepOfRun(m, p).branches
      <3>1. p \in DOMAIN m.runs /\ IsParallel(m, p)
        BY DEF ParallelRuns, RunIds, IsParallel
      <3>2. p # Top
        BY <1>1, <3>1, MachineParts DEF Top
      <3> QED BY <3>1, <3>2 DEF LinesOf
    <2>2. ASSUME NEW b \in DOMAIN StepOfRun(m, p).branches, NEW i \in InBranch(p, b)
          PROVE  \E n \in DOMAIN StepOfRun(m, p).branches[b] :
                   /\ m.runs[i].key = StepOfRun(m, p).branches[b][n]
                   /\ Cardinality({j \in InBranch(p, b) : j < i}) = n - 1
                   /\ \A j \in InBranch(p, b) : j < i => m.runs[j].status = "completed"
      <3>1. i \in DOMAIN m.runs /\ m.runs[i].parent = p /\ m.runs[i].branch = b
        BY DEF InBranch, ChildrenOf
      <3>2. IsNth(m, m.runs[i], Earlier(m, i)) /\ AllCompleted(m, Earlier(m, i))
        BY <1>1, <2>1, <3>1 DEF RunsInPlace
      <3>3. Earlier(m, i) = {j \in InBranch(p, b) : j < i}
        BY <3>1 DEF Earlier, RunsAt, At, InBranch, ChildrenOf
      <3>4. PICK n \in DOMAIN StepOfRun(m, p).branches[b] :
               m.runs[i].key = StepOfRun(m, p).branches[b][n] /\ Cardinality(Earlier(m, i)) = n - 1
        BY <2>1, <3>1, <3>2 DEF IsNth
      <3>5. \A j \in InBranch(p, b) : j < i => m.runs[j].status = "completed"
        BY <3>2, <3>3 DEF AllCompleted
      <3> QED BY <3>3, <3>4, <3>5
    <2>3. m.runs[p].status = "completed" => MayPass(m, p)
      BY <1>1, <2>1 DEF JoinsPassed
    <2> QED BY <2>1, <2>2, <2>3 DEF MayPass
  <1> QED BY <1>6, <1>7 DEF RouteIsWhole

\* Whatever the steps are decided to, and in whatever order, a route neither
\* stalls nor leaves a step behind (machine.ts: advanceAfter, negative).
THEOREM RoutesAreWhole == ParallelSpec => []RouteIsWhole
  BY RouteInvariance, RouteInvMeansWhole, PTL
=============================================================================
