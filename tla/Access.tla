------------------------------- MODULE Access -------------------------------
(* Who may see an object (kernel/access): its access entries and those of its *)
(* ancestors, the roles of its space, and the breaks of inheritance, over the *)
(* tree of objects and the table of ancestors that a move rebuilds            *)
(* (kernel/objects/service.ts).  The question is asked in three places, each  *)
(* with a query of its own: one object, a list, the search index.             *)
(*                                                                            *)
(* One space, with the levels its roles give: settings.roleLevels, fixed when *)
(* the space is created, or the default.  An owner and the system roles have  *)
(* access whatever the rest says, and are left out.  A step is a transaction; *)
(* moves of two objects at once, which nothing keeps apart, are not taken     *)
(* (README.md).                                                               *)
EXTENDS Naturals, FiniteSets

CONSTANTS
    Objects, NoObject,
    Members,        \* people who may have entries and a role in the space
    GrantInputs,    \* what an entry is given: a level, 0 for none, and a term
    RoleLevels,     \* the roles, each by its default level
    RoleGives,      \* the level each role gives in this space
    EntriesBound    \* bound on the objects with entries at a grant, its own among them;
                    \* what breaks copy is not bounded

ASSUME AccessAssumption ==
    /\ NoObject \notin Objects /\ IsFiniteSet(Objects)
    /\ GrantInputs \subseteq [level : 0..4, until : {"ever", "later"}]
    /\ RoleLevels \subseteq 1..4
    /\ RoleGives \in [RoleLevels -> 0..5]

VARIABLES
    parent,         \* objects.parent_id
    depth,          \* object_ancestors: depth[o][a], 0 where there is no row
    accessMode,     \* objects.access_mode
    acl,            \* acl_entries: a level and how long it holds
    role            \* space_members: the role, 0 for none
accessVars == <<parent, depth, accessMode, acl, role>>

NoEntry == [level |-> 0, until |-> "none"]
InForce(a, u) == acl[a][u].until \in {"ever", "later"}
Greatest(S) == CHOOSE n \in S : \A m \in S : m <= n

AccessInit ==
    /\ parent = [o \in Objects |-> NoObject]
    /\ depth = [o \in Objects |-> [a \in Objects |-> 0]]
    /\ accessMode = [o \in Objects |-> "inherit"]
    /\ acl = [o \in Objects |-> [u \in Members |-> NoEntry]]
    /\ role \in [Members -> RoleLevels \cup {0}]

-----------------------------------------------------------------------------
(* The queries.                                                             *)

Ancestors(o) == {a \in Objects : depth[o][a] > 0}
Unbroken == Cardinality(Objects)    \* null: no break in the line
\* The depth of the nearest break, 0 when the object is restricted itself.
Boundary(o) ==
    LET breaks == {depth[o][a] : a \in {b \in Ancestors(o) : accessMode[b] = "restricted"}}
    IN IF accessMode[o] = "restricted" THEN 0
       ELSE CHOOSE n \in breaks \cup {Unbroken} : \A m \in breaks : n <= m

AclScope(o) ==
    LET boundary == Boundary(o) IN {o} \cup {a \in Ancestors(o) : depth[o][a] <= boundary}

EntryLevels(S, u) == {acl[a][u].level : a \in {b \in S : InForce(b, u)}}
RoleCounts(o, u) == Boundary(o) = Unbroken /\ role[u] > 0
RoleLevel(o, u) == IF RoleCounts(o, u) THEN {RoleGives[role[u]]} ELSE {}
EffectiveLevel(o, u) == Greatest({0} \cup EntryLevels(AclScope(o), u) \cup RoleLevel(o, u))

\* visibleObjectsSql: an entry in force and a role show the object, whatever
\* the level.
ShownInLists(o, u) ==
    \/ InForce(o, u)
    \/ /\ accessMode[o] # "restricted"
       /\ \/ RoleCounts(o, u)
          \/ \E a \in AclScope(o) : InForce(a, u)

\* readPrincipalsFor: the keys of the search index that the person has; an entry
\* counts by its level, a role does not.
IndexedFor(o, u) ==
    \/ \E a \in AclScope(o) : InForce(a, u) /\ acl[a][u].level >= 1
    \/ RoleCounts(o, u)

-----------------------------------------------------------------------------
(* The operations.                                                          *)

WithEntries == {o \in Objects : \E u \in Members : acl[o][u] # NoEntry}

GrantAccess(o, u, grant) ==
    /\ Cardinality(WithEntries \ {o}) < EntriesBound
    /\ acl' = [acl EXCEPT ![o][u] = grant]
    /\ UNCHANGED <<parent, depth, accessMode, role>>

RevokeAccess(o, u) ==
    /\ acl' = [acl EXCEPT ![o][u] = NoEntry]
    /\ UNCHANGED <<parent, depth, accessMode, role>>

TermPasses(o, u) ==
    /\ acl[o][u].until = "later" /\ acl' = [acl EXCEPT ![o][u].until = "over"]
    /\ UNCHANGED <<parent, depth, accessMode, role>>

SetRole(u) ==
    /\ role' \in {[role EXCEPT ![u] = level] : level \in RoleLevels \cup {0}}
    /\ UNCHANGED <<parent, depth, accessMode, acl>>

\* A role is copied with its default level, whatever the space says of it.
CopiedRole(o, u) == IF RoleCounts(o, u) THEN {role[u]} ELSE {}

\* Slip: what a break higher up had closed is copied too.
CopiedWhole(o, u) == EntryLevels(Ancestors(o), u) \cup CopiedRole(o, u)

\* What a break writes for each person: the inherited entries in force and the
\* role, the greatest level winning; an entry that is there keeps its term.
Copied(o, u) == EntryLevels(AclScope(o) \ {o}, u) \cup CopiedRole(o, u)

AfterBreak(o, u) ==
    LET own == acl[o][u]
        copied == Copied(o, u)
    IN IF copied = {} THEN own
       ELSE [level |-> Greatest(copied \cup {own.level}),
             until |-> IF own = NoEntry THEN "ever" ELSE own.until]

BreakInheritance(o) ==
    /\ accessMode[o] = "inherit"
    /\ accessMode' = [accessMode EXCEPT ![o] = "restricted"]
    /\ acl' = [acl EXCEPT ![o] = [u \in Members |-> AfterBreak(o, u)]]
    /\ UNCHANGED <<parent, depth, role>>

\* The copies stay behind; a module may also break without copying.
SetMode(o, mode) ==
    /\ accessMode[o] # mode /\ accessMode' = [accessMode EXCEPT ![o] = mode]
    /\ UNCHANGED <<parent, depth, acl, role>>

Subtree(o) == {o} \cup {x \in Objects : depth[x][o] > 0}
\* Slip: only the object itself gets the ancestors of its new parent.
MovedAlone(o, p, x, a) ==
    IF x = o /\ p # NoObject /\ a \in {p} \cup Ancestors(p) THEN 1 + depth[p][a] ELSE 0
\* The rows a move writes: what is above the new place, with what lay between.
Above(o, p, x, a) ==
    IF p # NoObject /\ a \in {p} \cup Ancestors(p) THEN depth[x][o] + 1 + depth[p][a] ELSE 0

\* Links inside the branch stay, those to what was above it go.
MovedDepth(o, p) ==
    [x \in Objects |-> [a \in Objects |->
        IF x \in Subtree(o) /\ a \notin Subtree(o) THEN Above(o, p, x, a) ELSE depth[x][a]]]

Move(o, p) ==
    /\ p # o
    /\ p # NoObject => depth[p][o] = 0
    /\ parent' = [parent EXCEPT ![o] = p] /\ depth' = MovedDepth(o, p)
    /\ UNCHANGED <<accessMode, acl, role>>

AccessNext ==
    \/ \E o \in Objects :
         \/ BreakInheritance(o) \/ SetMode(o, "inherit") \/ SetMode(o, "restricted")
         \/ \E p \in Objects \cup {NoObject} : Move(o, p)
    \/ \E o \in Objects, u \in Members :
         \/ RevokeAccess(o, u) \/ TermPasses(o, u)
         \/ \E grant \in GrantInputs : GrantAccess(o, u, grant)
    \/ \E u \in Members : SetRole(u)
AccessSpec == AccessInit /\ [][AccessNext]_accessVars

-----------------------------------------------------------------------------
Modes == {"inherit", "restricted"}
Entries == {NoEntry} \cup [level : 0..4, until : {"ever", "later", "over"}]
AccessTypeOK ==
    /\ parent \in [Objects -> Objects \cup {NoObject}]
    /\ depth \in [Objects -> [Objects -> Nat]]
    /\ accessMode \in [Objects -> Modes]
    /\ acl \in [Objects -> [Members -> Entries]]
    /\ role \in [Members -> RoleLevels \cup {0}]

\* The table of ancestors is that of the parents: a row for the parent, and one
\* step further a row for each of its rows.  Nothing lies above itself.
DepthAbove(p, a) ==
    IF p = NoObject THEN 0
    ELSE IF a = p THEN 1
    ELSE IF depth[p][a] > 0 THEN depth[p][a] + 1 ELSE 0
TableIsTree ==
    \A o \in Objects :
      depth[o][o] = 0 /\ \A a \in Objects : depth[o][a] = DepthAbove(parent[o], a)
AccessInv == AccessTypeOK /\ TableIsTree

\* The line from an object upward, by the parents alone, down to its nearest
\* break: what inheritance means, without the table of ancestors.
ClosedUpward(S) ==
    \A x \in S : accessMode[x] = "inherit" /\ parent[x] # NoObject => parent[x] \in S
Line(o) == {a \in Objects : \A S \in SUBSET Objects : o \in S /\ ClosedUpward(S) => a \in S}
\* What comes down a line to a person: the levels of entries, and the role.
LevelsOn(line, u) == {acl[a][u].level : a \in {b \in line : InForce(b, u)}}
RoleOn(line, u) == role[u] > 0 /\ \A a \in line : accessMode[a] = "inherit"
MayView(line, u) ==
    \/ \E level \in LevelsOn(line, u) : level > 0
    \/ RoleOn(line, u) /\ RoleGives[role[u]] > 0

\* One object, a list and the search index answer by the tree, however the
\* branch was moved and wherever it was broken: each is a query of its own over
\* a table that every move rebuilds.  The check of one object goes by the level;
\* a list takes an entry or a role of any level, the index a role of any level.
\* So neither hides what the person may view, and they show more only to a person
\* whom nothing but the level none reaches.
AnswersAgree ==
    \A o \in Objects :
      LET line == Line(o)
      IN \A u \in Members :
           /\ EffectiveLevel(o, u) > 0 <=> MayView(line, u)
           /\ ShownInLists(o, u) <=> LevelsOn(line, u) # {} \/ RoleOn(line, u)
           /\ IndexedFor(o, u) <=> MayView(line, u) \/ RoleOn(line, u)

EntriesGive(o, u) == Greatest({0} \cup EntryLevels(AclScope(o), u))

\* A break with its copies: nothing disappears and nothing closed above is
\* opened, on the object or below it.  What entries gave stays, and a level grows
\* to the default of the person's role at most; it changes at all only where the
\* space gives the role another level than the default that is copied.  An own
\* entry whose term is over is the other exception: it swallows the copy.
BreakKeepsAccess ==
    [][\A o \in Objects : BreakInheritance(o) =>
         \A x \in Objects, u \in Members :
           LET asDefault == RoleLevel(o, u) = CopiedRole(o, u)
               own == acl[o][u].until # "over"
           IN /\ EffectiveLevel(x, u)' <= Greatest({EffectiveLevel(x, u)} \cup CopiedRole(o, u))
              /\ own => EntriesGive(x, u) <= EffectiveLevel(x, u)'
              /\ asDefault => EffectiveLevel(x, u)' <= EffectiveLevel(x, u)
              /\ asDefault /\ own => EffectiveLevel(x, u)' = EffectiveLevel(x, u)]_accessVars
=============================================================================
