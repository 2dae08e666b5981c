------------------------------- MODULE Inbox -------------------------------
(* One case of the inbox (kernel/inbox/service.ts): what a step asks of one   *)
(* person, the person's item, the copy of it that a deputy works on, and the  *)
(* delegation that gives the deputy the right to it.  Items are opened and    *)
(* closed inside the transaction of the process engine, one at a time; the    *)
(* copies are also opened and closed by the synchronisation of a delegation,  *)
(* in transactions of their own.                                              *)
EXTENDS Naturals

CONSTANTS
    MaxCalls,   \* bound on the openings, delegations and snoozes of a run, together
    MaxNews     \* bound on the delegation events that wait

ASSUME InboxAssumption == MaxCalls \in Nat /\ MaxNews \in Nat

VARIABLES
    pending,    \* the step awaits this person's answer
    item,       \* the newest row of the person ("own") and of the deputy ("copy")
    copyNo,     \* which row of the deputy that is
    grant,      \* the delegation: its status and where today is in its dates
    news,       \* delegation events that kernel-inbox-delegations still owes
    engine,     \* the open transaction of the engine, and what it has read
    syncing,    \* what each synchronisation has read
    pressed,    \* the people whose button has been checked and not yet executed
    stray,      \* history: rows taken out of a closed state by a snooze
    openings, calls, answers    \* calls: the delegations and snoozes

inboxVars == <<pending, item, copyNo, grant, news, engine, syncing, pressed, stray,
               openings, calls, answers>>
inboxBounds == <<openings, calls>>
MayCall == openings + calls < MaxCalls

ItemRows   == {"own", "copy"}
Syncs      == {"event", "sweep"}    \* the subscriber and the job delegations.sync
ItemStates == {"none", "open", "snoozed", "closed"}
Grants     == {"none", "planned", "on", "lapsed", "over"}
ActiveIn(state) == state \in {"open", "snoozed"}
Active(r)  == ActiveIn(item[r])
Effective  == grant = "on"

EngineAt(at, also, rows) == [at |-> at, also |-> also, rows |-> rows]
SyncAt(at, scope, wanted, present) ==
    [at |-> at, scope |-> scope, wanted |-> wanted, present |-> present]
EngineIdle == EngineAt("idle", FALSE, {})
SyncIdle   == SyncAt("idle", FALSE, FALSE, 0)
Locked(r)  == r \in engine.rows     \* updated by a transaction not yet committed

InboxInit ==
    /\ pending = FALSE /\ item = [r \in ItemRows |-> "none"] /\ copyNo = 0
    /\ grant = "none" /\ news = 0 /\ engine = EngineIdle
    /\ syncing = [s \in Syncs |-> SyncIdle] /\ pressed = {} /\ stray = {}
    /\ openings = 0 /\ calls = 0 /\ answers = 0

-----------------------------------------------------------------------------
(* The engine: one transaction per process instance (the instance is locked). *)

OpenBegin ==
    /\ engine.at = "idle" /\ ~pending /\ MayCall
    /\ openings' = openings + 1
    /\ engine' = EngineAt("opening", Effective, {})
    /\ UNCHANGED <<pending, item, copyNo, grant, news, syncing, pressed, stray,
                   calls, answers>>

\* The rows of an opening: an active row of the person stands for the new one.
Opened == {r \in ItemRows : ~Active("own") /\ ~Active(r) /\ (r = "copy" => engine.also)}

\* A new row of the deputy: one that no synchronisation has read.
FreshCopy == CHOOSE n \in 1..3 : \A s \in Syncs : syncing[s].present # n

OpenCommit ==
    /\ engine.at = "opening" /\ engine' = EngineIdle
    /\ pending' = TRUE
    /\ item' = [r \in ItemRows |-> IF r \in Opened THEN "open" ELSE item[r]]
    /\ copyNo' = IF "copy" \in Opened THEN FreshCopy ELSE copyNo
    /\ stray' = stray \ (Opened \cup {"own"})
    /\ UNCHANGED <<grant, news, syncing, pressed, inboxBounds, answers>>

\* Slip: only the open items of the case are closed.
ResolvesOpenOnly == {r \in ItemRows : item[r] = "open"}
Resolves == {r \in ItemRows : Active(r)}
Closing == EngineAt("closing", FALSE, Resolves)

\* The step no longer asks the person: cancelled, handed over, re-assigned.
CloseBegin ==
    /\ engine.at = "idle" /\ pending /\ engine' = Closing
    /\ UNCHANGED <<pending, item, copyNo, grant, news, syncing, pressed, stray,
                   inboxBounds, answers>>

CloseCommit ==
    /\ engine.at = "closing" /\ engine' = EngineIdle
    /\ pending' = FALSE
    /\ item' = [r \in ItemRows |-> IF r \in engine.rows THEN "closed" ELSE item[r]]
    /\ stray' = stray \ engine.rows
    /\ UNCHANGED <<copyNo, grant, news, syncing, pressed, inboxBounds, answers>>

\* The button is checked against the item as it is read, without a lock.
Press(r) ==
    /\ r \notin pressed /\ Active(r) /\ (r = "copy" => Effective)
    /\ pressed' = pressed \cup {r}
    /\ UNCHANGED <<pending, item, copyNo, grant, news, engine, syncing, stray,
                   inboxBounds, answers>>

\* Slip: the handler trusts the item and does not ask the step again.
AcceptsAny == TRUE
Accepts == pending

\* ... and executed once the instance is locked.
Answer(r) ==
    /\ r \in pressed /\ engine.at = "idle"
    /\ pressed' = pressed \ {r}
    /\ IF Accepts THEN engine' = Closing /\ answers' = answers + 1
                  ELSE UNCHANGED <<engine, answers>>
    /\ UNCHANGED <<pending, item, copyNo, grant, news, syncing, stray, inboxBounds>>

-----------------------------------------------------------------------------
(* Snoozing, by the owner of the row, and waking.                             *)

\* One item, in whatever state it is.
Snooze(r) ==
    /\ item[r] # "none" /\ ~Locked(r) /\ MayCall
    /\ item' = [item EXCEPT ![r] = "snoozed"] /\ calls' = calls + 1
    /\ stray' = IF Active(r) THEN stray ELSE stray \cup {r}
    /\ UNCHANGED <<pending, copyNo, grant, news, engine, syncing, pressed, openings,
                   answers>>

\* Several at once: the open ones.
BulkSnooze(r) ==
    /\ item[r] = "open" /\ ~Locked(r) /\ MayCall
    /\ item' = [item EXCEPT ![r] = "snoozed"] /\ calls' = calls + 1
    /\ UNCHANGED <<pending, copyNo, grant, news, engine, syncing, pressed, stray,
                   openings, answers>>

Wake(r) ==
    /\ item[r] = "snoozed" /\ ~Locked(r)
    /\ item' = [item EXCEPT ![r] = "open"]
    /\ UNCHANGED <<pending, copyNo, grant, news, engine, syncing, pressed, stray,
                   inboxBounds, answers>>

-----------------------------------------------------------------------------
(* The delegation.  Its start and its end are events; its dates are not.      *)

Told(moves) == IF moves THEN news < MaxNews /\ news' = news + 1 ELSE news' = news
GrantStep(from, to, tells) ==
    /\ grant \in from /\ grant' = to /\ Told(tells)
    /\ UNCHANGED <<pending, item, copyNo, engine, syncing, pressed, stray,
                   openings, answers>>

StartDelegation ==
    /\ MayCall /\ calls' = calls + 1
    /\ \E to \in {"planned", "on"} : GrantStep({"none", "over"}, to, TRUE)
DateComes       == GrantStep({"planned"}, "on", FALSE) /\ UNCHANGED calls
TermEnds        == GrantStep({"on"}, "lapsed", FALSE) /\ UNCHANGED calls
StopDelegation  == GrantStep({"planned", "on", "lapsed"}, "over", TRUE) /\ UNCHANGED calls
ExpireDue       == GrantStep({"lapsed"}, "over", TRUE) /\ UNCHANGED calls

-----------------------------------------------------------------------------
(* syncDeputyCopies: three reads and a write, each seeing what is committed.  *)

SyncStep(s, r) ==
    /\ syncing' = [syncing EXCEPT ![s] = r]
    /\ UNCHANGED <<pending, grant, engine, pressed, inboxBounds, answers>>

\* Slip: the job goes by the delegations that are still to come.
PairsToCome == grant = "planned"
EffectivePairs == Effective

SyncBegin(s) ==
    /\ syncing[s].at = "idle"
    /\ \/ s = "event" /\ news > 0 /\ news' = news - 1
       \/ s = "sweep" /\ EffectivePairs /\ UNCHANGED news
    /\ SyncStep(s, SyncAt("scope", Effective, FALSE, 0))
    /\ UNCHANGED <<item, copyNo, stray>>

\* The originals that the scope covers; it was read for this and is not looked
\* at again.
SyncOriginals(s) ==
    /\ syncing[s].at = "scope"
    /\ SyncStep(s, SyncAt("originals", FALSE, syncing[s].scope /\ Active("own"), 0))
    /\ UNCHANGED <<item, copyNo, news, stray>>

\* The copies; a closed copy is none (0).
SyncCopies(s) ==
    /\ syncing[s].at = "originals"
    /\ SyncStep(s, SyncAt("read", FALSE, syncing[s].wanted,
                          IF Active("copy") THEN copyNo ELSE 0))
    /\ UNCHANGED <<item, copyNo, news, stray>>

SyncOpens(s)  == syncing[s].wanted /\ syncing[s].present = 0 /\ ~Active("copy")
SyncCloses(s) == ~syncing[s].wanted /\ syncing[s].present = copyNo /\ copyNo > 0

SyncCommit(s) ==
    /\ syncing[s].at = "read" /\ (SyncCloses(s) => ~Locked("copy"))
    /\ item' = [item EXCEPT !["copy"] = IF SyncOpens(s) THEN "open"
                                        ELSE IF SyncCloses(s) THEN "closed" ELSE @]
    /\ copyNo' = IF SyncOpens(s) THEN FreshCopy ELSE copyNo
    /\ stray' = IF SyncOpens(s) \/ SyncCloses(s) THEN stray \ {"copy"} ELSE stray
    /\ SyncStep(s, SyncIdle) /\ UNCHANGED news

InboxNext ==
    \/ OpenBegin \/ OpenCommit \/ CloseBegin \/ CloseCommit
    \/ \E r \in ItemRows : Press(r) \/ Answer(r) \/ Snooze(r) \/ BulkSnooze(r) \/ Wake(r)
    \/ StartDelegation \/ DateComes \/ TermEnds \/ StopDelegation \/ ExpireDue
    \/ \E s \in Syncs : SyncBegin(s) \/ SyncOriginals(s) \/ SyncCopies(s) \/ SyncCommit(s)

\* Transactions end, the subscriber gets its events, the job runs every five
\* minutes; what people do is not owed.
InboxFairness ==
    /\ WF_inboxVars(OpenCommit) /\ WF_inboxVars(CloseCommit)
    /\ WF_inboxVars(ExpireDue)
    /\ \A s \in Syncs : /\ WF_inboxVars(SyncBegin(s))
                        /\ WF_inboxVars(SyncOriginals(s)) /\ WF_inboxVars(SyncCopies(s))
                        /\ WF_inboxVars(SyncCommit(s))
InboxSpec == InboxInit /\ [][InboxNext]_inboxVars
InboxFairSpec == InboxSpec /\ InboxFairness

-----------------------------------------------------------------------------
Engines  == [at : {"idle", "opening", "closing"}, also : BOOLEAN, rows : SUBSET ItemRows]
Readings == [at : {"idle", "scope", "originals", "read"}, scope : BOOLEAN,
             wanted : BOOLEAN, present : Nat]
InboxTypeOK ==
    /\ pending \in BOOLEAN /\ item \in [ItemRows -> ItemStates] /\ copyNo \in Nat
    /\ grant \in Grants /\ news \in Nat
    /\ engine \in Engines /\ syncing \in [Syncs -> Readings]
    /\ pressed \subseteq ItemRows /\ stray \subseteq ItemRows
    /\ openings \in Nat /\ calls \in Nat /\ answers \in Nat

\* The person has an active item exactly while the step awaits the answer,
\* through snoozing, waking, deputies and re-openings; a closed item that was
\* snoozed is the one exception (NoItemReopens).
CaseMatchesStep == Active("own") <=> (pending \/ "own" \in stray)

\* The person and the deputy, who both see the item, give one answer between
\* them each time the step asks.
OneAnswer == answers <= openings

\* While a delegation lasts, the deputy has a copy exactly while the person has
\* the item, whichever transaction read the other's rows too early.
CopiesFollow == <>[](Effective => (Active("copy") <=> Active("own")))

\* Items close by themselves when the action is done and stay closed.
NoItemReopens == [][\A r \in ItemRows : item[r] = "closed" /\ ActiveIn(item'[r]) =>
                        r = "copy" \/ pending']_inboxVars

\* When the delegation is over, its copies are closed.
CopiesEnd == <>[](grant = "over" => ~Active("copy"))

\* What makes the invariants inductive: a question asked, or about to be, is
\* paid for by an opening until it is answered, and the transaction that closes
\* the case holds the person's row.
Owed == (IF pending /\ engine.at = "idle" THEN 1 ELSE 0) + (IF engine.at = "opening" THEN 1 ELSE 0)
EngineInv ==
    /\ engine.at = "opening" => ~pending
    /\ engine.at = "closing" => pending /\ "own" \in engine.rows
    /\ answers + Owed <= openings
InboxInv == InboxTypeOK /\ CaseMatchesStep /\ EngineInv
=============================================================================
