------------------------------ MODULE Delivery ------------------------------
(***************************************************************************)
(* What the event bus promises its subscribers (docs/02-architecture,      *)
(* 02-platform-kernel.md section 4; ADR-0027, ADR-0171): an event that     *)
(* was committed is owed to every subscriber that wants it, and stays owed *)
(* until the subscriber has handled it or it is put aside where an         *)
(* administrator finds it.  Delivery is at least once: an event may be     *)
(* handled again, never forgotten.                                         *)
(***************************************************************************)
CONSTANTS Events, Groups, Wants

VARIABLES owed,     \* pairs <<event, subscriber>> still to be delivered
          done,     \* pairs a handler has completed
          dead,     \* pairs in the dead-letter stream
          parked    \* events in quarantine

vars == <<owed, done, dead, parked>>

Pairs == {p \in Events \X Groups : p[2] \in Wants[p[1]]}
Known == owed \cup done \cup dead

Init == owed = {} /\ done = {} /\ dead = {} /\ parked = {}

\* The transaction that published the event commits.
Commit(e) ==
    /\ e \notin parked
    /\ \A g \in Groups : <<e, g>> \notin Known
    /\ owed' = owed \cup {p \in Pairs : p[1] = e}
    /\ UNCHANGED <<done, dead, parked>>

Handle(p) == p \in Known /\ done' = done \cup {p} /\ UNCHANGED <<owed, dead, parked>>

Bury(p) == p \in Known /\ dead' = dead \cup {p} /\ UNCHANGED <<owed, done, parked>>

\* Pairs stop being owed only when they are handled or dead, or when their
\* event goes into quarantine.
Settle(S, E) ==
    /\ S \subseteq owed
    /\ \A p \in S : p \in done \cup dead \/ p[1] \in E
    /\ owed' = owed \ S
    /\ parked' = parked \cup E
    /\ UNCHANGED <<done, dead>>

\* A dead letter is returned: first the pair is owed again, ...
Renew(p) == p \in Known /\ owed' = owed \cup {p} /\ UNCHANGED <<done, dead, parked>>

\* ... then the letter is deleted.
Unbury(p) ==
    /\ p \in owed \cup done
    /\ dead' = dead \ {p}
    /\ UNCHANGED <<owed, done, parked>>

Next ==
    \/ \E e \in Events : Commit(e)
    \/ \E p \in Pairs : Handle(p) \/ Bury(p) \/ Renew(p) \/ Unbury(p)
    \/ \E S \in SUBSET owed, E \in SUBSET Events : Settle(S, E)

\* Every owed pair is settled in the end.
Prompt == \A p \in Pairs : p \in owed ~> p \in done \cup dead \/ p[1] \in parked

AtLeastOnce == Init /\ [][Next]_vars
=============================================================================
