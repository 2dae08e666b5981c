------------------------------ MODULE Numbering ------------------------------
(* The numbers of one journal in one year (modules/documents/domain:          *)
(* journal-service.ts issue, reserve, cancelReservation; document-service.ts  *)
(* register, cancel).  A registration is a transaction that locks the         *)
(* document, then the counter or a reservation, and commits or rolls back.    *)
EXTENDS Naturals

CONSTANTS
    Documents,
    Registrars,     \* transactions that may run at once
    MaxNumber,      \* bound on the counter
    NoDocument, NoRegistrar

ASSUME NumberingAssumption ==
    /\ MaxNumber \in Nat
    /\ NoDocument \notin Documents /\ NoRegistrar \notin Registrars

VARIABLES
    status,         \* the status of each document
    lastSeq,        \* the committed counter
    counterOf,      \* the transaction that has raised it and not yet ended
    reservation,    \* the state of each number's reservation
    registered,     \* the rows of registrations: <<number, document>>
    reg             \* each registration in progress

numberVars == <<status, lastSeq, counterOf, reservation, registered, reg>>

Numbers == 1..MaxNumber
Statuses == {"draft", "registered", "cancelled"}
ReservationStates == {"none", "open", "used", "cancelled"}
Registering(at, d, q, reserved) == [at |-> at, doc |-> d, seq |-> q, reserved |-> reserved]
NoRegistration == Registering("idle", NoDocument, 0, FALSE)

NumberingInit ==
    /\ status = [d \in Documents |-> "draft"] /\ lastSeq = 0 /\ counterOf = NoRegistrar
    /\ reservation = [q \in Numbers |-> "none"] /\ registered = {}
    /\ reg = [t \in Registrars |-> NoRegistration]

DocumentLocked(d) == \E t \in Registrars : reg[t].doc = d
ReservationLocked(q) == \E t \in Registrars : reg[t].reserved /\ reg[t].seq = q

\* register: the row FOR UPDATE, and the status as it is under the lock.
RegisterBegin(t, d) ==
    /\ reg[t].at = "idle" /\ ~DocumentLocked(d) /\ status[d] = "draft"
    /\ reg' = [reg EXCEPT ![t] = Registering("checked", d, 0, FALSE)]
    /\ UNCHANGED <<status, lastSeq, counterOf, reservation, registered>>

\* Slip: the number is read without the lock of the counter's row.
CounterAnyway(t) == TRUE
CounterFree(t) == counterOf = NoRegistrar

\* issue: the upsert of the counter, whose row stays locked.
IssueNext(t) ==
    /\ reg[t].at = "checked" /\ CounterFree(t) /\ lastSeq < MaxNumber
    /\ counterOf' = t
    /\ reg' = [reg EXCEPT ![t] = Registering("numbered", @.doc, lastSeq + 1, FALSE)]
    /\ UNCHANGED <<status, lastSeq, reservation, registered>>

\* issue from a reservation: its row FOR UPDATE, and it must still be open.
IssueReserved(t, q) ==
    /\ reg[t].at = "checked" /\ ~ReservationLocked(q) /\ reservation[q] = "open"
    /\ reg' = [reg EXCEPT ![t] = Registering("numbered", @.doc, q, TRUE)]
    /\ UNCHANGED <<status, lastSeq, counterOf, reservation, registered>>

\* useReservation, the row of registrations, the document's status, the commit.
RegisterCommit(t) ==
    LET r == reg[t] IN
    /\ r.at = "numbered"
    /\ registered' = registered \cup {<<r.seq, r.doc>>}
    /\ status' = [status EXCEPT ![r.doc] = "registered"]
    /\ IF r.reserved
       THEN /\ reservation' = [reservation EXCEPT ![r.seq] = "used"]
            /\ UNCHANGED <<lastSeq, counterOf>>
       ELSE lastSeq' = r.seq /\ counterOf' = NoRegistrar /\ UNCHANGED reservation
    /\ reg' = [reg EXCEPT ![t] = NoRegistration]

\* Slip: a counter raised outside the transaction keeps the lost number.
KeepsNumber(t) == IF reg[t].seq > lastSeq THEN reg[t].seq ELSE lastSeq
RollsBack(t) == lastSeq

\* Any check or write of the transaction fails, or its process dies.
RegisterAbort(t) ==
    /\ reg[t].at # "idle"
    /\ lastSeq' = RollsBack(t)
    /\ counterOf' = IF counterOf = t THEN NoRegistrar ELSE counterOf
    /\ reg' = [reg EXCEPT ![t] = NoRegistration]
    /\ UNCHANGED <<status, reservation, registered>>

\* Numbers for paper documents: one upsert of the counter, then their rows.
ReserveNumbers(n) ==
    /\ counterOf = NoRegistrar /\ lastSeq + n <= MaxNumber
    /\ lastSeq' = lastSeq + n
    /\ reservation' = [q \in Numbers |-> IF q > lastSeq /\ q <= lastSeq + n
                                         THEN "open" ELSE reservation[q]]
    /\ UNCHANGED <<status, counterOf, registered, reg>>

\* Slip: the reservation is cancelled whatever it has become.
AnyReserved(q) == reservation[q] # "none"
Cancellable(q) == reservation[q] = "open"

\* The conditional UPDATE waits for the row and looks at its state again.
CancelReservation(q) ==
    /\ ~ReservationLocked(q) /\ Cancellable(q)
    /\ reservation' = [reservation EXCEPT ![q] = "cancelled"]
    /\ UNCHANGED <<status, lastSeq, counterOf, registered, reg>>

\* A draft or a registered document is annulled; its number stays taken.
CancelDocument(d) ==
    /\ ~DocumentLocked(d) /\ status[d] \in {"draft", "registered"}
    /\ status' = [status EXCEPT ![d] = "cancelled"]
    /\ UNCHANGED <<lastSeq, counterOf, reservation, registered, reg>>

NumberingNext ==
    \/ \E t \in Registrars :
        \/ \E d \in Documents : RegisterBegin(t, d)
        \/ IssueNext(t) \/ (\E q \in Numbers : IssueReserved(t, q))
        \/ RegisterCommit(t) \/ RegisterAbort(t)
    \/ \E n \in Numbers : ReserveNumbers(n)
    \/ \E q \in Numbers : CancelReservation(q)
    \/ \E d \in Documents : CancelDocument(d)
NumberingSpec == NumberingInit /\ [][NumberingNext]_numberVars

-----------------------------------------------------------------------------
Registration == [at : {"idle", "checked", "numbered"}, doc : Documents \cup {NoDocument},
                 seq : 0..MaxNumber, reserved : BOOLEAN]
NumberingTypeOK ==
    /\ status \in [Documents -> Statuses] /\ lastSeq \in 0..MaxNumber
    /\ counterOf \in Registrars \cup {NoRegistrar}
    /\ reservation \in [Numbers -> ReservationStates]
    /\ registered \subseteq Numbers \X Documents
    /\ reg \in [Registrars -> Registration]

\* No two documents get one number and no document gets two, though
\* registrations run side by side (journal-service.ts: "без пропусков и
\* повторов").
OneNumberEach ==
    \A x, y \in registered : x[1] = y[1] \/ x[2] = y[2] => x = y

Given(q) == \E d \in Documents : <<q, d>> \in registered

\* No number is skipped and none is both promised and given: every number the
\* counter has passed is registered, or a reservation not yet used; also when a
\* registration fails after it was given its number.
NoNumberLost ==
    \A q \in Numbers :
        /\ q <= lastSeq <=> (Given(q) \/ reservation[q] # "none")
        /\ reservation[q] \in {"open", "cancelled"} => ~Given(q)
        /\ reservation[q] = "used" => Given(q)

\* What makes them inductive: what a registration in progress has in its hands.
InProgress ==
    /\ \A t \in Registrars :
        /\ reg[t].at = "idle" => reg[t] = NoRegistration
        /\ reg[t].at # "idle" => reg[t].doc \in Documents /\ status[reg[t].doc] = "draft"
        /\ counterOf = t <=> reg[t].at = "numbered" /\ ~reg[t].reserved
        /\ reg[t].reserved => reg[t].at = "numbered"
        /\ reg[t].at = "numbered" =>
            /\ reg[t].seq \in Numbers
            /\ IF reg[t].reserved THEN reservation[reg[t].seq] = "open"
                                  ELSE reg[t].seq = lastSeq + 1
    /\ \A t, u \in Registrars :
        /\ reg[t].at # "idle" /\ reg[t].doc = reg[u].doc => t = u
        /\ reg[t].reserved /\ reg[u].reserved /\ reg[t].seq = reg[u].seq => t = u
    /\ \A x \in registered : status[x[2]] # "draft"
NumberingInv == NumberingTypeOK /\ InProgress /\ OneNumberEach /\ NoNumberLost
=============================================================================
