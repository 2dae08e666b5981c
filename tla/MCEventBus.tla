----------------------------- MODULE MCEventBus -----------------------------
(* Small instances of EventBus for TLC.                                     *)
EXTENDS EventBusInductive, TLC

CONSTANTS g1, g2

\* Everybody wants every event.
AllWant == [e \in Events |-> Groups]

\* Two questions in one run: dead letters are returned where no row is refused,
\* and a row to be refused is published before the stream has an entry.  Neither
\* publishers nor administrators are owed fairness, so no loop is held back.
\* Faults are those of the first pass, before anything is in the stream.
RetriesOrPoison ==
    /\ faults' # faults => stream = <<>>
    /\ retry' # retry => faults = 0 /\ \A e \in Poison : outbox[e] = "none"
    /\ stream # <<>> => \A e \in Poison : outbox[e] = "none" => outbox'[e] = "none"
LettersAndRowsSpec ==
    /\ Init /\ [][Next /\ RetriesOrPoison]_vars
    /\ \A r \in Replicas : WF_vars(DispatcherStep(r))
    /\ \A w \in Workers : WF_vars(WorkerStep(w))

=============================================================================
