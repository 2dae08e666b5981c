--------------------------- MODULE SharedDocument ---------------------------
(* One document edited together (kernel/collab/store.ts, server.ts): a Yjs    *)
(* document is the set of the edits it has merged; every api process keeps    *)
(* its own while somebody has it open, and saves it to one row some seconds   *)
(* after an edit.  Processes meet only in that row.                           *)
EXTENDS Naturals

CONSTANTS
    Processes,      \* api processes that may have the document open
    Edits,          \* the edits people and the server make, each once
    RowExists,      \* the row was created with the object (CollabStore.create)
    DocumentFaults  \* bound on crashes and failed snapshots

ASSUME SharedDocumentAssumption == RowExists \in BOOLEAN /\ DocumentFaults \in Nat

VARIABLES
    stored,     \* the row: the edits of its state
    hasRow,
    doc,        \* doc[p]: whether p has it open, its edits, and whether they
                \* have changed since the last save began
    saving,     \* saving[p]: a save that has read the row and not yet written
    typed,      \* history: the edits made and not lost with their process
    documentFaults

documentVars == <<stored, hasRow, doc, saving, typed, documentFaults>>

ClosedDoc == [open |-> FALSE, edits |-> {}, dirty |-> FALSE]
NoSave    == [on |-> FALSE, state |-> {}, locks |-> FALSE]
DocumentFault == documentFaults < DocumentFaults /\ documentFaults' = documentFaults + 1
RowLocked == \E p \in Processes : saving[p].locks

DocumentInit ==
    /\ stored = {} /\ hasRow = RowExists /\ typed = {} /\ documentFaults = 0
    /\ doc = [p \in Processes |-> ClosedDoc] /\ saving = [p \in Processes |-> NoSave]

\* The row, or the initial state of an object older than shared editing.
OpenDocument(p) ==
    /\ ~doc[p].open
    /\ doc' = [doc EXCEPT ![p] = [open |-> TRUE, edits |-> stored, dirty |-> FALSE]]
    /\ UNCHANGED <<stored, hasRow, saving, typed, documentFaults>>

\* By a person's socket or by CollabService.change.
Edit(p, e) ==
    /\ doc[p].open /\ \A q \in Processes : e \notin doc[q].edits
    /\ e \notin typed /\ e \notin stored
    /\ doc' = [doc EXCEPT ![p].edits = @ \cup {e}, ![p].dirty = TRUE]
    /\ typed' = typed \cup {e}
    /\ UNCHANGED <<stored, hasRow, saving, documentFaults>>

\* Slip: the saved state is the document as it is.
MergesNothing(p) == doc[p].edits
\* What another process has stored and the document lacks is applied to it.
Merged(p) == IF hasRow THEN doc[p].edits \cup stored ELSE doc[p].edits

\* The row is read FOR UPDATE - when there is one - and the merge encoded.
SaveBegin(p) ==
    /\ doc[p].dirty /\ ~saving[p].on
    /\ hasRow => ~RowLocked
    /\ saving' = [saving EXCEPT ![p] = [on |-> TRUE, state |-> Merged(p), locks |-> hasRow]]
    /\ doc' = [doc EXCEPT ![p].edits = Merged(p), ![p].dirty = FALSE]
    /\ UNCHANGED <<stored, hasRow, typed, documentFaults>>

\* The upsert writes the encoded state over the row; a row that a save found
\* missing may have been written meanwhile, but not be locked at this moment.
SaveCommit(p) ==
    /\ saving[p].on /\ (~saving[p].locks => ~RowLocked)
    /\ stored' = saving[p].state /\ hasRow' = TRUE
    /\ saving' = [saving EXCEPT ![p] = NoSave]
    /\ UNCHANGED <<doc, typed, documentFaults>>

\* The snapshot fails and rolls the save back: it is done again without it.
SaveFails(p) ==
    /\ saving[p].on /\ DocumentFault
    /\ saving' = [saving EXCEPT ![p] = NoSave]
    /\ doc' = [doc EXCEPT ![p].dirty = TRUE]
    /\ UNCHANGED <<stored, hasRow, typed>>

\* Slip: the last one to leave closes the document at once.
Unloads(p) == doc[p].open
\* When the last one leaves, the document is saved first.
Unloadable(p) == doc[p].open /\ ~doc[p].dirty /\ ~saving[p].on

CloseDocument(p) ==
    /\ Unloadable(p)
    /\ doc' = [doc EXCEPT ![p] = ClosedDoc] /\ saving' = [saving EXCEPT ![p] = NoSave]
    /\ UNCHANGED <<stored, hasRow, typed, documentFaults>>

\* A crash takes with it what was typed since the last save.
ProcessDies(p) ==
    /\ doc[p].open /\ DocumentFault
    /\ doc' = [doc EXCEPT ![p] = ClosedDoc] /\ saving' = [saving EXCEPT ![p] = NoSave]
    /\ typed' = typed \ (doc[p].edits \ stored)
    /\ UNCHANGED <<stored, hasRow>>

DocumentNext ==
    \E p \in Processes :
        \/ OpenDocument(p) \/ (\E e \in Edits : Edit(p, e)) \/ SaveBegin(p)
        \/ SaveCommit(p) \/ SaveFails(p) \/ CloseDocument(p) \/ ProcessDies(p)

\* The debounce has an upper limit of ten seconds, and transactions end.
DocumentFairness ==
    \A p \in Processes : /\ SF_documentVars(SaveBegin(p))
                         /\ WF_documentVars(SaveCommit(p))
DocumentSpec == DocumentInit /\ [][DocumentNext]_documentVars
DocumentFairSpec == DocumentSpec /\ DocumentFairness

-----------------------------------------------------------------------------
DocumentTypeOK ==
    /\ stored \subseteq Edits /\ hasRow \in BOOLEAN /\ typed \subseteq Edits
    /\ doc \in [Processes -> [open : BOOLEAN, edits : SUBSET Edits, dirty : BOOLEAN]]
    /\ saving \in [Processes -> [on : BOOLEAN, state : SUBSET Edits, locks : BOOLEAN]]
    /\ documentFaults \in 0..DocumentFaults

\* A save never takes out of the row what another process has saved into it
\* (store.ts: "его изменения не теряются").
StoredStays == [][stored \subseteq stored']_documentVars

\* Every edit reaches the row, unless its process dies within seconds of it:
\* closing the document, a save that fails and a save of another process at
\* the same moment lose none.
EditsReachTheRow == <>[](typed \subseteq stored)

\* What makes StoredStays inductive: a save holds the row and has merged it.
SaveInv ==
    /\ hasRow
    /\ \A p \in Processes : saving[p].on <=> saving[p].locks
    /\ \A p, q \in Processes : saving[p].on /\ saving[q].on => p = q
    /\ \A p \in Processes : saving[p].on => stored \subseteq saving[p].state
DocumentInv == DocumentTypeOK /\ (RowExists => SaveInv)
=============================================================================
