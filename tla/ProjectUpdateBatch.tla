------------------------- MODULE ProjectUpdateBatch -------------------------
(***************************************************************************)
(* The update workflow of one approved project: a batch is started as a     *)
(* copy of the project, edited step by step, submitted, returned or         *)
(* approved, and an approval merges the batch back into the project.  The   *)
(* treatments, which are merged differently, are in ProjectUpdateCommit.    *)
(*                                                                          *)
(* The data of the project and of a batch is the set of rows it consists    *)
(* of.  A handler is a request in flight; each of its database round trips  *)
(* is a step, because nothing (no row version, no lock, no outer            *)
(* transaction) ties them together.  The stored procedure that starts a     *)
(* batch commits statement by statement.  After a transient failure the     *)
(* connection may run a procedure again (EnableRetryOnFailure, as the       *)
(* comment on ExecuteTreatmentImportProcAsync describes it) or not: every   *)
(* property holds either way.                                               *)
(***************************************************************************)
EXTENDS Naturals, FiniteSets, Sequences

CONSTANTS Handlers,        \* requests that can be in flight at the same time
          Items,           \* the rows a project may consist of
          MaxBatch,        \* bound: batches ever started
          MaxTransitions   \* bound: recorded transitions of one batch

ASSUME BoundsAssumption == MaxBatch \in Nat \ {0} /\ MaxTransitions \in Nat

VARIABLES
    project,      \* the rows of the live project
    state,        \* per batch: ProjectUpdateStateID, or "None", "Deleted"
    content,      \* per batch: the rows of its update tables
    transitions,  \* per batch: ProjectUpdateHistory after its Created entry
    diffLog,      \* per batch: the rows StructuredDiffLogJson shows as changed
    committed,    \* history variable: pCommitProjectUpdateToProject has run for it
    pc,           \* per handler: its next database round trip
    batch,        \* per handler: the batch it works on, 0 if none
    seen,         \* per handler: the rows it loaded, or the diff it computed
    logged        \* per handler: how many transitions it loaded

tables == <<project, state, content, transitions, diffLog, committed>>
requests == <<pc, batch, seen, logged>>
vars == <<project, state, content, transitions, diffLog, committed,
          pc, batch, seen, logged>>

Batches == 1 .. MaxBatch
ActiveStates == {"Created", "Submitted", "Returned"}
Recorded == {"Submitted", "Returned", "Approved"}
States == {"None", "Created", "Deleted"} \cup Recorded
Steps == {"idle", "start", "insert", "copy", "current", "started", "save", "revert", "gdb",
          "create", "submit", "return", "commit", "approve", "children", "delete"}

Active(b) == state[b] \in ActiveStates
Exists(b) == state[b] \notin {"None", "Deleted"}
SymDiff(S, T) == (S \ T) \cup (T \ S)

\* VerifyBatchIsEditable, and the same test in SubmitAsync and DeleteBatchAsync.
\* Mutant: a submitted batch is not protected.
EditableOrSubmitted(b) == state[b] \in ActiveStates
IsEditable(b) == state[b] \in {"Created", "Returned"}

\* The latest batch of the project, if any, is approved.
LatestIsApproved ==
    \A b \in Batches :
        Exists(b) /\ (\A later \in Batches : Exists(later) => later <= b) => state[b] = "Approved"

Init ==
    /\ project \in SUBSET Items
    /\ state = [b \in Batches |-> "None"]
    /\ content = [b \in Batches |-> {}]
    /\ transitions = [b \in Batches |-> <<>>]
    /\ diffLog = [b \in Batches |-> {}]
    /\ committed = [b \in Batches |-> FALSE]
    /\ pc = [h \in Handlers |-> "idle"]
    /\ batch = [h \in Handlers |-> 0]
    /\ seen = [h \in Handlers |-> {}]
    /\ logged = [h \in Handlers |-> 0]

----------------------------------------------------------------------------
(* Requests.                                                                *)

Goto(h, step) == pc' = [pc EXCEPT ![h] = step] /\ UNCHANGED <<batch, seen, logged>>

\* The request takes the batch GetCurrentBatchAsync returns, any active one, and
\* loads it again.
Begin(h, step, b) ==
    /\ pc[h] = "idle"
    /\ Active(b)
    /\ pc' = [pc EXCEPT ![h] = step]
    /\ batch' = [batch EXCEPT ![h] = b]

End(h) ==
    /\ pc' = [pc EXCEPT ![h] = "idle"]
    /\ batch' = [batch EXCEPT ![h] = 0]
    /\ seen' = [seen EXCEPT ![h] = {}]
    /\ logged' = [logged EXCEPT ![h] = 0]

\* The row of a batch deleted meanwhile is not updated: SaveChanges throws.
Saving(h, step) == pc[h] = step /\ Exists(batch[h]) /\ End(h)

\* A transition writes the state and its history entry in one SaveChanges.
Record(b, to) ==
    /\ Len(transitions[b]) < MaxTransitions
    /\ state' = [state EXCEPT ![b] = to]
    /\ transitions' = [transitions EXCEPT ![b] = Append(@, to)]

----------------------------------------------------------------------------
(* StartBatchAsync and pStartProjectUpdateBatch.                            *)

BeginStart(h) ==
    /\ pc[h] = "idle"
    /\ LatestIsApproved
    /\ Goto(h, "start")
    /\ UNCHANGED tables

\* Mutant: the procedure relies on the check its caller made.
ProcCheckUnguarded(h) == pc[h] = "start" /\ Goto(h, "insert") /\ UNCHANGED tables

\* The guard of the procedure: with a batch in progress it returns without an error.
ProcCheck(h) ==
    /\ pc[h] = "start"
    /\ Goto(h, IF \E b \in Batches : Active(b) THEN "current" ELSE "insert")
    /\ UNCHANGED tables

ProcInsert(h) ==
    /\ pc[h] = "insert"
    /\ \E b \in Batches :
        /\ \A other \in Batches : state[other] = "None" <=> other >= b
        /\ state' = [state EXCEPT ![b] = "Created"]
        /\ pc' = [pc EXCEPT ![h] = "copy"]
        /\ batch' = [batch EXCEPT ![h] = b]
    /\ UNCHANGED <<project, content, transitions, diffLog, committed, seen, logged>>

\* All the INSERT ... SELECT statements, and the Created history entry.
ProcCopy(h) ==
    /\ pc[h] = "copy"
    /\ Exists(batch[h])
    /\ content' = [content EXCEPT ![batch[h]] = @ \cup project]
    /\ Goto(h, "current")
    /\ UNCHANGED <<project, state, transitions, diffLog, committed>>

\* One of the statements fails after some rows were copied.  There is no
\* transaction to undo them; a transient failure runs the procedure again.
ProcFails(h) ==
    /\ pc[h] = "copy"
    /\ \E copied \in SUBSET project :
        content' = [content EXCEPT ![batch[h]] = IF Exists(batch[h]) THEN @ \cup copied ELSE @]
    /\ \/ End(h)
       \/ /\ pc' = [pc EXCEPT ![h] = "start"]
          /\ batch' = [batch EXCEPT ![h] = 0]
          /\ UNCHANGED <<seen, logged>>
    /\ UNCHANGED <<project, state, transitions, diffLog, committed>>

\* The batch to report is looked up again: any active one, or none.
FindCurrent(h) ==
    /\ pc[h] = "current"
    /\ \E b \in Batches \cup {0} :
        /\ IF b = 0 THEN \A c \in Batches : ~Active(c) ELSE Active(b)
        /\ batch' = [batch EXCEPT ![h] = b]
    /\ pc' = [pc EXCEPT ![h] = "started"]
    /\ UNCHANGED <<tables, seen, logged>>

\* The audit row "Project Update record: set to Created" and the response.
LogCreated(h) == pc[h] = "started" /\ End(h) /\ UNCHANGED tables

----------------------------------------------------------------------------
(* The step saves, the reverts, and what adds rows without looking at the    *)
(* state: the GDB import and the new photos, documents and notes.            *)

Rewrite(b, rows) == content' = [content EXCEPT ![b] = rows]

\* Mutant: a step save does not verify that the batch is editable.
BeginEditUnverified(h, step, b) ==
    /\ step \in {"save", "revert"}
    /\ Begin(h, step, b)
    /\ UNCHANGED <<tables, seen, logged>>

BeginEdit(h, step, b) ==
    /\ step \in {"save", "revert"}
    /\ IsEditable(b)
    /\ Begin(h, step, b)
    /\ UNCHANGED <<tables, seen, logged>>

\* The request decides which rows the step has afterwards.
SaveStep(h) ==
    /\ Saving(h, "save")
    /\ \E rows \in SUBSET Items : Rewrite(batch[h], rows)
    /\ UNCHANGED <<project, state, transitions, diffLog, committed>>

\* A revert of the detailed locations saves its deletions and some of the copied
\* rows before the rest; other requests run in between, and it may end there.
FlushRevert(h) ==
    /\ pc[h] = "revert"
    /\ Exists(batch[h])
    /\ \E step \in SUBSET Items : \E copied \in SUBSET (project \cap step) :
        Rewrite(batch[h], (content[batch[h]] \ step) \cup copied)
    /\ UNCHANGED <<project, state, transitions, diffLog, committed, requests>>

\* The rows of one step are replaced by those of the project.
SaveRevert(h) ==
    /\ Saving(h, "revert")
    /\ \E step \in SUBSET Items :
        Rewrite(batch[h], (content[batch[h]] \ step) \cup (project \cap step))
    /\ UNCHANGED <<project, state, transitions, diffLog, committed>>

\* ApproveGdbImportAsync does not call VerifyBatchIsEditable.
BeginGdb(h, b) == Begin(h, "gdb", b) /\ UNCHANGED <<tables, seen, logged>>

SaveGdb(h) ==
    /\ Saving(h, "gdb")
    /\ \E rows \in SUBSET Items : Rewrite(batch[h], content[batch[h]] \cup rows)
    /\ UNCHANGED <<project, state, transitions, diffLog, committed>>

\* Nor do the endpoints that create a photo, a document or a note, although those
\* that change or delete one do.
BeginCreate(h, b) == Begin(h, "create", b) /\ UNCHANGED <<tables, seen, logged>>

SaveCreate(h) ==
    /\ Saving(h, "create")
    /\ \E row \in Items : Rewrite(batch[h], content[batch[h]] \cup {row})
    /\ UNCHANGED <<project, state, transitions, diffLog, committed>>

----------------------------------------------------------------------------
(* Submit, return, approve.                                                 *)

BeginSubmit(h, b) ==
    /\ IsEditable(b)
    /\ Begin(h, "submit", b)
    /\ UNCHANGED <<tables, seen, logged>>

\* Mutant: the status of the create workflow instead of the update state.
SaveSubmitWrongEnum(h) ==
    /\ Saving(h, "submit")
    /\ Record(batch[h], "PendingApproval")
    /\ UNCHANGED <<project, content, diffLog, committed>>

SaveSubmit(h) ==
    /\ Saving(h, "submit")
    /\ Record(batch[h], "Submitted")
    /\ UNCHANGED <<project, content, diffLog, committed>>

BeginReturn(h, b) ==
    /\ state[b] = "Submitted"
    /\ Begin(h, "return", b)
    /\ UNCHANGED <<tables, seen, logged>>

\* Mutant: the return is not recorded in the history.
SaveReturnUnrecorded(h) ==
    /\ Saving(h, "return")
    /\ state' = [state EXCEPT ![batch[h]] = "Returned"]
    /\ UNCHANGED <<project, content, transitions, diffLog, committed>>

SaveReturn(h) ==
    /\ Saving(h, "return")
    /\ Record(batch[h], "Returned")
    /\ UNCHANGED <<project, content, diffLog, committed>>

\* Mutant: any batch in progress can be approved.
BeginApproveAny(h, b) ==
    /\ Begin(h, "commit", b)
    /\ seen' = [seen EXCEPT ![h] = SymDiff(content[b], project)]
    /\ UNCHANGED <<tables, logged>>

\* GenerateAndStoreDiffsAsync only assigns the diff; the last save writes it.
BeginApprove(h, b) ==
    /\ state[b] = "Submitted"
    /\ Begin(h, "commit", b)
    /\ seen' = [seen EXCEPT ![h] = SymDiff(content[b], project)]
    /\ UNCHANGED <<tables, logged>>

\* The procedure merges whatever rows the batch has now, in its own transaction;
\* it returns silently if the batch is gone and does not look at its state.  If
\* the answer is lost the connection runs it again.
Commit(h) ==
    /\ pc[h] = "commit"
    /\ IF Exists(batch[h])
       THEN /\ project' = content[batch[h]]
            /\ committed' = [committed EXCEPT ![batch[h]] = TRUE]
       ELSE UNCHANGED <<project, committed>>
    /\ \E next \in {"approve", "commit"} : Goto(h, next)
    /\ UNCHANGED <<state, content, transitions, diffLog>>

\* Like every column, the diff is written only if it is not the one loaded; with one
\* request at a time that makes no difference.
SaveApprove(h) ==
    /\ Saving(h, "approve")
    /\ Record(batch[h], "Approved")
    /\ diffLog' = [diffLog EXCEPT ![batch[h]] = seen[h]]
    /\ UNCHANGED <<project, content, committed>>

----------------------------------------------------------------------------
(* DeleteBatchAsync.                                                        *)

BeginDelete(h, b) ==
    /\ IsEditable(b)
    /\ Begin(h, "children", b)
    /\ UNCHANGED <<tables, seen, logged>>

\* The children are loaded after the state was checked, the history last.
LoadChildren(h) ==
    /\ pc[h] = "children"
    /\ seen' = [seen EXCEPT ![h] = content[batch[h]]]
    /\ logged' = [logged EXCEPT ![h] = Len(transitions[batch[h]])]
    /\ pc' = [pc EXCEPT ![h] = "delete"]
    /\ UNCHANGED <<tables, batch>>

\* A row added since violates a foreign key, a row removed since is missed.
SaveDelete(h) ==
    /\ pc[h] = "delete"
    /\ content[batch[h]] = seen[h]
    /\ Len(transitions[batch[h]]) = logged[h]
    /\ Saving(h, "delete")
    /\ state' = [state EXCEPT ![batch[h]] = "Deleted"]
    /\ content' = [content EXCEPT ![batch[h]] = {}]
    /\ transitions' = [transitions EXCEPT ![batch[h]] = <<>>]
    /\ diffLog' = [diffLog EXCEPT ![batch[h]] = {}]
    /\ committed' = [committed EXCEPT ![batch[h]] = FALSE]
    /\ UNCHANGED project

\* A request ends without its next round trip: an exception, a dead connection.
Fail(h) == pc[h] \notin {"idle", "copy"} /\ End(h) /\ UNCHANGED tables

----------------------------------------------------------------------------
Next ==
    \E h \in Handlers :
        \/ BeginStart(h) \/ ProcCheck(h) \/ ProcInsert(h) \/ ProcCopy(h) \/ ProcFails(h)
        \/ FindCurrent(h) \/ LogCreated(h)
        \/ SaveStep(h) \/ FlushRevert(h) \/ SaveRevert(h) \/ SaveGdb(h)
        \/ SaveCreate(h) \/ SaveSubmit(h) \/ SaveReturn(h) \/ Commit(h) \/ SaveApprove(h)
        \/ LoadChildren(h) \/ SaveDelete(h) \/ Fail(h)
        \/ \E b \in Batches :
            \/ \E step \in {"save", "revert"} : BeginEdit(h, step, b)
            \/ BeginGdb(h, b) \/ BeginCreate(h, b) \/ BeginSubmit(h, b)
            \/ BeginReturn(h, b) \/ BeginApprove(h, b) \/ BeginDelete(h, b)

Spec == Init /\ [][Next]_vars

----------------------------------------------------------------------------
(* Properties of any number of overlapping requests.                        *)

\* Every table and every request has a value of its type.
TypeOK ==
    /\ project \in SUBSET Items
    /\ state \in [Batches -> States]
    /\ content \in [Batches -> SUBSET Items]
    /\ transitions \in [Batches -> Seq(Recorded)]
    /\ diffLog \in [Batches -> SUBSET Items]
    /\ committed \in [Batches -> BOOLEAN]
    /\ pc \in [Handlers -> Steps]
    /\ batch \in [Handlers -> Batches \cup {0}]
    /\ seen \in [Handlers -> SUBSET Items]
    /\ logged \in [Handlers -> Nat]

LastTransition(b) ==
    IF transitions[b] = <<>> THEN "Created" ELSE transitions[b][Len(transitions[b])]

\* The history of a batch ends in the state the batch is in, whichever of the
\* overlapping submissions, returns and approvals was saved last: SubmitAsync,
\* ReturnAsync and ApproveAsync each write both in one SaveChanges.
HistoryMatchesState == \A b \in Batches : Exists(b) => state[b] = LastTransition(b)

\* A batch is marked approved only after its rows were merged into the project,
\* although the merge and the mark are two transactions of ApproveAsync and a
\* request may end, or others may run, between them.
ApprovedWasCommitted == \A b \in Batches : state[b] = "Approved" => committed[b]

\* Only a batch that was submitted for review is ever merged, and so only such a batch
\* is approved: a request about to merge may be overtaken by a return, a deletion or
\* another approval, but the batch it read as submitted has kept that in its history,
\* or is gone and is not merged (pCommitProjectUpdateToProject looks only for the row).
CommittedWasSubmitted ==
    \A b \in Batches : committed[b] => \E i \in DOMAIN transitions[b] : transitions[b][i] = "Submitted"

\* An approved batch has been merged, and a merged one submitted for review.
ApprovedWasReviewed == ApprovedWasCommitted /\ CommittedWasSubmitted

----------------------------------------------------------------------------
(* Properties of one request at a time, with failures and retries.          *)

\* A project has at most one batch in progress (the guards of StartBatchAsync and
\* of pStartProjectUpdateBatch), even when the procedure failed half way or was
\* run again by the connection.
OneActiveBatch == \A b, c \in Batches : Active(b) /\ Active(c) => b = c

\* Submissions alternate with reviews, and an approval is the last transition.
HistoryAlternates ==
    \A b \in Batches : \A i \in DOMAIN transitions[b] :
        /\ transitions[b][i] = "Submitted" <=> i % 2 = 1
        /\ transitions[b][i] = "Approved" => i = Len(transitions[b])

\* The live project only ever changes into the rows of a batch that was submitted
\* for review and has not been returned (pCommitProjectUpdateToProject itself does
\* not look at the state); ImplementsUpdateWorkflow includes it.
OnlySubmittedIsMerged ==
    [][project' # project =>
        \E b \in Batches : state[b] = "Submitted" /\ project' = content[b]]_vars

\* When a batch becomes approved, the project holds exactly its rows, also when an
\* earlier approval of it failed after the merge; ImplementsUpdateWorkflow and the order
\* of the history, HistoryAlternates, include it.
ApprovalInstallsBatch ==
    [][\A b \in Batches :
        state[b] # "Approved" /\ state'[b] = "Approved" => project = content[b]]_vars

\* The update in progress: the active batch, or none.
InProgress == \E b \in Batches : Active(b)
Current == CHOOSE b \in Batches : Active(b)
Phase == IF InProgress THEN state[Current] ELSE "None"
Rows == IF InProgress THEN content[Current] ELSE {}

Workflow == INSTANCE UpdateWorkflow WITH phase <- Phase, rows <- Rows

\* The handlers and procedures of the update workflow amount to its transitions, one
\* update after the other, wherever they fail and whatever is run again: in particular
\* no row of an update under review is changed or removed, although the GDB import and
\* the endpoints that create photos, documents and notes, which do not call
\* VerifyBatchIsEditable, still add some; and whatever was added, an update is
\* approved only when all of its rows were taken over.
ImplementsUpdateWorkflow == Workflow!Spec
=============================================================================
