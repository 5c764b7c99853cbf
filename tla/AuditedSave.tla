---------------------------- MODULE AuditedSave ----------------------------
(***************************************************************************)
(* One audited SaveChanges of WADNRDbContext without a transaction of the   *)
(* caller's: a transaction inside a retrying execution strategy, in it a    *)
(* save of the data with the audit logs of modified rows, and a second save *)
(* with the audit logs of added rows, whose keys only exist by then.        *)
(*                                                                          *)
(* The change tracker outlives an attempt: a row EF has written counts as   *)
(* saved from then on (acceptAllChangesOnSuccess), although the transaction *)
(* it was written in may still be rolled back.  An entry stands for a row   *)
(* of an audited table and has one audit log.                               *)
(***************************************************************************)
EXTENDS Integers

CONSTANTS Modified,      \* tracked rows the request changes or deletes
          Added,         \* tracked rows the request inserts
          CallerLogs,    \* audit logs the caller added itself
          MaxRetryCount  \* EnableRetryOnFailure(maxRetryCount: ...)

ASSUME SetsAssumption ==
    /\ Modified \cap Added = {}
    /\ CallerLogs \cap (Modified \cup Added) = {}
ASSUME RetryAssumption == MaxRetryCount \in Nat

VARIABLES
    requested,  \* what the request asked to write
    pending,    \* the tracked rows and caller's logs not yet accepted as saved
    logs,       \* audit logs of this flow the tracker holds as Added, per entry
    addedRows,  \* addedEntries: the added rows this attempt found
    txnData,    \* written in the open transaction: rows and caller's logs
    txnLogs,    \*   and audit logs per entry
    dbData,     \* committed: rows and caller's logs
    dbLogs,     \*   and audit logs per entry
    attempt,    \* attempts that failed with a transient error
    answerLost, \* history variable: a commit succeeded without an answer
    pc          \* the step of the current attempt, or the outcome

vars == <<requested, pending, logs, addedRows, txnData, txnLogs, dbData, dbLogs,
          attempt, answerLost, pc>>

Entries == Modified \cup Added
NoLogs == [e \in Entries |-> 0]
LogsOf(rows) == [e \in Entries |-> IF e \in rows THEN 1 ELSE 0]
Plus(f, g) == [e \in Entries |-> f[e] + g[e]]

Init ==
    /\ requested \in SUBSET (Entries \cup CallerLogs)
    /\ pending = requested
    /\ logs = NoLogs
    /\ addedRows = {}
    /\ txnData = {}
    /\ txnLogs = NoLogs
    /\ dbData = {}
    /\ dbLogs = NoLogs
    /\ attempt = 0
    /\ answerLost = FALSE
    /\ pc = "begin"

\* Mutant: the logs of a failed attempt stay in the tracker.
BeginAttemptKeepingLogs ==
    /\ pc = "begin"
    /\ logs' = Plus(logs, LogsOf(pending \cap Modified))
    /\ addedRows' = pending \cap Added
    /\ txnData' = {}
    /\ txnLogs' = NoLogs
    /\ pc' = "first"
    /\ UNCHANGED <<requested, pending, dbData, dbLogs, attempt, answerLost>>

\* DetachAuditLogsAddedByPriorAttempt, BeginTransaction, phase 1.
BeginAttempt ==
    /\ pc = "begin"
    /\ logs' = LogsOf(pending \cap Modified)
    /\ addedRows' = pending \cap Added
    /\ txnData' = {}
    /\ txnLogs' = NoLogs
    /\ pc' = "first"
    /\ UNCHANGED <<requested, pending, dbData, dbLogs, attempt, answerLost>>

\* The first save accepts everything it wrote; phase 2 adds the logs of the added rows.
FirstSave ==
    /\ pc = "first"
    /\ txnData' = txnData \cup pending
    /\ txnLogs' = Plus(txnLogs, logs)
    /\ pending' = {}
    /\ logs' = LogsOf(addedRows)
    /\ pc' = "second"
    /\ UNCHANGED <<requested, addedRows, dbData, dbLogs, attempt, answerLost>>

SecondSave ==
    /\ pc = "second"
    /\ txnLogs' = Plus(txnLogs, logs)
    /\ logs' = NoLogs
    /\ pc' = "commit"
    /\ UNCHANGED <<requested, pending, addedRows, txnData, dbData, dbLogs, attempt, answerLost>>

Committed ==
    /\ dbData' = dbData \cup txnData
    /\ dbLogs' = Plus(dbLogs, txnLogs)

\* Mutant: the transaction is disposed without being committed.
CommitForgotten ==
    /\ pc = "commit"
    /\ pc' = "ok"
    /\ UNCHANGED <<requested, pending, logs, addedRows, txnData, txnLogs, dbData, dbLogs,
                   attempt, answerLost>>

Commit ==
    /\ pc = "commit"
    /\ Committed
    /\ pc' = "ok"
    /\ UNCHANGED <<requested, pending, logs, addedRows, txnData, txnLogs, attempt, answerLost>>

\* Mutant: the strategy never gives up.
RetryForever == pc' = "begin" /\ attempt' = attempt

\* Mutant: one attempt too many.
RetryOnceMore ==
    IF attempt <= MaxRetryCount
    THEN pc' = "begin" /\ attempt' = attempt + 1
    ELSE pc' = "failed" /\ attempt' = attempt

\* The execution strategy runs the delegate again, or gives up and throws.
Retry ==
    IF attempt < MaxRetryCount
    THEN pc' = "begin" /\ attempt' = attempt + 1
    ELSE pc' = "failed" /\ attempt' = attempt

\* A transient error: what the attempt wrote is rolled back, the tracker is not.
TransientFailure ==
    /\ pc \in {"first", "second", "commit"}
    /\ Retry
    /\ UNCHANGED <<requested, pending, logs, addedRows, txnData, txnLogs, dbData, dbLogs, answerLost>>

\* The commit succeeds but its answer is lost: the strategy cannot tell.
CommitAnswerLost ==
    /\ pc = "commit"
    /\ Committed
    /\ answerLost' = TRUE
    /\ Retry
    /\ UNCHANGED <<requested, pending, logs, addedRows, txnData, txnLogs>>

\* An error that is not transient, as a violated constraint, is not retried.
PermanentFailure ==
    /\ pc \in {"first", "second", "commit"}
    /\ pc' = "failed"
    /\ UNCHANGED <<requested, pending, logs, addedRows, txnData, txnLogs, dbData, dbLogs,
                   attempt, answerLost>>

Next ==
    \/ BeginAttempt
    \/ FirstSave
    \/ SecondSave
    \/ Commit
    \/ TransientFailure
    \/ CommitAnswerLost
    \/ PermanentFailure

\* The caller waits for the save: its next step is always taken.
Spec == Init /\ [][Next]_vars /\ WF_vars(Next)

----------------------------------------------------------------------------
(* Properties.                                                              *)

\* The tracker, the transaction and the database have values of their types.
TypeOK ==
    /\ requested \in SUBSET (Entries \cup CallerLogs)
    /\ pending \in SUBSET (Entries \cup CallerLogs)
    /\ logs \in [Entries -> Nat]
    /\ addedRows \in SUBSET Added
    /\ txnData \in SUBSET (Entries \cup CallerLogs)
    /\ txnLogs \in [Entries -> Nat]
    /\ dbData \in SUBSET (Entries \cup CallerLogs)
    /\ dbLogs \in [Entries -> Nat]
    /\ attempt \in 0 .. MaxRetryCount
    /\ answerLost \in BOOLEAN
    /\ pc \in {"begin", "first", "second", "commit", "ok", "failed"}

\* A row is in the database exactly when its audit log is, and never with two of
\* them, whichever saves or commits failed and were retried (the transaction of
\* SaveChangesWithAuditing and DetachAuditLogsAddedByPriorAttempt).
AuditedExactlyOnce == \A e \in Entries : dbLogs[e] = IF e \in dbData THEN 1 ELSE 0

\* A save that throws has written nothing, unless a commit's answer was lost.
FailedWroteNothing == pc = "failed" /\ ~answerLost => dbData = {}

\* A save that returns has stored the whole request, unless an attempt failed before:
\* the attempt that is run again finds its rows accepted already, writes nothing and
\* returns (acceptAllChangesOnSuccess in DoAuditingSave, before the commit).
StoredUnlessRetried == pc = "ok" => dbData = requested \/ attempt > 0

\* The round trips the save may still make before it returns or throws.
RoundTrips == [begin |-> 4, first |-> 3, second |-> 2, commit |-> 1]
Left ==
    IF pc \in {"ok", "failed"} THEN 0
    ELSE 4 * (MaxRetryCount - attempt) + RoundTrips[pc]

\* Every step brings the save nearer to its end, whatever fails: with the strategy's
\* maxRetryCount it takes at most 4 * (maxRetryCount + 1) steps, so it can neither
\* run an attempt too many nor go on after it has returned or thrown.
RetriesAreBounded == [][Left' >= 0 /\ Left' < Left]_vars

Atomic == INSTANCE AtomicSave WITH
    data <- dbData,
    logs <- dbLogs,
    outcome <- IF answerLost THEN "unknown"
               ELSE IF pc \in {"ok", "failed"} THEN pc ELSE "running"

\* The two saves, the transaction and the retries of SaveChangesWithAuditing amount to
\* one write of everything or nothing: never a part of the rows, never rows without
\* their logs (AuditedExactlyOnce), nothing in a save that fails (FailedWroteNothing),
\* and nothing more once a commit's answer was lost.
ImplementsAtomicSave == Atomic!Spec

\* SaveChanges returns or throws: the retries are bounded (maxRetryCount: 3).
SaveEnds == <>(pc \in {"ok", "failed"})
=============================================================================
