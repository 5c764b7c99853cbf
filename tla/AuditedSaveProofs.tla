------------------------- MODULE AuditedSaveProofs -------------------------
(***************************************************************************)
(* Proofs about AuditedSave for any rows, any audit logs of the caller and  *)
(* any number of retries.                                                   *)
(***************************************************************************)
EXTENDS AuditedSave, TLAPS

\* The functions that count audit logs.
LEMMA LogTypes ==
    /\ NoLogs \in [Entries -> Nat]
    /\ \A rows : LogsOf(rows) \in [Entries -> Nat]
    /\ \A f, g \in [Entries -> Nat] : Plus(f, g) \in [Entries -> Nat]
  BY DEF NoLogs, LogsOf, Plus

LEMMA LogValues ==
    /\ \A e \in Entries : NoLogs[e] = 0
    /\ \A rows : \A e \in Entries : LogsOf(rows)[e] = IF e \in rows THEN 1 ELSE 0
    /\ \A f, g \in [Entries -> Nat] : \A e \in Entries : Plus(f, g)[e] = f[e] + g[e]
  BY DEF NoLogs, LogsOf, Plus

\* The tracker, the transaction and the database keep their types.
LEMMA SaveTypeStep ==
    ASSUME TypeOK, [Next]_vars
    PROVE  TypeOK'
<1> USE LogTypes DEF TypeOK
<1>1. CASE BeginAttempt
  BY <1>1 DEF BeginAttempt, Entries
<1>2. CASE FirstSave
  BY <1>2 DEF FirstSave
<1>3. CASE SecondSave
  BY <1>3 DEF SecondSave
<1>4. CASE Commit
  BY <1>4 DEF Commit, Committed
<1>5. CASE TransientFailure
  BY <1>5, RetryAssumption DEF TransientFailure, Retry
<1>6. CASE CommitAnswerLost
  BY <1>6, RetryAssumption DEF CommitAnswerLost, Committed, Retry
<1>7. CASE PermanentFailure
  BY <1>7 DEF PermanentFailure
<1>8. CASE UNCHANGED vars
  BY <1>8 DEF vars
<1>9. QED
  BY <1>1, <1>2, <1>3, <1>4, <1>5, <1>6, <1>7, <1>8 DEF Next

\* The change tracker and the tables of SaveChangesWithAuditing keep their types.
THEOREM SaveTypeCorrect == Spec => []TypeOK
<1>1. Init => TypeOK
  <2>1. 0 \in 0 .. MaxRetryCount
    BY RetryAssumption
  <2>2. NoLogs \in [Entries -> Nat]
    BY LogTypes
  <2>3. QED
    BY <2>1, <2>2 DEF Init, TypeOK
<1>2. ASSUME TypeOK, [Next]_vars PROVE TypeOK'
  BY <1>2, SaveTypeStep
<1>3. QED
  BY <1>1, <1>2, PTL DEF Spec

\* What the open transaction holds, step by step: rows that are not committed yet,
\* and the audit logs of the modified ones first, of all of them at the commit.
Staged ==
    /\ pending \cap dbData = {}
    /\ pc = "first" =>
        /\ txnData = {}
        /\ \A e \in Entries : txnLogs[e] = 0
        /\ \A e \in Entries : logs[e] = IF e \in pending \cap Modified THEN 1 ELSE 0
        /\ addedRows = pending \cap Added
    /\ pc = "second" =>
        /\ pending = {}
        /\ txnData \cap dbData = {}
        /\ \A e \in Entries : txnLogs[e] + logs[e] = IF e \in txnData THEN 1 ELSE 0
    /\ pc = "commit" =>
        /\ pending = {}
        /\ txnData \cap dbData = {}
        /\ \A e \in Entries : txnLogs[e] = IF e \in txnData THEN 1 ELSE 0

\* Nothing is committed before the first commit.
NothingYet == pc # "ok" /\ ~answerLost => dbData = {}

AuditInv == Staged /\ AuditedExactlyOnce /\ NothingYet

\* A commit of staged rows keeps one audit log per committed row.
LEMMA CommitAudits ==
    ASSUME TypeOK, AuditInv, pc = "commit", Committed
    PROVE  AuditedExactlyOnce'
<1>1. \A e \in Entries : dbLogs'[e] = dbLogs[e] + txnLogs[e]
  BY LogValues DEF Committed, TypeOK
<1>2. QED
  BY <1>1 DEF AuditInv, Staged, AuditedExactlyOnce, Committed

LEMMA AuditStep ==
    ASSUME TypeOK, AuditInv, [Next]_vars
    PROVE  AuditInv'
<1> USE DEF TypeOK, AuditInv
<1>1. CASE BeginAttempt
  <2>1. /\ \A e \in Entries : logs'[e] = IF e \in pending \cap Modified THEN 1 ELSE 0
        /\ \A e \in Entries : txnLogs'[e] = 0
    BY <1>1, LogValues DEF BeginAttempt
  <2>2. QED
    BY <1>1, <2>1 DEF BeginAttempt, Staged, AuditedExactlyOnce, NothingYet
<1>2. CASE FirstSave
  <2>1. \A e \in Entries : txnLogs'[e] = logs[e]
    BY <1>2, LogValues DEF FirstSave, Staged
  <2>2. \A e \in Entries : logs'[e] = IF e \in pending \cap Added THEN 1 ELSE 0
    BY <1>2, LogValues DEF FirstSave, Staged
  <2>3. txnData' = pending /\ pending' = {} /\ dbData' = dbData /\ pc' = "second"
    BY <1>2 DEF FirstSave, Staged
  <2>4. \A e \in Entries : txnLogs'[e] + logs'[e] = IF e \in txnData' THEN 1 ELSE 0
    BY <1>2, <2>1, <2>2, <2>3, SetsAssumption DEF FirstSave, Staged, Entries
  <2>5. Staged'
    BY <2>3, <2>4 DEF Staged
  <2>6. QED
    BY <1>2, <2>5 DEF FirstSave, AuditedExactlyOnce, NothingYet
<1>3. CASE SecondSave
  <2>1. \A e \in Entries : txnLogs'[e] = txnLogs[e] + logs[e]
    BY <1>3, LogValues DEF SecondSave
  <2>2. QED
    BY <1>3, <2>1 DEF SecondSave, Staged, AuditedExactlyOnce, NothingYet
<1>4. CASE Commit
  <2>1. AuditedExactlyOnce'
    BY <1>4, CommitAudits DEF Commit
  <2>2. QED
    BY <1>4, <2>1 DEF Commit, Staged, NothingYet
<1>5. CASE TransientFailure
  BY <1>5 DEF TransientFailure, Retry, Staged, AuditedExactlyOnce, NothingYet
<1>6. CASE CommitAnswerLost
  <2>1. AuditedExactlyOnce'
    BY <1>6, CommitAudits DEF CommitAnswerLost
  <2>2. QED
    BY <1>6, <2>1 DEF CommitAnswerLost, Retry, Staged, NothingYet
<1>7. CASE PermanentFailure
  BY <1>7 DEF PermanentFailure, Staged, AuditedExactlyOnce, NothingYet
<1>8. CASE UNCHANGED vars
  BY <1>8 DEF vars, Staged, AuditedExactlyOnce, NothingYet
<1>9. QED
  BY <1>1, <1>2, <1>3, <1>4, <1>5, <1>6, <1>7, <1>8 DEF Next

LEMMA AuditInvariant == Spec => []AuditInv
<1>1. Init => AuditInv
  BY LogValues DEF Init, AuditInv, Staged, AuditedExactlyOnce, NothingYet
<1>2. ASSUME TypeOK, AuditInv, [Next]_vars PROVE AuditInv'
  BY <1>2, AuditStep
<1>3. QED
  BY <1>1, <1>2, SaveTypeCorrect, PTL DEF Spec

\* SaveChangesWithAuditing: whatever fails and is retried, a row is committed exactly
\* when its audit log is, and with one of them.
THEOREM AuditedOnce == Spec => []AuditedExactlyOnce
  BY AuditInvariant, PTL DEF AuditInv

\* SaveChangesWithAuditing: a save that throws has written nothing, unless the
\* answer of a commit was lost.
THEOREM FailedNothing == Spec => []FailedWroteNothing
<1>1. AuditInv => FailedWroteNothing
  BY DEF AuditInv, NothingYet, FailedWroteNothing
<1>2. QED
  BY <1>1, AuditInvariant, PTL

----------------------------------------------------------------------------
(* The number of round trips.                                               *)

\* SaveChangesWithAuditing and EnableRetryOnFailure(maxRetryCount: 3): every step uses
\* up one of the 4 * (maxRetryCount + 1) round trips the save has at most.
THEOREM BoundedRetries == Spec => RetriesAreBounded
<1> DEFINE Nearer == Left' >= 0 /\ Left' < Left
<1>1. ASSUME TypeOK, TypeOK', [Next]_vars PROVE [Nearer]_vars
  <2> USE <1>1, RetryAssumption DEF TypeOK, Left, RoundTrips
  <2>1. CASE BeginAttempt
    BY <2>1 DEF BeginAttempt
  <2>2. CASE FirstSave
    BY <2>2 DEF FirstSave
  <2>3. CASE SecondSave
    BY <2>3 DEF SecondSave
  <2>4. CASE Commit
    BY <2>4 DEF Commit
  <2>5. ASSUME Retry, pc \in {"first", "second", "commit"} PROVE Nearer
    BY <2>5 DEF Retry
  <2>6. CASE PermanentFailure
    BY <2>6 DEF PermanentFailure
  <2>7. QED
    BY <2>1, <2>2, <2>3, <2>4, <2>5, <2>6 DEF Next, TransientFailure, CommitAnswerLost
<1>2. QED
  BY <1>1, SaveTypeCorrect, PTL DEF Spec, RetriesAreBounded

----------------------------------------------------------------------------
(* The save is atomic.                                                      *)

\* What is pending, staged and stored is the whole request or nothing: an attempt
\* writes all that is pending, and once a commit went through nothing is pending.
Whole ==
    /\ pending \in {{}, requested}
    /\ pc \in {"second", "commit"} => txnData \in {{}, requested}
    /\ answerLost => pending = {}
    /\ answerLost /\ pc \in {"second", "commit"} => txnData = {}

LEMMA WholeStep ==
    ASSUME TypeOK, AuditInv, Whole, [Next]_vars
    PROVE  Whole'
<1> USE DEF Whole
<1>1. CASE BeginAttempt
  BY <1>1 DEF BeginAttempt
<1>2. CASE FirstSave
  BY <1>2 DEF FirstSave, AuditInv, Staged
<1>3. CASE SecondSave
  BY <1>3 DEF SecondSave
<1>4. CASE Commit
  BY <1>4 DEF Commit
<1>5. CASE TransientFailure
  BY <1>5 DEF TransientFailure, Retry
<1>6. CASE CommitAnswerLost
  BY <1>6 DEF CommitAnswerLost, Retry, AuditInv, Staged
<1>7. CASE PermanentFailure
  BY <1>7 DEF PermanentFailure
<1>8. CASE UNCHANGED vars
  BY <1>8 DEF vars
<1>9. QED
  BY <1>1, <1>2, <1>3, <1>4, <1>5, <1>6, <1>7, <1>8 DEF Next

LEMMA WholeInvariant == Spec => [](TypeOK /\ AuditInv /\ Whole)
<1>1. Init => Whole
  BY DEF Init, Whole
<1>2. ASSUME TypeOK, AuditInv, Whole, [Next]_vars PROVE Whole'
  BY <1>2, WholeStep
<1>3. QED
  BY <1>1, <1>2, SaveTypeCorrect, AuditInvariant, PTL DEF Spec

\* A commit stores everything with its logs, or stores nothing new, and nothing new
\* it is after a lost answer.
LEMMA CommitIsWhole ==
    ASSUME TypeOK, AuditInv, Whole, pc = "commit", Committed
    PROVE  /\ \/ /\ dbData' = requested
                 /\ dbLogs' = [e \in Entries |-> IF e \in requested THEN 1 ELSE 0]
              \/ UNCHANGED <<dbData, dbLogs>>
           /\ answerLost => UNCHANGED <<dbData, dbLogs>>
<1>1. dbLogs' = [e \in Entries |-> dbLogs[e] + txnLogs[e]]
  BY DEF Committed, Plus
<1>2. \A e \in Entries : /\ dbLogs[e] \in Nat
                         /\ dbLogs[e] = IF e \in dbData THEN 1 ELSE 0
                         /\ txnLogs[e] = IF e \in txnData THEN 1 ELSE 0
  BY DEF TypeOK, AuditInv, AuditedExactlyOnce, Staged
<1>3. CASE txnData = {}
  <2>1. \A e \in Entries : dbLogs[e] + txnLogs[e] = dbLogs[e]
    BY <1>2, <1>3
  <2>2. dbLogs = [e \in Entries |-> dbLogs[e]]
    BY DEF TypeOK
  <2>3. dbLogs' = dbLogs
    BY <1>1, <2>1, <2>2
  <2>4. QED
    BY <1>3, <2>3 DEF Committed
<1>4. CASE txnData = requested /\ txnData # {}
  <2>1. ~answerLost /\ dbData = {}
    BY <1>4 DEF Whole, AuditInv, NothingYet
  <2>2. \A e \in Entries : dbLogs[e] + txnLogs[e] = IF e \in requested THEN 1 ELSE 0
    BY <1>2, <1>4, <2>1
  <2>3. dbLogs' = [e \in Entries |-> IF e \in requested THEN 1 ELSE 0]
    BY <1>1, <2>2
  <2>4. QED
    BY <1>4, <2>1, <2>3 DEF Committed
<1>5. QED
  BY <1>3, <1>4 DEF Whole

LEMMA AtomicStep ==
    ASSUME TypeOK, TypeOK', AuditInv, Whole, [Next]_vars
    PROVE  [Atomic!Next]_(Atomic!vars)
<1> USE DEF Atomic!Next, Atomic!vars, TypeOK
<1>1. CASE BeginAttempt
  BY <1>1 DEF BeginAttempt
<1>2. CASE FirstSave
  BY <1>2 DEF FirstSave
<1>3. CASE SecondSave
  BY <1>3 DEF SecondSave
<1>4. CASE Commit
  BY <1>4, CommitIsWhole DEF Commit, Atomic!Write, Atomic!WriteNothing
<1>5. CASE TransientFailure
  BY <1>5 DEF TransientFailure, Retry, Atomic!WriteNothing
<1>6. CASE CommitAnswerLost
  <2>1. pc = "commit" /\ Committed /\ answerLost' = TRUE /\ requested' = requested
    BY <1>6 DEF CommitAnswerLost
  <2>2. pc' \in {"begin", "failed"}
    BY <1>6 DEF CommitAnswerLost, Retry
  <2>3. QED
    BY <2>1, <2>2, CommitIsWhole DEF Atomic!Write, Atomic!WriteNothing
<1>7. CASE PermanentFailure
  BY <1>7 DEF PermanentFailure, Atomic!WriteNothing
<1>8. CASE UNCHANGED vars
  BY <1>8 DEF vars
<1>9. QED
  BY <1>1, <1>2, <1>3, <1>4, <1>5, <1>6, <1>7, <1>8 DEF Next

\* SaveChangesWithAuditing: whatever fails, is retried or goes unanswered, the save is
\* one write of all rows with their audit logs, or of nothing.
THEOREM SaveIsAtomic == Spec => ImplementsAtomicSave
<1>1. Init => Atomic!Init
  BY DEF Init, Atomic!Init, NoLogs
<1>2. ASSUME TypeOK, TypeOK', AuditInv, Whole, [Next]_vars
      PROVE  [Atomic!Next]_(Atomic!vars)
  BY <1>2, AtomicStep
<1>3. QED
  BY <1>1, <1>2, WholeInvariant, PTL DEF Spec, ImplementsAtomicSave, Atomic!Spec

\* The first attempt has the whole request pending until its first save, and in its
\* transaction from then on.
FirstAttempt ==
    attempt = 0 =>
        /\ answerLost => pc = "failed"
        /\ pc \in {"begin", "first"} => pending = requested
        /\ pc \in {"second", "commit"} => txnData = requested
        /\ pc = "ok" => dbData = requested

LEMMA FirstAttemptStep ==
    ASSUME TypeOK, AuditInv, FirstAttempt, [Next]_vars
    PROVE  FirstAttempt'
<1> USE RetryAssumption DEF FirstAttempt, TypeOK
<1>1. CASE BeginAttempt
  BY <1>1 DEF BeginAttempt
<1>2. CASE FirstSave
  BY <1>2 DEF FirstSave, AuditInv, Staged
<1>3. CASE SecondSave
  BY <1>3 DEF SecondSave
<1>4. CASE Commit
  BY <1>4 DEF Commit, Committed, AuditInv, NothingYet
<1>5. CASE TransientFailure
  BY <1>5 DEF TransientFailure, Retry
<1>6. CASE CommitAnswerLost
  BY <1>6 DEF CommitAnswerLost, Retry
<1>7. CASE PermanentFailure
  BY <1>7 DEF PermanentFailure
<1>8. CASE UNCHANGED vars
  BY <1>8 DEF vars
<1>9. QED
  BY <1>1, <1>2, <1>3, <1>4, <1>5, <1>6, <1>7, <1>8 DEF Next

\* SaveChangesWithAuditing: a save that returns from its first attempt has stored all
\* of the request.
THEOREM StoredFirst == Spec => []StoredUnlessRetried
<1>1. Init => FirstAttempt
  BY DEF Init, FirstAttempt
<1>2. ASSUME TypeOK, AuditInv, FirstAttempt, [Next]_vars PROVE FirstAttempt'
  BY <1>2, FirstAttemptStep
<1>3. TypeOK /\ FirstAttempt => StoredUnlessRetried
  BY RetryAssumption DEF TypeOK, FirstAttempt, StoredUnlessRetried
<1>4. QED
  BY <1>1, <1>2, <1>3, SaveTypeCorrect, AuditInvariant, PTL DEF Spec
=============================================================================
