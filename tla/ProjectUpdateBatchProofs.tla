---------------------- MODULE ProjectUpdateBatchProofs ----------------------
(***************************************************************************)
(* Proofs about ProjectUpdateBatch: what holds for any number of            *)
(* overlapping requests, batches, rows and transitions, and what holds when *)
(* at most one request is in flight at a time.                              *)
(***************************************************************************)
EXTENDS ProjectUpdateBatch, TLAPS

\* Recording a transition appends it to the history of an existing batch.
LEMMA RecordType ==
    ASSUME TypeOK, NEW b \in Batches, NEW to \in Recorded, Record(b, to)
    PROVE  /\ state' \in [Batches -> States]
           /\ transitions' \in [Batches -> Seq(Recorded)]
           /\ transitions'[b] # <<>>
           /\ transitions'[b][Len(transitions'[b])] = to
           /\ \A c \in Batches \ {b} : state'[c] = state[c] /\ transitions'[c] = transitions[c]
           /\ state'[b] = to
<1>1. transitions[b] \in Seq(Recorded)
  BY DEF TypeOK
<1>2. /\ Append(transitions[b], to) \in Seq(Recorded)
      /\ Len(Append(transitions[b], to)) = Len(transitions[b]) + 1
      /\ Append(transitions[b], to)[Len(transitions[b]) + 1] = to
      /\ Append(transitions[b], to) # <<>>
  BY <1>1
<1>3. transitions' = [transitions EXCEPT ![b] = Append(transitions[b], to)]
  BY DEF Record
<1>4. /\ transitions'[b] = Append(transitions[b], to)
      /\ \A c \in Batches \ {b} : transitions'[c] = transitions[c]
      /\ transitions' \in [Batches -> Seq(Recorded)]
  BY <1>2, <1>3 DEF TypeOK
<1>5. /\ state' \in [Batches -> States]
      /\ \A c \in Batches \ {b} : state'[c] = state[c]
      /\ state'[b] = to
  BY DEF Record, TypeOK, States
<1>6. QED
  BY <1>2, <1>4, <1>5

\* A request that works on a batch was given one that had been started.
Targets ==
    \A h \in Handlers :
        pc[h] \in {"copy", "save", "revert", "gdb", "create", "submit", "return", "commit", "approve",
                   "children", "delete"}
            => batch[h] \in Batches /\ state[batch[h]] # "None"

TInv == TypeOK /\ Targets

\* The part of the type invariant a step that only ends or moves a request disturbs.
LEMMA RequestType ==
    ASSUME TypeOK, NEW h \in Handlers, End(h) \/ (\E step \in Steps : Goto(h, step))
    PROVE  /\ pc' \in [Handlers -> Steps]
           /\ batch' \in [Handlers -> Batches \cup {0}]
           /\ seen' \in [Handlers -> SUBSET Items]
           /\ logged' \in [Handlers -> Nat]
           /\ \A g \in Handlers \ {h} : pc'[g] = pc[g] /\ batch'[g] = batch[g]
<1>1. CASE End(h)
  BY <1>1 DEF TypeOK, End, Steps
<1>2. ASSUME NEW step \in Steps, Goto(h, step)
      PROVE  /\ pc' \in [Handlers -> Steps]
             /\ \A g \in Handlers \ {h} : pc'[g] = pc[g]
             /\ UNCHANGED <<batch, seen, logged>>
  BY <1>2 DEF TypeOK, Goto
<1>3. QED
  BY <1>1, <1>2 DEF TypeOK

\* Every table and every request keeps its type, and a request keeps its batch.
LEMMA TypeStep ==
    ASSUME TInv, [Next]_vars
    PROVE  TInv'
<1> USE DEF TInv, TypeOK
<1>1. ASSUME NEW h \in Handlers, BeginStart(h) \/ ProcCheck(h) \/ LogCreated(h) \/ Fail(h)
      PROVE  TInv'
  <2>1. End(h) \/ \E step \in {"start", "insert", "current"} : Goto(h, step)
    BY <1>1 DEF BeginStart, ProcCheck, LogCreated, Fail
  <2>2. UNCHANGED tables
    BY <1>1 DEF BeginStart, ProcCheck, LogCreated, Fail
  <2>3. pc'[h] \in {"idle", "start", "insert", "current"}
    BY <2>1 DEF End, Goto
  <2>4. /\ pc' \in [Handlers -> Steps] /\ batch' \in [Handlers -> Batches \cup {0}]
        /\ seen' \in [Handlers -> SUBSET Items] /\ logged' \in [Handlers -> Nat]
        /\ \A g \in Handlers \ {h} : pc'[g] = pc[g] /\ batch'[g] = batch[g]
    BY <2>1, RequestType DEF Steps
  <2>5. Targets'
    BY <2>2, <2>3, <2>4 DEF Targets, tables
  <2>6. QED
    BY <2>2, <2>4, <2>5 DEF tables
<1>2. ASSUME NEW h \in Handlers, ProcInsert(h) PROVE TInv'
  BY <1>2 DEF ProcInsert, Steps, States, Targets
<1>3. ASSUME NEW h \in Handlers, ProcCopy(h) PROVE TInv'
  <2>1. batch[h] \in Batches
    BY <1>3 DEF ProcCopy, Targets
  <2>2. QED
    BY <1>3, <2>1 DEF ProcCopy, Goto, Steps, Targets
<1>4. ASSUME NEW h \in Handlers, ProcFails(h) PROVE TInv'
  <2>1. batch[h] \in Batches
    BY <1>4 DEF ProcFails, Targets
  <2>2. PICK copied \in SUBSET project :
          content' = [content EXCEPT ![batch[h]] = IF Exists(batch[h]) THEN @ \cup copied ELSE @]
    BY <1>4 DEF ProcFails
  <2>3. content' \in [Batches -> SUBSET Items]
    BY <2>1, <2>2
  <2>4. /\ pc' \in [Handlers -> Steps] /\ batch' \in [Handlers -> Batches \cup {0}]
        /\ seen' \in [Handlers -> SUBSET Items] /\ logged' \in [Handlers -> Nat]
        /\ \A g \in Handlers \ {h} : pc'[g] = pc[g] /\ batch'[g] = batch[g]
        /\ pc'[h] \in {"idle", "start"}
    <3>1. CASE End(h)
      BY <3>1, RequestType DEF End
    <3>2. CASE /\ pc' = [pc EXCEPT ![h] = "start"]
               /\ batch' = [batch EXCEPT ![h] = 0]
               /\ UNCHANGED <<seen, logged>>
      BY <3>2 DEF Steps
    <3>3. QED
      BY <1>4, <3>1, <3>2 DEF ProcFails
  <2>5. Targets'
    BY <1>4, <2>4 DEF ProcFails, Targets
  <2>6. QED
    BY <1>4, <2>3, <2>4, <2>5 DEF ProcFails
<1>5. ASSUME NEW h \in Handlers, FindCurrent(h) PROVE TInv'
  BY <1>5 DEF FindCurrent, Steps, Targets, tables
<1>6. ASSUME NEW h \in Handlers, NEW b \in Batches,
             \/ \E step \in {"save", "revert"} : BeginEdit(h, step, b)
             \/ BeginGdb(h, b) \/ BeginCreate(h, b) \/ BeginSubmit(h, b)
             \/ BeginReturn(h, b) \/ BeginDelete(h, b)
      PROVE  TInv'
  BY <1>6 DEF BeginEdit, BeginGdb, BeginCreate, BeginSubmit, BeginReturn, BeginDelete,
              Begin, Active,
              ActiveStates, Steps, Targets, tables
<1>7. ASSUME NEW h \in Handlers, NEW b \in Batches, BeginApprove(h, b) PROVE TInv'
  BY <1>7 DEF BeginApprove, Begin, Active, ActiveStates, Steps, Targets, tables, SymDiff
<1>8. ASSUME NEW h \in Handlers, SaveStep(h) \/ SaveRevert(h) \/ SaveGdb(h)
                                 \/ SaveCreate(h) PROVE TInv'
  <2>1. batch[h] \in Batches /\ End(h)
    BY <1>8 DEF SaveStep, SaveRevert, SaveGdb, SaveCreate, Saving, Targets
  <2>2. PICK rows \in SUBSET Items : Rewrite(batch[h], rows)
    BY <1>8, <2>1 DEF SaveStep, SaveRevert, SaveGdb, SaveCreate
  <2>3. content' \in [Batches -> SUBSET Items]
    BY <2>1, <2>2 DEF Rewrite
  <2>4. QED
    BY <1>8, <2>1, <2>3 DEF SaveStep, SaveRevert, SaveGdb, SaveCreate, End, Steps, Targets
<1>8a. ASSUME NEW h \in Handlers, FlushRevert(h) PROVE TInv'
  <2>1. batch[h] \in Batches
    BY <1>8a DEF FlushRevert, Targets
  <2>2. PICK rows \in SUBSET Items : Rewrite(batch[h], rows)
    BY <1>8a, <2>1 DEF FlushRevert
  <2>3. content' \in [Batches -> SUBSET Items]
    BY <2>1, <2>2 DEF Rewrite
  <2>4. QED
    BY <1>8a, <2>3 DEF FlushRevert, Targets, requests
<1>9. ASSUME NEW h \in Handlers, SaveSubmit(h) \/ SaveReturn(h) \/ SaveApprove(h) PROVE TInv'
  <2>1. batch[h] \in Batches /\ End(h)
    BY <1>9 DEF SaveSubmit, SaveReturn, SaveApprove, Saving, Targets
  <2>2. PICK to \in Recorded : Record(batch[h], to)
    BY <1>9 DEF SaveSubmit, SaveReturn, SaveApprove, Recorded
  <2>3. /\ state' \in [Batches -> States] /\ transitions' \in [Batches -> Seq(Recorded)]
        /\ \A c \in Batches : state[c] # "None" => state'[c] # "None"
    BY <2>1, <2>2, RecordType DEF Recorded
  <2>4. QED
    BY <1>9, <2>1, <2>3 DEF SaveSubmit, SaveReturn, SaveApprove, End, Steps, Targets
<1>10. ASSUME NEW h \in Handlers, Commit(h) PROVE TInv'
  <2>1. batch[h] \in Batches
    BY <1>10 DEF Commit, Targets
  <2>2. project' \in SUBSET Items /\ committed' \in [Batches -> BOOLEAN]
    <3>1. CASE ~Exists(batch[h])
      BY <1>10, <3>1 DEF Commit
    <3>2. CASE Exists(batch[h])
      <4>1. /\ project' = content[batch[h]]
            /\ committed' = [committed EXCEPT ![batch[h]] = TRUE]
        BY <1>10, <3>2 DEF Commit
      <4>2. QED
        BY <2>1, <4>1
    <3>3. QED
      BY <3>1, <3>2
  <2>3. QED
    BY <1>10, <2>2 DEF Commit, Goto, Steps, Targets
<1>11. ASSUME NEW h \in Handlers, LoadChildren(h) PROVE TInv'
  <2>1. batch[h] \in Batches
    BY <1>11 DEF LoadChildren, Targets
  <2>2. transitions[batch[h]] \in Seq(Recorded)
    BY <2>1
  <2>3. Len(transitions[batch[h]]) \in Nat
    BY <2>2
  <2>4. QED
    BY <1>11, <2>1, <2>3 DEF LoadChildren, Steps, Targets, tables
<1>12. ASSUME NEW h \in Handlers, SaveDelete(h) PROVE TInv'
  <2>1. batch[h] \in Batches /\ End(h)
    BY <1>12 DEF SaveDelete, Saving, Targets
  <2>2. <<>> \in Seq(Recorded)
    OBVIOUS
  <2>3. transitions' \in [Batches -> Seq(Recorded)]
    BY <1>12, <2>1, <2>2 DEF SaveDelete
  <2>4. QED
    BY <1>12, <2>1, <2>3 DEF SaveDelete, End, Steps, States, Targets
<1>13. CASE UNCHANGED vars
  BY <1>13 DEF vars, Targets
<1>14. QED
  BY <1>1, <1>2, <1>3, <1>4, <1>5, <1>6, <1>7, <1>8, <1>8a, <1>9, <1>10,
     <1>11, <1>12, <1>13 DEF Next

\* Every table and every request has a value of its type (the schema of the batch
\* and its update tables), for any number of requests and batches.
THEOREM BatchTypeCorrect == Spec => []TInv
<1>1. Init => TInv
  <2>1. <<>> \in Seq(Recorded)
    OBVIOUS
  <2>2. QED
    BY <2>1 DEF Init, TInv, TypeOK, Targets, States, Steps
<1>2. ASSUME TInv, [Next]_vars PROVE TInv'
  BY <1>2, TypeStep
<1>3. QED
  BY <1>1, <1>2, PTL DEF Spec

\* The type invariant the runs check.
COROLLARY BatchTypes == Spec => []TypeOK
<1>1. TInv => TypeOK
  BY DEF TInv
<1>2. QED
  BY <1>1, BatchTypeCorrect, PTL

----------------------------------------------------------------------------
(* The safety invariants under any overlap.                                 *)

\* The steps that touch neither the batches' states nor what relates to them.
QuietStep(h) ==
    \/ BeginStart(h) \/ ProcCheck(h) \/ ProcCopy(h) \/ ProcFails(h) \/ FindCurrent(h)
    \/ LogCreated(h) \/ SaveStep(h) \/ FlushRevert(h) \/ SaveRevert(h) \/ SaveGdb(h)
    \/ SaveCreate(h)
    \/ LoadChildren(h) \/ Fail(h)
    \/ \E b \in Batches :
        \/ \E step \in {"save", "revert"} : BeginEdit(h, step, b)
        \/ BeginGdb(h, b) \/ BeginCreate(h, b) \/ BeginSubmit(h, b) \/ BeginReturn(h, b)
        \/ BeginApprove(h, b) \/ BeginDelete(h, b)

\* They leave states, history and merges alone and lead to no save of an approval.
LEMMA QuietFrame ==
    ASSUME TypeOK, NEW h \in Handlers, QuietStep(h)
    PROVE  /\ UNCHANGED <<project, state, transitions, diffLog, committed>>
           /\ pc'[h] # "approve"
           /\ \A g \in Handlers \ {h} : pc'[g] = pc[g] /\ batch'[g] = batch[g]
<1> USE DEF TypeOK
<1>1. CASE BeginStart(h) \/ ProcCheck(h) \/ ProcCopy(h) \/ LogCreated(h) \/ Fail(h)
  BY <1>1 DEF BeginStart, ProcCheck, ProcCopy, LogCreated, Fail, Goto, End, tables
<1>2. CASE ProcFails(h)
  BY <1>2 DEF ProcFails, End
<1>3. CASE FindCurrent(h) \/ LoadChildren(h) \/ FlushRevert(h)
  BY <1>3 DEF FindCurrent, LoadChildren, FlushRevert, tables, requests
<1>4. CASE SaveStep(h) \/ SaveRevert(h) \/ SaveGdb(h) \/ SaveCreate(h)
  BY <1>4 DEF SaveStep, SaveRevert, SaveGdb, SaveCreate, Saving, End
<1>5. ASSUME NEW b \in Batches,
             \/ \E step \in {"save", "revert"} : BeginEdit(h, step, b)
             \/ BeginGdb(h, b) \/ BeginCreate(h, b) \/ BeginSubmit(h, b)
             \/ BeginReturn(h, b) \/ BeginDelete(h, b)
             \/ BeginApprove(h, b)
      PROVE  /\ UNCHANGED <<project, state, transitions, diffLog, committed>>
             /\ pc'[h] # "approve"
             /\ \A g \in Handlers \ {h} : pc'[g] = pc[g] /\ batch'[g] = batch[g]
  BY <1>5 DEF BeginEdit, BeginGdb, BeginCreate, BeginSubmit, BeginReturn, BeginDelete,
              BeginApprove, Begin, tables
<1>6. QED
  BY <1>1, <1>2, <1>3, <1>4, <1>5 DEF QuietStep

\* The procedure inserts a batch that did not exist.
LEMMA InsertFrame ==
    ASSUME NEW h \in Handlers, ProcInsert(h)
    PROVE  \E b \in Batches : state[b] = "None" /\ state' = [state EXCEPT ![b] = "Created"]
<1>1. PICK b \in Batches :
        /\ \A other \in Batches : state[other] = "None" <=> other >= b
        /\ state' = [state EXCEPT ![b] = "Created"]
  BY DEF ProcInsert
<1>2. b >= b
  BY BoundsAssumption DEF Batches
<1>3. QED
  BY <1>1, <1>2

\* Before it is started a batch has no history either.
HistoryInv ==
    /\ HistoryMatchesState
    /\ \A b \in Batches : state[b] = "None" => transitions[b] = <<>>

LEMMA HistoryStep ==
    ASSUME TInv, HistoryInv, [Next]_vars
    PROVE  HistoryInv'
<1> USE DEF TInv, TypeOK, HistoryInv, HistoryMatchesState, Exists, LastTransition
<1>1. ASSUME UNCHANGED <<state, transitions>> PROVE HistoryInv'
  BY <1>1
<1>2. ASSUME NEW h \in Handlers, QuietStep(h) PROVE HistoryInv'
  BY <1>1, <1>2, QuietFrame
<1>3. ASSUME NEW h \in Handlers, ProcInsert(h) PROVE HistoryInv'
  <2>1. PICK b \in Batches : state[b] = "None" /\ state' = [state EXCEPT ![b] = "Created"]
    BY <1>3, InsertFrame
  <2>2. UNCHANGED transitions
    BY <1>3 DEF ProcInsert
  <2>3. QED
    BY <2>1, <2>2
<1>4. ASSUME NEW h \in Handlers, SaveSubmit(h) \/ SaveReturn(h) \/ SaveApprove(h)
      PROVE  HistoryInv'
  <2>1. batch[h] \in Batches
    BY <1>4 DEF SaveSubmit, SaveReturn, SaveApprove, Saving, Targets
  <2>2. PICK to \in Recorded : Record(batch[h], to)
    BY <1>4 DEF SaveSubmit, SaveReturn, SaveApprove, Recorded
  <2>3. /\ transitions'[batch[h]] # <<>>
        /\ transitions'[batch[h]][Len(transitions'[batch[h]])] = to
        /\ \A c \in Batches \ {batch[h]} : state'[c] = state[c] /\ transitions'[c] = transitions[c]
        /\ state'[batch[h]] = to
    BY <2>1, <2>2, RecordType
  <2>4. QED
    BY <2>1, <2>3 DEF Recorded
<1>5. ASSUME NEW h \in Handlers, Commit(h) PROVE HistoryInv'
  BY <1>1, <1>5 DEF Commit
<1>6. ASSUME NEW h \in Handlers, SaveDelete(h) PROVE HistoryInv'
  <2>1. batch[h] \in Batches
    BY <1>6 DEF SaveDelete, Targets
  <2>2. QED
    BY <1>6, <2>1 DEF SaveDelete
<1>7. CASE UNCHANGED vars
  BY <1>1, <1>7 DEF vars
<1>8. QED
  BY <1>2, <1>3, <1>4, <1>5, <1>6, <1>7 DEF Next, QuietStep

\* SubmitAsync, ReturnAsync, ApproveAsync: the history of a batch ends in the state
\* it is in, however many requests overlap and wherever they stop.
THEOREM HistoryMatches == Spec => []HistoryMatchesState
<1>1. Init => HistoryInv
  BY DEF Init, HistoryInv, HistoryMatchesState, Exists, LastTransition
<1>2. ASSUME TInv, HistoryInv, [Next]_vars PROVE HistoryInv'
  BY <1>2, HistoryStep
<1>3. HistoryInv => HistoryMatchesState
  BY DEF HistoryInv
<1>4. QED
  BY <1>1, <1>2, <1>3, BatchTypeCorrect, PTL DEF Spec

\* A request about to mark a batch approved has merged it, or the batch is gone.
CommitInv ==
    /\ ApprovedWasCommitted
    /\ \A h \in Handlers : pc[h] = "approve" /\ Exists(batch[h]) => committed[batch[h]]

LEMMA CommitStep ==
    ASSUME TInv, CommitInv, [Next]_vars
    PROVE  CommitInv'
<1> USE DEF TInv, TypeOK, CommitInv, ApprovedWasCommitted, Exists
<1>1. ASSUME NEW h \in Handlers, QuietStep(h) PROVE CommitInv'
  <2>1. /\ UNCHANGED <<state, committed>>
        /\ pc'[h] # "approve"
        /\ \A g \in Handlers \ {h} : pc'[g] = pc[g] /\ batch'[g] = batch[g]
    BY <1>1, QuietFrame
  <2>2. QED
    BY <2>1
<1>2. ASSUME NEW h \in Handlers, ProcInsert(h) PROVE CommitInv'
  <2>1. PICK b \in Batches : state[b] = "None" /\ state' = [state EXCEPT ![b] = "Created"]
    BY <1>2, InsertFrame
  <2>2. /\ pc'[h] = "copy" /\ UNCHANGED committed
        /\ \A g \in Handlers \ {h} : pc'[g] = pc[g] /\ batch'[g] = batch[g]
    BY <1>2 DEF ProcInsert
  <2>3. \A g \in Handlers : pc[g] = "approve" => batch[g] \in Batches /\ batch[g] # b
    BY <2>1 DEF Targets
  <2>4. QED
    BY <2>1, <2>2, <2>3
<1>3. ASSUME NEW h \in Handlers, SaveSubmit(h) \/ SaveReturn(h) PROVE CommitInv'
  <2>1. batch[h] \in Batches /\ Exists(batch[h]) /\ End(h) /\ UNCHANGED committed
    BY <1>3 DEF SaveSubmit, SaveReturn, Saving, Targets
  <2>2. \E to \in {"Submitted", "Returned"} : state' = [state EXCEPT ![batch[h]] = to]
    BY <1>3 DEF SaveSubmit, SaveReturn, Record
  <2>3. \A g \in Handlers : pc[g] = "approve" => batch[g] \in Batches
    BY DEF Targets
  <2>4. QED
    BY <2>1, <2>2, <2>3 DEF End
<1>4. ASSUME NEW h \in Handlers, SaveApprove(h) PROVE CommitInv'
  <2>1. /\ pc[h] = "approve" /\ batch[h] \in Batches /\ Exists(batch[h]) /\ End(h)
        /\ UNCHANGED committed /\ state' = [state EXCEPT ![batch[h]] = "Approved"]
    BY <1>4 DEF SaveApprove, Saving, Record, Targets
  <2>2. \A g \in Handlers : pc[g] = "approve" => batch[g] \in Batches
    BY DEF Targets
  <2>3. QED
    BY <2>1, <2>2 DEF End
<1>5. ASSUME NEW h \in Handlers, Commit(h) PROVE CommitInv'
  <2>1. batch[h] \in Batches /\ UNCHANGED <<state, batch>>
    BY <1>5 DEF Commit, Goto, Targets
  <2>2. \A g \in Handlers \ {h} : pc'[g] = pc[g]
    BY <1>5 DEF Commit, Goto
  <2>3. CASE Exists(batch[h])
    <3>1. committed' = [committed EXCEPT ![batch[h]] = TRUE]
      BY <1>5, <2>3 DEF Commit
    <3>2. \A g \in Handlers : pc[g] = "approve" => batch[g] \in Batches
      BY DEF Targets
    <3>3. \A b \in Batches : committed[b] => committed'[b]
      BY <3>1
    <3>4. committed'[batch[h]]
      BY <2>1, <3>1
    <3>5. QED
      BY <2>1, <2>2, <3>2, <3>3, <3>4
  <2>4. CASE ~Exists(batch[h])
    BY <1>5, <2>1, <2>2, <2>4 DEF Commit
  <2>5. QED
    BY <2>3, <2>4
<1>6. ASSUME NEW h \in Handlers, SaveDelete(h) PROVE CommitInv'
  <2>1. /\ batch[h] \in Batches /\ End(h)
        /\ state' = [state EXCEPT ![batch[h]] = "Deleted"]
        /\ committed' = [committed EXCEPT ![batch[h]] = FALSE]
    BY <1>6 DEF SaveDelete, Saving, Targets
  <2>2. \A g \in Handlers : pc[g] = "approve" => batch[g] \in Batches
    BY DEF Targets
  <2>3. QED
    BY <2>1, <2>2 DEF End
<1>7. CASE UNCHANGED vars
  BY <1>7 DEF vars
<1>8. QED
  BY <1>1, <1>2, <1>3, <1>4, <1>5, <1>6, <1>7 DEF Next, QuietStep

\* ApproveAsync: however many requests overlap and wherever they stop, a batch
\* marked approved was merged into the project before.
THEOREM ApprovedCommitted == Spec => []ApprovedWasCommitted
<1>1. Init => CommitInv
  BY DEF Init, CommitInv, ApprovedWasCommitted
<1>2. ASSUME TInv, CommitInv, [Next]_vars PROVE CommitInv'
  BY <1>2, CommitStep
<1>3. CommitInv => ApprovedWasCommitted
  BY DEF CommitInv
<1>4. QED
  BY <1>1, <1>2, <1>3, BatchTypeCorrect, PTL DEF Spec

\* The history of a batch contains a submission.
WasSubmitted(b) == \E i \in DOMAIN transitions[b] : transitions[b][i] = "Submitted"

\* A merged batch was submitted, and so was one a request has read as submitted and is
\* about to merge or approve, unless it has been deleted meanwhile.
SubmittedInv ==
    /\ CommittedWasSubmitted
    /\ \A h \in Handlers :
        pc[h] \in {"commit", "approve"} /\ Exists(batch[h]) => WasSubmitted(batch[h])

\* A history that only grows keeps its submissions.
LEMMA RecordKeeps ==
    ASSUME TypeOK, NEW b \in Batches, NEW to \in Recorded, Record(b, to)
    PROVE  \A c \in Batches : WasSubmitted(c) => WasSubmitted(c)'
<1>1. transitions[b] \in Seq(Recorded)
  BY DEF TypeOK
<1>2. /\ DOMAIN transitions[b] \subseteq DOMAIN Append(transitions[b], to)
      /\ \A i \in DOMAIN transitions[b] : Append(transitions[b], to)[i] = transitions[b][i]
  BY <1>1
<1>3. transitions' = [transitions EXCEPT ![b] = Append(transitions[b], to)]
  BY DEF Record
<1>4. /\ transitions'[b] = Append(transitions[b], to)
      /\ \A c \in Batches \ {b} : transitions'[c] = transitions[c]
  BY <1>3 DEF TypeOK
<1>5. QED
  BY <1>2, <1>4 DEF WasSubmitted

\* A batch read as submitted has a submission in its history.
LEMMA SubmittedHasHistory ==
    ASSUME TypeOK, HistoryInv, NEW b \in Batches, state[b] = "Submitted"
    PROVE  WasSubmitted(b)
<1>1. /\ transitions[b] # <<>>
      /\ transitions[b][Len(transitions[b])] = "Submitted"
  BY DEF HistoryInv, HistoryMatchesState, LastTransition, Exists
<1>2. Len(transitions[b]) \in DOMAIN transitions[b]
  <2>1. transitions[b] \in Seq(Recorded)
    BY DEF TypeOK
  <2>2. QED
    BY <1>1, <2>1
<1>3. QED
  BY <1>1, <1>2 DEF WasSubmitted

\* A step that starts no merge, loses no submission but of batches it deletes, and
\* merges only a batch that was submitted.
LEMMA SubmittedKept ==
    ASSUME TInv, SubmittedInv,
           \A g \in Handlers :
               pc'[g] \in {"commit", "approve"} =>
                   pc[g] \in {"commit", "approve"} /\ batch'[g] = batch[g],
           \A b \in Batches : Exists(b)' => Exists(b) \/ state[b] = "None",
           \A b \in Batches : Exists(b)' /\ WasSubmitted(b) => WasSubmitted(b)',
           \A b \in Batches : committed'[b] => WasSubmitted(b)'
    PROVE  SubmittedInv'
<1>1. ASSUME NEW g \in Handlers, pc'[g] \in {"commit", "approve"}, Exists(batch[g])'
      PROVE  WasSubmitted(batch[g])'
  <2>1. pc[g] \in {"commit", "approve"} /\ batch'[g] = batch[g]
    BY <1>1
  <2>2. PICK b \in Batches : b = batch[g] /\ state[b] # "None"
    BY <2>1 DEF TInv, Targets
  <2>3. Exists(b)'
    BY <1>1, <2>1, <2>2 DEF Exists
  <2>4. WasSubmitted(b)
    BY <2>1, <2>2, <2>3 DEF SubmittedInv
  <2>5. WasSubmitted(b)'
    BY <2>3, <2>4
  <2>6. QED
    BY <2>1, <2>2, <2>5 DEF WasSubmitted
<1>2. CommittedWasSubmitted'
  BY DEF CommittedWasSubmitted, WasSubmitted
<1>3. QED
  BY <1>1, <1>2 DEF SubmittedInv

LEMMA SubmittedStep ==
    ASSUME TInv, HistoryInv, SubmittedInv, [Next]_vars
    PROVE  SubmittedInv'
<1> USE DEF TInv, TypeOK, SubmittedInv, CommittedWasSubmitted, Exists
<1>1. ASSUME NEW h \in Handlers, QuietStep(h) PROVE SubmittedInv'
  <2>1. /\ UNCHANGED <<state, committed, transitions>>
        /\ pc'[h] # "approve"
        /\ \A g \in Handlers \ {h} : pc'[g] = pc[g] /\ batch'[g] = batch[g]
    BY <1>1, QuietFrame
  <2>2. pc'[h] = "commit" => batch'[h] \in Batches /\ state[batch'[h]] = "Submitted"
    <3>1. ASSUME NEW b \in Batches, BeginApprove(h, b)
          PROVE  batch'[h] \in Batches /\ state[batch'[h]] = "Submitted"
      BY <3>1 DEF BeginApprove, Begin
    <3>2. ASSUME NEW b \in Batches,
                 \/ \E step \in {"save", "revert"} : BeginEdit(h, step, b)
                 \/ BeginGdb(h, b) \/ BeginCreate(h, b) \/ BeginSubmit(h, b)
                 \/ BeginReturn(h, b) \/ BeginDelete(h, b)
          PROVE  pc'[h] # "commit"
      BY <3>2 DEF BeginEdit, BeginGdb, BeginCreate, BeginSubmit, BeginReturn, BeginDelete,
                  Begin
    <3>3. ASSUME \/ BeginStart(h) \/ ProcCheck(h) \/ ProcCopy(h) \/ ProcFails(h) \/ FindCurrent(h)
                 \/ LogCreated(h) \/ SaveStep(h) \/ FlushRevert(h) \/ SaveRevert(h)
                 \/ SaveGdb(h) \/ SaveCreate(h)
                 \/ LoadChildren(h) \/ Fail(h)
          PROVE  pc'[h] # "commit"
      BY <3>3 DEF BeginStart, ProcCheck, ProcCopy, ProcFails, FindCurrent, LogCreated, SaveStep,
                  FlushRevert, SaveRevert, SaveGdb, SaveCreate, LoadChildren, Fail, Saving, Goto, End, requests
    <3>4. QED
      BY <1>1, <3>1, <3>2, <3>3 DEF QuietStep
  <2>3. pc'[h] = "commit" => WasSubmitted(batch'[h])
    BY <2>2, SubmittedHasHistory
  <2>4. QED
    BY <2>1, <2>3 DEF WasSubmitted
<1>2. ASSUME NEW h \in Handlers, ProcInsert(h) PROVE SubmittedInv'
  <2>1. PICK b \in Batches : state[b] = "None" /\ state' = [state EXCEPT ![b] = "Created"]
    BY <1>2, InsertFrame
  <2>2. /\ pc'[h] = "copy" /\ UNCHANGED <<committed, transitions>>
        /\ \A g \in Handlers \ {h} : pc'[g] = pc[g] /\ batch'[g] = batch[g]
    BY <1>2 DEF ProcInsert
  <2>3. /\ \A c \in Batches : Exists(c)' => Exists(c) \/ state[c] = "None"
        /\ \A c \in Batches : WasSubmitted(c)' <=> WasSubmitted(c)
        /\ \A c \in Batches : committed'[c] => WasSubmitted(c)
    BY <2>1, <2>2 DEF WasSubmitted
  <2>4. QED
    BY <2>2, <2>3, SubmittedKept
<1>3. ASSUME NEW h \in Handlers, SaveSubmit(h) \/ SaveReturn(h) \/ SaveApprove(h)
      PROVE  SubmittedInv'
  <2>1. /\ batch[h] \in Batches /\ Exists(batch[h]) /\ pc'[h] = "idle" /\ UNCHANGED committed
        /\ \A g \in Handlers \ {h} : pc'[g] = pc[g] /\ batch'[g] = batch[g]
    BY <1>3 DEF SaveSubmit, SaveReturn, SaveApprove, Saving, End, Targets
  <2>2. PICK to \in Recorded : Record(batch[h], to)
    BY <1>3 DEF SaveSubmit, SaveReturn, SaveApprove, Recorded
  <2>3. /\ \A c \in Batches : WasSubmitted(c) => WasSubmitted(c)'
        /\ \A c \in Batches \ {batch[h]} : state'[c] = state[c]
    BY <2>1, <2>2, RecordKeeps, RecordType
  <2>4. \A c \in Batches : committed'[c] => WasSubmitted(c)
    BY <2>1 DEF WasSubmitted
  <2>5. QED
    BY <2>1, <2>3, <2>4, SubmittedKept
<1>4. ASSUME NEW h \in Handlers, Commit(h) PROVE SubmittedInv'
  <2>1. /\ batch[h] \in Batches /\ pc[h] = "commit" /\ UNCHANGED <<state, transitions, batch>>
        /\ \A g \in Handlers \ {h} : pc'[g] = pc[g]
    BY <1>4 DEF Commit, Goto, Targets
  <2>2. \A b \in Batches : committed'[b] => committed[b] \/ (b = batch[h] /\ Exists(b))
    BY <1>4, <2>1 DEF Commit
  <2>3. \A b \in Batches : committed'[b] => WasSubmitted(b)
    <3>1. \A b \in Batches : committed[b] => WasSubmitted(b)
      BY DEF WasSubmitted
    <3>2. Exists(batch[h]) => WasSubmitted(batch[h])
      BY <2>1
    <3>3. QED
      BY <2>2, <3>1, <3>2
  <2>4. \A b \in Batches : WasSubmitted(b)' <=> WasSubmitted(b)
    BY <2>1 DEF WasSubmitted
  <2>5. QED
    BY <2>1, <2>3, <2>4, SubmittedKept
<1>5. ASSUME NEW h \in Handlers, SaveDelete(h) PROVE SubmittedInv'
  <2>1. /\ batch[h] \in Batches /\ pc'[h] = "idle"
        /\ \A g \in Handlers \ {h} : pc'[g] = pc[g] /\ batch'[g] = batch[g]
        /\ state' = [state EXCEPT ![batch[h]] = "Deleted"]
        /\ transitions' = [transitions EXCEPT ![batch[h]] = <<>>]
        /\ committed' = [committed EXCEPT ![batch[h]] = FALSE]
    BY <1>5 DEF SaveDelete, Saving, End, Targets
  <2>2. /\ \A c \in Batches : Exists(c)' => Exists(c) /\ c # batch[h]
        /\ \A c \in Batches \ {batch[h]} : WasSubmitted(c)' <=> WasSubmitted(c)
        /\ \A c \in Batches : committed'[c] => c # batch[h] /\ WasSubmitted(c)
    BY <2>1 DEF WasSubmitted
  <2>3. QED
    BY <2>1, <2>2, SubmittedKept
<1>6. CASE UNCHANGED vars
  BY <1>6 DEF vars, WasSubmitted
<1>7. QED
  BY <1>1, <1>2, <1>3, <1>4, <1>5, <1>6 DEF Next, QuietStep

\* ApproveAsync and CommitChangesToProjectAsync: however many requests overlap, only a
\* batch that was submitted is merged into the project.
THEOREM CommittedSubmitted == Spec => []CommittedWasSubmitted
<1>1. Init => HistoryInv /\ SubmittedInv
  BY DEF Init, HistoryInv, HistoryMatchesState, Exists, LastTransition, SubmittedInv,
         CommittedWasSubmitted
<1>2. ASSUME TInv, HistoryInv, SubmittedInv, [Next]_vars PROVE HistoryInv' /\ SubmittedInv'
  BY <1>2, HistoryStep, SubmittedStep
<1>3. SubmittedInv => CommittedWasSubmitted
  BY DEF SubmittedInv
<1>4. QED
  BY <1>1, <1>2, <1>3, BatchTypeCorrect, PTL DEF Spec

\* Together: nothing is approved that was not merged, nothing merged that was not
\* submitted, for any number of overlapping requests.
THEOREM ApprovedReviewed == Spec => []ApprovedWasReviewed
  BY ApprovedCommitted, CommittedSubmitted, PTL DEF ApprovedWasReviewed

----------------------------------------------------------------------------
(* One request at a time.                                                   *)

\* What a request checked when it began is still so when it saves.
ChecksHold ==
    \A h \in Handlers :
        /\ pc[h] = "insert" => \A b \in Batches : ~Active(b)
        /\ pc[h] \in {"save", "revert", "gdb", "create"} => Active(batch[h])
        /\ pc[h] = "submit" => IsEditable(batch[h])
        /\ pc[h] \in {"return", "commit", "approve"} => state[batch[h]] = "Submitted"
        /\ pc[h] = "approve" => content[batch[h]] = project

BatchSerialInv == OneActiveBatch /\ ChecksHold

\* Alone, a quiet step of a request leads to a check that holds.
LEMMA QuietChecks ==
    ASSUME TInv, BatchSerialInv, NEW h \in Handlers, \A g \in Handlers : g = h, QuietStep(h)
    PROVE  BatchSerialInv'
<1> USE DEF TInv, TypeOK, BatchSerialInv, OneActiveBatch, Active
<1>1. UNCHANGED state
  BY QuietFrame
<1>2. SUFFICES ChecksHold'
  BY <1>1
<1>3. CASE BeginStart(h) \/ ProcCopy(h) \/ LogCreated(h) \/ Fail(h) \/ ProcFails(h) \/ FindCurrent(h)
           \/ LoadChildren(h)
  <2>1. pc'[h] \in {"idle", "start", "current", "started", "delete"}
    BY <1>3 DEF BeginStart, ProcCopy, LogCreated, Fail, ProcFails, FindCurrent, LoadChildren,
                Goto, End
  <2>2. QED
    BY <2>1 DEF ChecksHold
<1>4. CASE SaveStep(h) \/ SaveRevert(h) \/ SaveGdb(h) \/ SaveCreate(h)
  <2>1. pc'[h] = "idle"
    BY <1>4 DEF SaveStep, SaveRevert, SaveGdb, SaveCreate, Saving, End
  <2>2. QED
    BY <2>1 DEF ChecksHold
<1>4a. CASE FlushRevert(h)
  <2>1. pc[h] = "revert" /\ UNCHANGED <<pc, batch>>
    BY <1>4a DEF FlushRevert, requests
  <2>2. QED
    BY <1>1, <2>1 DEF ChecksHold
<1>5. CASE ProcCheck(h)
  <2>1. pc'[h] = IF \E b \in Batches : Active(b) THEN "current" ELSE "insert"
    BY <1>5 DEF ProcCheck, Goto
  <2>2. QED
    BY <1>1, <2>1 DEF ChecksHold
<1>6. ASSUME NEW b \in Batches, BeginApprove(h, b) PROVE ChecksHold'
  <2>1. pc'[h] = "commit" /\ batch'[h] = b /\ state[b] = "Submitted"
    BY <1>6 DEF BeginApprove, Begin
  <2>2. QED
    BY <1>1, <2>1 DEF ChecksHold
<1>7. ASSUME NEW b \in Batches,
             \/ \E step \in {"save", "revert"} : BeginEdit(h, step, b)
             \/ BeginGdb(h, b) \/ BeginCreate(h, b) \/ BeginSubmit(h, b)
             \/ BeginReturn(h, b) \/ BeginDelete(h, b)
      PROVE  ChecksHold'
  <2>1. /\ batch'[h] = b
        /\ \/ pc'[h] \in {"save", "revert", "gdb", "create"} /\ Active(b)
           \/ pc'[h] = "submit" /\ IsEditable(b)
           \/ pc'[h] = "return" /\ state[b] = "Submitted"
           \/ pc'[h] = "children"
    BY <1>7 DEF BeginEdit, BeginGdb, BeginCreate, BeginSubmit, BeginReturn, BeginDelete, Begin
  <2>2. QED
    BY <1>1, <2>1 DEF ChecksHold, IsEditable
<1>8. QED
  BY <1>3, <1>4, <1>4a, <1>5, <1>6, <1>7 DEF QuietStep

LEMMA SerialBatchStep ==
    ASSUME \A g, h \in Handlers : g = h, TInv, TInv', BatchSerialInv, [Next]_vars
    PROVE  BatchSerialInv'
<1> USE DEF TInv, TypeOK, BatchSerialInv, OneActiveBatch, Active, ActiveStates
<1>1. ASSUME NEW h \in Handlers, QuietStep(h) PROVE BatchSerialInv'
  BY <1>1, QuietChecks
<1>2. ASSUME NEW h \in Handlers, ProcInsert(h) PROVE BatchSerialInv'
  <2>1. PICK b \in Batches : state[b] = "None" /\ state' = [state EXCEPT ![b] = "Created"]
    BY <1>2, InsertFrame
  <2>2. pc'[h] = "copy" /\ pc[h] = "insert"
    BY <1>2 DEF ProcInsert
  <2>3. \A c \in Batches : ~Active(c)
    BY <2>2 DEF ChecksHold
  <2>4. OneActiveBatch'
    BY <2>1, <2>3
  <2>5. ChecksHold'
    BY <2>2 DEF ChecksHold
  <2>6. QED
    BY <2>4, <2>5
<1>3. ASSUME NEW h \in Handlers, SaveSubmit(h) \/ SaveReturn(h) \/ SaveApprove(h)
      PROVE  BatchSerialInv'
  <2>1. batch[h] \in Batches /\ Active(batch[h]) /\ pc'[h] = "idle"
    BY <1>3 DEF SaveSubmit, SaveReturn, SaveApprove, Saving, End, Targets, ChecksHold, IsEditable
  <2>2. \E to \in Recorded : state' = [state EXCEPT ![batch[h]] = to]
    BY <1>3 DEF SaveSubmit, SaveReturn, SaveApprove, Record, Recorded
  <2>3. OneActiveBatch'
    BY <2>1, <2>2
  <2>4. ChecksHold'
    BY <2>1 DEF ChecksHold
  <2>5. QED
    BY <2>3, <2>4
<1>4. ASSUME NEW h \in Handlers, Commit(h) PROVE BatchSerialInv'
  <2>1. /\ batch[h] \in Batches /\ state[batch[h]] = "Submitted" /\ Exists(batch[h])
    BY <1>4 DEF Commit, Targets, ChecksHold, Exists
  <2>2. /\ project' = content[batch[h]] /\ UNCHANGED <<state, content, batch>>
        /\ pc'[h] \in {"approve", "commit"}
    BY <1>4, <2>1 DEF Commit, Goto
  <2>3. QED
    BY <2>1, <2>2 DEF ChecksHold
<1>5. ASSUME NEW h \in Handlers, SaveDelete(h) PROVE BatchSerialInv'
  <2>1. /\ batch[h] \in Batches /\ pc'[h] = "idle"
        /\ state' = [state EXCEPT ![batch[h]] = "Deleted"]
    BY <1>5 DEF SaveDelete, Saving, End, Targets
  <2>2. OneActiveBatch'
    BY <2>1
  <2>3. ChecksHold'
    BY <2>1 DEF ChecksHold
  <2>4. QED
    BY <2>2, <2>3
<1>6. CASE UNCHANGED vars
  BY <1>6 DEF vars, ChecksHold, IsEditable
<1>7. QED
  BY <1>1, <1>2, <1>3, <1>4, <1>5, <1>6 DEF Next, QuietStep

LEMMA SerialBatchInvariant ==
    ASSUME \A g, h \in Handlers : g = h
    PROVE  Spec => [](TInv /\ BatchSerialInv)
<1>1. Init => BatchSerialInv
  BY DEF Init, BatchSerialInv, OneActiveBatch, ChecksHold, Active, ActiveStates
<1>2. ASSUME TInv, TInv', BatchSerialInv, [Next]_vars PROVE BatchSerialInv'
  BY <1>2, SerialBatchStep
<1>3. QED
  BY <1>1, <1>2, BatchTypeCorrect, PTL DEF Spec

\* StartBatchAsync and pStartProjectUpdateBatch: served one request at a time, a
\* project never has two batches in progress, wherever the procedure fails.
THEOREM OneActive ==
    ASSUME \A g, h \in Handlers : g = h
    PROVE  Spec => []OneActiveBatch
<1>1. BatchSerialInv => OneActiveBatch
  BY DEF BatchSerialInv
<1>2. QED
  BY <1>1, SerialBatchInvariant, PTL

\* A transition appended to an alternating history leaves it alternating.
LEMMA AppendAlternates ==
    ASSUME NEW t \in Seq(Recorded), NEW to \in Recorded,
           \A i \in DOMAIN t : /\ t[i] = "Submitted" <=> i % 2 = 1
                               /\ t[i] = "Approved" => i = Len(t),
           IF to = "Submitted" THEN t = <<>> \/ t[Len(t)] = "Returned"
                               ELSE t # <<>> /\ t[Len(t)] = "Submitted",
           NEW i \in DOMAIN Append(t, to)
    PROVE  /\ Append(t, to)[i] = "Submitted" <=> i % 2 = 1
           /\ Append(t, to)[i] = "Approved" => i = Len(Append(t, to))
<1>1. /\ Len(t) \in Nat /\ DOMAIN t = 1..Len(t) /\ (t = <<>> <=> Len(t) = 0)
      /\ Len(Append(t, to)) = Len(t) + 1 /\ DOMAIN Append(t, to) = 1..(Len(t) + 1)
      /\ Append(t, to)[Len(t) + 1] = to
      /\ \A j \in 1..Len(t) : Append(t, to)[j] = t[j]
  OBVIOUS
<1>2. ASSUME t # <<>> PROVE t[Len(t)] = "Submitted" <=> Len(t) % 2 = 1
  BY <1>1, <1>2
<1>3. CASE i = Len(t) + 1
  <2>1. (to = "Submitted") <=> (Len(t) % 2 = 0)
    BY <1>1, <1>2
  <2>2. (Len(t) % 2 = 0) <=> ((Len(t) + 1) % 2 = 1)
    BY <1>1
  <2>3. QED
    BY <1>1, <1>3, <2>1, <2>2
<1>4. CASE i \in 1..Len(t)
  <2>1. Append(t, to)[i] = t[i] /\ i \in DOMAIN t
    BY <1>1, <1>4
  <2>2. t[i] # "Approved"
    <3>1. t # <<>> /\ t[Len(t)] # "Approved"
      BY <1>1, <1>4
    <3>2. QED
      BY <2>1, <3>1
  <2>3. QED
    BY <2>1, <2>2
<1>5. QED
  BY <1>1, <1>3, <1>4

LEMMA AlternatesStep ==
    ASSUME TInv, HistoryInv, BatchSerialInv, HistoryAlternates, [Next]_vars
    PROVE  HistoryAlternates'
<1> USE DEF TInv, TypeOK
<1>1. ASSUME UNCHANGED transitions PROVE HistoryAlternates'
  BY <1>1 DEF HistoryAlternates
<1>2. ASSUME NEW h \in Handlers, QuietStep(h) PROVE HistoryAlternates'
  BY <1>1, <1>2, QuietFrame
<1>3. ASSUME NEW h \in Handlers, SaveSubmit(h) \/ SaveReturn(h) \/ SaveApprove(h)
      PROVE  HistoryAlternates'
  <2> DEFINE b == batch[h]
             t == transitions[b]
  <2>1. b \in Batches /\ Exists(b)
    BY <1>3 DEF SaveSubmit, SaveReturn, SaveApprove, Saving, Targets
  <2>2. PICK to \in Recorded :
          /\ Record(b, to)
          /\ IF to = "Submitted" THEN IsEditable(b) ELSE state[b] = "Submitted"
    BY <1>3 DEF SaveSubmit, SaveReturn, SaveApprove, Saving, Recorded, BatchSerialInv, ChecksHold
  <2>3. state[b] = IF t = <<>> THEN "Created" ELSE t[Len(t)]
    BY <2>1 DEF HistoryInv, HistoryMatchesState, LastTransition
  <2>4. IF to = "Submitted" THEN t = <<>> \/ t[Len(t)] = "Returned"
                            ELSE t # <<>> /\ t[Len(t)] = "Submitted"
    <3>1. t \in Seq(Recorded)
      BY <2>1
    <3>2. t # <<>> => t[Len(t)] \in Recorded
      BY <3>1
    <3>3. QED
      BY <2>2, <2>3, <3>2 DEF IsEditable, Recorded
  <2>5. t \in Seq(Recorded)
    BY <2>1
  <2>6. \A i \in DOMAIN t : /\ t[i] = "Submitted" <=> i % 2 = 1
                            /\ t[i] = "Approved" => i = Len(t)
    BY <2>1 DEF HistoryAlternates
  <2>7. transitions' = [transitions EXCEPT ![b] = Append(t, to)]
    BY <2>2 DEF Record
  <2>8. transitions'[b] = Append(t, to) /\ \A c \in Batches \ {b} : transitions'[c] = transitions[c]
    BY <2>1, <2>7
  <2> HIDE DEF b, t
  <2>9. \A i \in DOMAIN Append(t, to) :
            /\ Append(t, to)[i] = "Submitted" <=> i % 2 = 1
            /\ Append(t, to)[i] = "Approved" => i = Len(Append(t, to))
    BY <2>4, <2>5, <2>6, AppendAlternates
  <2>10. ASSUME NEW c \in Batches, NEW i \in DOMAIN transitions'[c]
         PROVE  /\ transitions'[c][i] = "Submitted" <=> i % 2 = 1
                /\ transitions'[c][i] = "Approved" => i = Len(transitions'[c])
    <3>1. CASE c = b
      BY <2>8, <2>9, <3>1
    <3>2. CASE c # b
      BY <2>8, <3>2 DEF HistoryAlternates
    <3>3. QED
      BY <3>1, <3>2
  <2>11. QED
    BY <2>10 DEF HistoryAlternates
<1>4. ASSUME NEW h \in Handlers, ProcInsert(h) \/ Commit(h) PROVE HistoryAlternates'
  BY <1>1, <1>4 DEF ProcInsert, Commit
<1>5. ASSUME NEW h \in Handlers, SaveDelete(h) PROVE HistoryAlternates'
  <2>1. transitions' = [transitions EXCEPT ![batch[h]] = <<>>]
    BY <1>5 DEF SaveDelete
  <2>2. QED
    BY <2>1 DEF HistoryAlternates
<1>6. CASE UNCHANGED vars
  BY <1>1, <1>6 DEF vars
<1>7. QED
  BY <1>2, <1>3, <1>4, <1>5, <1>6 DEF Next, QuietStep

\* SubmitAsync, ReturnAsync, ApproveAsync: served one request at a time, submissions
\* and reviews alternate in every history, and an approval ends it.
THEOREM Alternates ==
    ASSUME \A g, h \in Handlers : g = h
    PROVE  Spec => []HistoryAlternates
<1>1. Init => HistoryAlternates /\ HistoryInv
  BY DEF Init, HistoryAlternates, HistoryInv, HistoryMatchesState, Exists, LastTransition
<1>2. ASSUME TInv, HistoryInv, BatchSerialInv, HistoryAlternates, [Next]_vars
      PROVE  HistoryAlternates' /\ HistoryInv'
  BY <1>2, AlternatesStep, HistoryStep
<1>3. QED
  BY <1>1, <1>2, SerialBatchInvariant, PTL DEF Spec

\* CommitChangesToProjectAsync: served one request at a time, the project only ever
\* changes into the rows of a submitted batch.
THEOREM OnlySubmittedMerged ==
    ASSUME \A g, h \in Handlers : g = h
    PROVE  Spec => OnlySubmittedIsMerged
<1>1. ASSUME TInv, BatchSerialInv, [Next]_vars
      PROVE  [project' # project =>
                \E b \in Batches : state[b] = "Submitted" /\ project' = content[b]]_vars
  <2>1. ASSUME NEW h \in Handlers, Commit(h), project' # project
        PROVE  \E b \in Batches : state[b] = "Submitted" /\ project' = content[b]
    <3>1. batch[h] \in Batches /\ state[batch[h]] = "Submitted"
      BY <1>1, <2>1 DEF Commit, TInv, Targets, BatchSerialInv, ChecksHold
    <3>2. QED
      BY <2>1, <3>1 DEF Commit
  <2>2. ASSUME NEW h \in Handlers, QuietStep(h) PROVE project' = project
    BY <1>1, <2>2, QuietFrame DEF TInv
  <2>3. ASSUME NEW h \in Handlers,
               ProcInsert(h) \/ SaveSubmit(h) \/ SaveReturn(h) \/ SaveApprove(h) \/ SaveDelete(h)
        PROVE  project' = project
    BY <2>3 DEF ProcInsert, SaveSubmit, SaveReturn, SaveApprove, SaveDelete
  <2>4. QED
    BY <1>1, <2>1, <2>2, <2>3 DEF Next, QuietStep
<1>2. QED
  BY <1>1, SerialBatchInvariant, PTL DEF Spec, OnlySubmittedIsMerged

\* ApproveAsync: served one request at a time, a batch becomes approved only when
\* the project holds exactly its rows.
THEOREM ApprovalInstalls ==
    ASSUME \A g, h \in Handlers : g = h
    PROVE  Spec => ApprovalInstallsBatch
<1>1. ASSUME TInv, BatchSerialInv, [Next]_vars
      PROVE  [\A b \in Batches :
                state[b] # "Approved" /\ state'[b] = "Approved" => project = content[b]]_vars
  <2> USE <1>1 DEF TInv, TypeOK
  <2>1. SUFFICES ASSUME NEW b \in Batches, state[b] # "Approved", state'[b] = "Approved", Next
                 PROVE  project = content[b]
    BY DEF vars
  <2>2. ASSUME NEW h \in Handlers, QuietStep(h) PROVE FALSE
    BY <2>1, <2>2, QuietFrame
  <2>3. ASSUME NEW h \in Handlers,
               ProcInsert(h) \/ SaveSubmit(h) \/ SaveReturn(h) \/ Commit(h) \/ SaveDelete(h)
        PROVE  FALSE
    BY <2>1, <2>3 DEF ProcInsert, SaveSubmit, SaveReturn, Commit, SaveDelete, Record
  <2>4. ASSUME NEW h \in Handlers, SaveApprove(h) PROVE project = content[b]
    <3>1. pc[h] = "approve" /\ batch[h] = b
      BY <2>1, <2>4 DEF SaveApprove, Saving, Record
    <3>2. QED
      BY <3>1 DEF BatchSerialInv, ChecksHold
  <2>5. QED
    BY <2>1, <2>2, <2>3, <2>4 DEF Next, QuietStep
<1>2. QED
  BY <1>1, SerialBatchInvariant, PTL DEF Spec, ApprovalInstallsBatch

----------------------------------------------------------------------------
(* The update workflow, one request at a time.                              *)

\* A batch is empty until it is started, copied into only while it is new, and edited
\* or deleted only while it is editable.
EditsHold ==
    /\ \A b \in Batches : state[b] = "None" => content[b] = {}
    /\ \A h \in Handlers :
        /\ pc[h] = "copy" => state[batch[h]] = "Created"
        /\ pc[h] \in {"save", "revert", "children", "delete"} => IsEditable(batch[h])

\* The requests that do not write the rows of a batch.
ReadStep(h) ==
    \/ BeginStart(h) \/ ProcCheck(h) \/ FindCurrent(h) \/ LogCreated(h)
    \/ LoadChildren(h) \/ Fail(h)
    \/ \E b \in Batches :
        \/ \E step \in {"save", "revert"} : BeginEdit(h, step, b)
        \/ BeginGdb(h, b) \/ BeginCreate(h, b) \/ BeginSubmit(h, b) \/ BeginReturn(h, b)
        \/ BeginApprove(h, b) \/ BeginDelete(h, b)

\* The steps that write the rows of the batch the request works on.
RowStep(h) ==
    \/ ProcCopy(h) \/ ProcFails(h) \/ SaveStep(h) \/ FlushRevert(h) \/ SaveRevert(h)
    \/ SaveGdb(h) \/ SaveCreate(h)

LEMMA ReadFrame ==
    ASSUME NEW h \in Handlers, ReadStep(h)
    PROVE  QuietStep(h) /\ UNCHANGED <<project, state, content>>
<1>1. QuietStep(h)
  BY DEF ReadStep, QuietStep
<1>2. CASE BeginStart(h) \/ ProcCheck(h) \/ FindCurrent(h) \/ LogCreated(h) \/ LoadChildren(h) \/ Fail(h)
  BY <1>1, <1>2 DEF BeginStart, ProcCheck, FindCurrent, LogCreated, LoadChildren, Fail, tables
<1>3. ASSUME NEW b \in Batches,
             \/ \E step \in {"save", "revert"} : BeginEdit(h, step, b)
             \/ BeginGdb(h, b) \/ BeginCreate(h, b) \/ BeginSubmit(h, b) \/ BeginReturn(h, b)
             \/ BeginApprove(h, b) \/ BeginDelete(h, b)
      PROVE  QuietStep(h) /\ UNCHANGED <<project, state, content>>
  BY <1>1, <1>3 DEF BeginEdit, BeginGdb, BeginCreate, BeginSubmit, BeginReturn,
                    BeginApprove, BeginDelete, tables
<1>4. QED
  BY <1>2, <1>3 DEF ReadStep

\* An edit changes the rows of one batch that is editable; what reaches one
\* under review, the GDB import and the new rows, removes nothing.
LEMMA RowFrame ==
    ASSUME TInv, TInv', BatchSerialInv, EditsHold, NEW h \in Handlers, RowStep(h)
    PROVE  /\ batch[h] \in Batches
           /\ Active(batch[h])
           /\ UNCHANGED <<project, state>>
           /\ \A b \in Batches \ {batch[h]} : content'[b] = content[b]
           /\ IsEditable(batch[h]) \/ content[batch[h]] \subseteq content'[batch[h]]
<1> USE DEF TInv, TypeOK, Active, ActiveStates, IsEditable
<1>1. /\ batch[h] \in Batches
      /\ UNCHANGED <<project, state>>
  BY DEF RowStep, ProcCopy, ProcFails, SaveStep, FlushRevert, SaveRevert, SaveGdb,
         SaveCreate, Saving, Targets
<1>2. Active(batch[h]) /\ (pc[h] \notin {"gdb", "create"} => IsEditable(batch[h]))
  BY DEF RowStep, ProcCopy, ProcFails, SaveStep, FlushRevert, SaveRevert, SaveGdb,
         SaveCreate, Saving,
         BatchSerialInv, ChecksHold, EditsHold
<1>3. PICK rows \in SUBSET Items : content' = [content EXCEPT ![batch[h]] = rows]
  <2>1. CASE ProcCopy(h)
    BY <1>1, <2>1 DEF ProcCopy
  <2>2. CASE ProcFails(h)
    <3>1. PICK copied \in SUBSET project :
            content' = [content EXCEPT ![batch[h]] = IF Exists(batch[h]) THEN @ \cup copied ELSE @]
      BY <2>2 DEF ProcFails
    <3>2. QED
      BY <1>1, <3>1
  <2>3. CASE SaveStep(h) \/ FlushRevert(h) \/ SaveRevert(h) \/ SaveGdb(h) \/ SaveCreate(h)
    BY <1>1, <2>3 DEF SaveStep, FlushRevert, SaveRevert, SaveGdb, SaveCreate, Rewrite
  <2>4. QED
    BY <2>1, <2>2, <2>3 DEF RowStep
<1>4. pc[h] \in {"gdb", "create"} => content[batch[h]] \subseteq content'[batch[h]]
  <2>1. SUFFICES ASSUME pc[h] \in {"gdb", "create"} PROVE content[batch[h]] \subseteq content'[batch[h]]
    OBVIOUS
  <2>2. SaveGdb(h) \/ SaveCreate(h)
    BY <2>1 DEF RowStep, ProcCopy, ProcFails, SaveStep, FlushRevert, SaveRevert, Saving
  <2>3. QED
    BY <1>1, <2>2 DEF SaveGdb, SaveCreate, Rewrite
<1>5. QED
  BY <1>1, <1>2, <1>3, <1>4

LEMMA EditsStep ==
    ASSUME \A g, h \in Handlers : g = h, TInv, TInv', BatchSerialInv, EditsHold, [Next]_vars
    PROVE  EditsHold'
<1> USE DEF TInv, TypeOK
<1>1. ASSUME NEW h \in Handlers, ReadStep(h) PROVE EditsHold'
  <2>1. UNCHANGED <<state, content>>
    BY <1>1, ReadFrame
  <2>2. CASE BeginStart(h) \/ ProcCheck(h) \/ FindCurrent(h) \/ LogCreated(h) \/ Fail(h)
    <3>1. pc'[h] \in {"idle", "start", "insert", "current", "started"}
      BY <2>2 DEF BeginStart, ProcCheck, FindCurrent, LogCreated, Fail, Goto, End
    <3>2. QED
      BY <2>1, <3>1 DEF EditsHold
  <2>3. CASE LoadChildren(h)
    BY <2>1, <2>3 DEF LoadChildren, EditsHold, IsEditable
  <2>4. ASSUME NEW b \in Batches,
               \/ \E step \in {"save", "revert"} : BeginEdit(h, step, b)
               \/ BeginGdb(h, b) \/ BeginCreate(h, b) \/ BeginSubmit(h, b) \/ BeginReturn(h, b)
               \/ BeginApprove(h, b) \/ BeginDelete(h, b)
        PROVE  EditsHold'
    <3>1. /\ batch'[h] = b
          /\ \/ pc'[h] \in {"gdb", "create", "submit", "return", "commit"}
             \/ pc'[h] \in {"save", "revert", "children"} /\ IsEditable(b)
      BY <2>4 DEF BeginEdit, BeginGdb, BeginCreate, BeginSubmit, BeginReturn, BeginApprove,
                  BeginDelete, Begin
    <3>2. QED
      BY <2>1, <3>1 DEF EditsHold, IsEditable
  <2>5. QED
    BY <1>1, <2>2, <2>3, <2>4 DEF ReadStep
<1>2. ASSUME NEW h \in Handlers, RowStep(h) PROVE EditsHold'
  <2>1. /\ batch[h] \in Batches /\ Active(batch[h]) /\ UNCHANGED state
        /\ \A b \in Batches \ {batch[h]} : content'[b] = content[b]
    BY <1>2, RowFrame
  <2>2. \A b \in Batches : state'[b] = "None" => content'[b] = {}
    BY <2>1 DEF EditsHold, Active, ActiveStates
  <2>3. \/ pc'[h] \in {"idle", "start", "current"}
        \/ pc[h] = "revert" /\ UNCHANGED <<pc, batch>>
    BY <1>2 DEF RowStep, ProcCopy, ProcFails, SaveStep, FlushRevert, SaveRevert, SaveGdb,
                SaveCreate,
                Saving, Goto, End, requests
  <2>4. QED
    BY <2>1, <2>2, <2>3 DEF EditsHold, IsEditable
<1>3. ASSUME NEW h \in Handlers, ProcInsert(h) PROVE EditsHold'
  BY <1>3 DEF ProcInsert, EditsHold
<1>4. ASSUME NEW h \in Handlers, SaveSubmit(h) \/ SaveReturn(h) \/ SaveApprove(h)
      PROVE  EditsHold'
  <2>1. batch[h] \in Batches /\ pc'[h] = "idle" /\ UNCHANGED content
    BY <1>4 DEF SaveSubmit, SaveReturn, SaveApprove, Saving, End, Targets
  <2>2. \E to \in Recorded : state' = [state EXCEPT ![batch[h]] = to]
    BY <1>4 DEF SaveSubmit, SaveReturn, SaveApprove, Record, Recorded
  <2>3. \A b \in Batches : state'[b] = "None" => state[b] = "None"
    BY <2>1, <2>2 DEF Recorded
  <2>4. QED
    BY <2>1, <2>3 DEF EditsHold
<1>5. ASSUME NEW h \in Handlers, Commit(h) PROVE EditsHold'
  BY <1>5 DEF Commit, Goto, EditsHold
<1>6. ASSUME NEW h \in Handlers, SaveDelete(h) PROVE EditsHold'
  <2>1. batch[h] \in Batches /\ pc'[h] = "idle"
    BY <1>6 DEF SaveDelete, Saving, End, Targets
  <2>2. QED
    BY <1>6, <2>1 DEF SaveDelete, EditsHold
<1>7. CASE UNCHANGED vars
  BY <1>7 DEF vars, EditsHold, IsEditable
<1>8. QED
  BY <1>1, <1>2, <1>3, <1>4, <1>5, <1>6, <1>7 DEF Next, ReadStep, RowStep

\* With one active batch, the update in progress is that batch.
LEMMA CurrentIs ==
    ASSUME OneActiveBatch, NEW b \in Batches, Active(b)
    PROVE  Phase = state[b] /\ Rows = content[b]
  BY DEF OneActiveBatch, Phase, Rows, Current, InProgress

LEMMA CurrentIsNext ==
    ASSUME OneActiveBatch', NEW b \in Batches, Active(b)'
    PROVE  Phase' = state'[b] /\ Rows' = content'[b]
  BY DEF OneActiveBatch, Phase, Rows, Current, InProgress

LEMMA NoneInProgress ==
    /\ (\A b \in Batches : ~Active(b)) => Phase = "None" /\ Rows = {}
    /\ (\A b \in Batches : ~Active(b)') => Phase' = "None" /\ Rows' = {}
  BY DEF Phase, Rows, InProgress

\* A batch that leaves the active states leaves no update in progress.
LEMMA LastLeaves ==
    ASSUME OneActiveBatch, state \in [Batches -> States], NEW b \in Batches, Active(b),
           NEW to \in {"Approved", "Deleted"}, state' = [state EXCEPT ![b] = to]
    PROVE  Phase' = "None" /\ Rows' = {}
<1>1. \A c \in Batches : ~Active(c)'
  BY DEF OneActiveBatch, Active, ActiveStates
<1>2. QED
  BY <1>1, NoneInProgress

LEMMA WorkflowStep ==
    ASSUME \A g, h \in Handlers : g = h, TInv, TInv', BatchSerialInv, BatchSerialInv', EditsHold,
           [Next]_vars
    PROVE  [Workflow!Next]_(Workflow!vars)
<1> USE DEF TInv, TypeOK
<1>1. OneActiveBatch /\ OneActiveBatch'
  BY DEF BatchSerialInv
<1>2. ASSUME UNCHANGED <<state, content>> PROVE Phase' = Phase /\ Rows' = Rows
  BY <1>2 DEF Phase, Rows, Current, InProgress, Active
<1>3. ASSUME NEW h \in Handlers, ReadStep(h) PROVE UNCHANGED Workflow!vars
  BY <1>2, <1>3, ReadFrame DEF Workflow!vars
<1>4. ASSUME NEW h \in Handlers, RowStep(h) PROVE Workflow!Edit \/ Workflow!AddRows
  <2>1. PICK b \in Batches :
          /\ Active(b) /\ UNCHANGED <<project, state>>
          /\ IsEditable(b) \/ content[b] \subseteq content'[b]
    BY <1>4, RowFrame
  <2>2. Active(b)' /\ content'[b] \in SUBSET Items
    BY <2>1 DEF Active
  <2>3. /\ Phase = state[b] /\ Rows = content[b]
        /\ Phase' = state'[b] /\ Rows' = content'[b]
    BY <1>1, <2>1, <2>2, CurrentIs, CurrentIsNext
  <2>4. state[b] \in ActiveStates
    BY <2>1 DEF Active
  <2>5. QED
    BY <2>1, <2>2, <2>3, <2>4 DEF IsEditable, ActiveStates, Workflow!Edit, Workflow!AddRows
<1>5. ASSUME NEW h \in Handlers, ProcInsert(h) PROVE Workflow!Start
  <2>1. PICK b \in Batches : state[b] = "None" /\ state' = [state EXCEPT ![b] = "Created"]
    BY <1>5, InsertFrame
  <2>2. pc[h] = "insert" /\ UNCHANGED <<project, content>>
    BY <1>5 DEF ProcInsert
  <2>3. \A c \in Batches : ~Active(c)
    BY <2>2 DEF BatchSerialInv, ChecksHold
  <2>4. state'[b] = "Created" /\ content'[b] = {} /\ Active(b)'
    BY <2>1, <2>2 DEF EditsHold, Active, ActiveStates
  <2>5. Phase' = "Created" /\ Rows' = {}
    BY <1>1, <2>4, CurrentIsNext
  <2>6. QED
    BY <2>2, <2>3, <2>5, NoneInProgress DEF Workflow!Start
<1>6. ASSUME NEW h \in Handlers, NEW to \in {"Submitted", "Returned"},
             Saving(h, IF to = "Submitted" THEN "submit" ELSE "return"), Record(batch[h], to),
             UNCHANGED <<project, content>>
      PROVE  Workflow!Submit \/ Workflow!Return
  <2>1. PICK b \in Batches : b = batch[h] /\ Active(b)
    BY <1>6 DEF Saving, Targets, BatchSerialInv, ChecksHold, IsEditable, Active, ActiveStates
  <2>2. IF to = "Submitted" THEN IsEditable(b) ELSE state[b] = "Submitted"
    BY <1>6, <2>1 DEF Saving, BatchSerialInv, ChecksHold
  <2>3. state'[b] = to
    BY <1>6, <2>1 DEF Record
  <2>4. Active(b)'
    BY <2>3 DEF Active, ActiveStates
  <2>5. /\ Phase = state[b] /\ Rows = content[b]
        /\ Phase' = to /\ Rows' = content[b]
    BY <1>1, <1>6, <2>1, <2>3, <2>4, CurrentIs, CurrentIsNext
  <2>6. QED
    BY <1>6, <2>2, <2>5 DEF IsEditable, Workflow!Submit, Workflow!Return
<1>7. ASSUME NEW h \in Handlers, Commit(h) PROVE Workflow!Merge
  <2>1. PICK b \in Batches : b = batch[h] /\ state[b] = "Submitted"
    BY <1>7 DEF Commit, Targets, BatchSerialInv, ChecksHold
  <2>2. project' = content[b] /\ UNCHANGED <<state, content>>
    BY <1>7, <2>1 DEF Commit, Exists
  <2>3. Active(b)
    BY <2>1 DEF Active, ActiveStates
  <2>4. Phase = "Submitted" /\ Rows = content[b] /\ UNCHANGED <<Phase, Rows>>
    BY <1>1, <1>2, <2>1, <2>2, <2>3, CurrentIs
  <2>5. QED
    BY <2>2, <2>4 DEF Workflow!Merge
<1>8. ASSUME NEW h \in Handlers, SaveApprove(h) PROVE Workflow!Approve
  <2>1. PICK b \in Batches :
          b = batch[h] /\ state[b] = "Submitted" /\ content[b] = project /\ UNCHANGED project
    BY <1>8 DEF SaveApprove, Saving, Targets, BatchSerialInv, ChecksHold
  <2>2. Active(b) /\ state' = [state EXCEPT ![b] = "Approved"]
    BY <1>8, <2>1 DEF SaveApprove, Record, Active, ActiveStates
  <2>3. Phase = "Submitted" /\ Rows = project /\ Phase' = "None" /\ Rows' = {}
    BY <1>1, <2>1, <2>2, CurrentIs, LastLeaves
  <2>4. QED
    BY <2>1, <2>3 DEF Workflow!Approve, Workflow!Finish
<1>9. ASSUME NEW h \in Handlers, SaveDelete(h) PROVE Workflow!Delete
  <2>1. PICK b \in Batches :
          IsEditable(b) /\ state' = [state EXCEPT ![b] = "Deleted"] /\ UNCHANGED project
    BY <1>9 DEF SaveDelete, Saving, Targets, EditsHold
  <2>2. Active(b)
    BY <2>1 DEF IsEditable, Active, ActiveStates
  <2>3. Phase = state[b] /\ Phase' = "None" /\ Rows' = {}
    BY <1>1, <2>1, <2>2, CurrentIs, LastLeaves
  <2>4. QED
    BY <2>1, <2>3 DEF IsEditable, Workflow!Delete, Workflow!Finish
<1>10. CASE UNCHANGED vars
  BY <1>2, <1>10 DEF vars, Workflow!vars
<1>11. ASSUME NEW h \in Handlers, SaveSubmit(h) PROVE Workflow!Submit \/ Workflow!Return
  BY <1>6, <1>11 DEF SaveSubmit
<1>12. ASSUME NEW h \in Handlers, SaveReturn(h) PROVE Workflow!Submit \/ Workflow!Return
  BY <1>6, <1>12 DEF SaveReturn
<1>13. QED
  <2>1. CASE UNCHANGED vars
    BY <1>10, <2>1
  <2>2. CASE Next
    <3>1. PICK h \in Handlers :
            \/ ReadStep(h) \/ RowStep(h) \/ ProcInsert(h) \/ Commit(h) \/ SaveApprove(h)
            \/ SaveDelete(h) \/ SaveSubmit(h) \/ SaveReturn(h)
      BY <2>2 DEF Next, ReadStep, RowStep
    <3>2. QED
      BY <3>1, <1>3, <1>4, <1>5, <1>7, <1>8, <1>9, <1>11, <1>12 DEF Workflow!Next
  <2>3. QED
    BY <2>1, <2>2

\* Served one request at a time, the update workflow of the code is the atomic one,
\* wherever requests and procedures fail or are run again.
THEOREM SerialImplementsUpdate ==
    ASSUME \A g, h \in Handlers : g = h
    PROVE  Spec => ImplementsUpdateWorkflow
<1>1. Init => EditsHold
  BY DEF Init, EditsHold
<1>2. ASSUME TInv, TInv', BatchSerialInv, EditsHold, [Next]_vars PROVE EditsHold'
  BY <1>2, EditsStep
<1>3. Init => Workflow!Init
  <2>1. Init => \A b \in Batches : ~Active(b)
    BY DEF Init, Active, ActiveStates
  <2>2. QED
    BY <2>1, NoneInProgress DEF Init, Workflow!Init
<1>4. ASSUME TInv, TInv', BatchSerialInv, BatchSerialInv', EditsHold, [Next]_vars
      PROVE  [Workflow!Next]_(Workflow!vars)
  BY <1>4, WorkflowStep
<1>5. QED
  BY <1>1, <1>2, <1>3, <1>4, SerialBatchInvariant, PTL
     DEF Spec, ImplementsUpdateWorkflow, Workflow!Spec
=============================================================================
