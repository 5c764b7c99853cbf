------------------------ MODULE ProjectCreateProofs ------------------------
(***************************************************************************)
(* Proofs about ProjectCreate for every set of concurrent requests and      *)
(* every set of reviewers, and, when at most one request is in flight at a  *)
(* time, that it implements ApprovalWorkflow.                               *)
(***************************************************************************)
EXTENDS ProjectCreate, TLAPS

\* A review request keeps a caller, and whatever reviewer it loaded has not been
\* nulled since: this is what makes a skipped write of the reviewer harmless.
ReviewsKeepReviewer ==
    \A h \in Handlers :
        pc[h] \in Decisions =>
            /\ by[h] \in People
            /\ old[h].reviewedBy # NoPerson => reviewedBy # NoPerson

IInv == TypeOK /\ PendingIsDated /\ DecidedIsReviewed /\ ReviewsKeepReviewer

\* The types of the parts a request is made of.
LEMMA NothingLoadedType == NothingLoaded \in Columns /\ "none" \in PlannedDates
  BY DEF NothingLoaded, Columns, Reviewers, PlannedDates

\* Every column and every request keeps its type (the schema of the Project row).
THEOREM TypeCorrect == Spec => []TypeOK
<1>1. Init => TypeOK
  BY NothingLoadedType
     DEF Init, TypeOK, Statuses, Reviewers, PlannedDates, Steps
<1>2. TypeOK /\ [Next]_vars => TypeOK'
  <2> SUFFICES ASSUME TypeOK, [Next]_vars
               PROVE  TypeOK'
    OBVIOUS
  <2> USE NothingLoadedType DEF TypeOK
  <2>1. ASSUME NEW b \in PlannedDates, CreateFromBasics(b)
        PROVE  TypeOK'
    BY <2>1 DEF CreateFromBasics, Statuses, requests
  <2>2. CASE SaveLocationSimple
    BY <2>2 DEF SaveLocationSimple, requests
  <2>3. ASSUME NEW h \in Handlers, BeginSubmit(h)
        PROVE  TypeOK'
    BY <2>3 DEF BeginSubmit, Begin, row, Steps, Reviewers
  <2>4. ASSUME NEW h \in Handlers, CheckCanSubmit(h)
        PROVE  TypeOK'
    BY <2>4 DEF CheckCanSubmit, End, row, Steps, Reviewers
  <2>5. ASSUME NEW h \in Handlers, SaveSubmit(h)
        PROVE  TypeOK'
    BY <2>5 DEF SaveSubmit, End, Steps, Reviewers, Statuses
  <2>6. ASSUME NEW h \in Handlers, NEW decision \in Decisions, NEW p \in People,
               BeginReview(h, decision, p)
        PROVE  TypeOK'
    <3>1. [NothingLoaded EXCEPT !.reviewedBy = reviewedBy] \in Columns
      BY DEF NothingLoaded, Columns, Reviewers, PlannedDates
    <3>2. QED
      BY <2>6, <3>1 DEF BeginReview, Begin, row, Steps, Reviewers
  <2>7. ASSUME NEW h \in Handlers, SaveApprove(h)
        PROVE  TypeOK'
    BY <2>7 DEF SaveApprove, Saved, End, Steps, Reviewers, Statuses, Decisions
  <2>8. ASSUME NEW h \in Handlers, SaveReturnOrReject(h)
        PROVE  TypeOK'
    BY <2>8 DEF SaveReturnOrReject, Saved, End, Steps, Reviewers, Statuses, Decisions
  <2>9. ASSUME NEW h \in Handlers, BeginWithdraw(h)
        PROVE  TypeOK'
    <3>1. [NothingLoaded EXCEPT !.submissionDate = submissionDate] \in Columns
      BY DEF NothingLoaded, Columns, Reviewers, PlannedDates
    <3>2. QED
      BY <2>9, <3>1 DEF BeginWithdraw, Begin, row, Steps, Reviewers
  <2>10. ASSUME NEW h \in Handlers, SaveWithdraw(h)
         PROVE  TypeOK'
    BY <2>10 DEF SaveWithdraw, Saved, End, Steps, Reviewers, Statuses
  <2>11. ASSUME NEW h \in Handlers, NEW b \in PlannedDates, BeginBasics(h, b)
         PROVE  TypeOK'
    <3>1. [NothingLoaded EXCEPT !.plannedDate = plannedDate] \in Columns
      BY DEF NothingLoaded, Columns, Reviewers, PlannedDates
    <3>2. QED
      BY <2>11, <3>1 DEF BeginBasics, Begin, row, Steps, Reviewers
  <2>12. ASSUME NEW h \in Handlers, SaveBasics(h)
         PROVE  TypeOK'
    BY <2>12 DEF SaveBasics, Saved, End, Steps, Reviewers
  <2>13. ASSUME NEW h \in Handlers, Fail(h)
         PROVE  TypeOK'
    BY <2>13 DEF Fail, End, row, Steps, Reviewers
  <2>14. CASE UNCHANGED vars
    BY <2>14 DEF vars
  <2>15. QED
    BY <2>1, <2>2, <2>3, <2>4, <2>5, <2>6, <2>7, <2>8, <2>9, <2>10, <2>11, <2>12, <2>13,
       <2>14 DEF Next
<1>3. QED
  BY <1>1, <1>2, PTL DEF Spec

----------------------------------------------------------------------------
(* The safety invariants.                                                   *)

\* No save of the proposal workflow nulls the reviewer: a column write either
\* stores a person or leaves what the row holds.
LEMMA SavedReviewer ==
    ASSUME NEW p \in People, NEW loaded, NEW current,
           loaded # NoPerson => current # NoPerson
    PROVE  Saved(p, loaded, current) # NoPerson
  BY NoPersonAssumption DEF Saved

\* One step keeps the inductive invariant, given the types on both sides.
LEMMA InductiveStep ==
    ASSUME IInv, TypeOK', [Next]_vars
    PROVE  IInv'
<1> USE DEF IInv, TypeOK
<1>1. SUFFICES PendingIsDated' /\ DecidedIsReviewed' /\ ReviewsKeepReviewer'
  OBVIOUS
<1>2. ASSUME NEW b \in PlannedDates, CreateFromBasics(b)
      PROVE  PendingIsDated' /\ DecidedIsReviewed' /\ ReviewsKeepReviewer'
  BY <1>2 DEF CreateFromBasics, requests, PendingIsDated, DecidedIsReviewed, ReviewsKeepReviewer,
              Decisions
<1>3. CASE SaveLocationSimple
  BY <1>3 DEF SaveLocationSimple, requests, PendingIsDated, DecidedIsReviewed, ReviewsKeepReviewer
<1>4. ASSUME NEW h \in Handlers, BeginSubmit(h) \/ CheckCanSubmit(h) \/ BeginWithdraw(h) \/ Fail(h)
      PROVE  PendingIsDated' /\ DecidedIsReviewed' /\ ReviewsKeepReviewer'
  <2>1. PendingIsDated' /\ DecidedIsReviewed'
    BY <1>4 DEF BeginSubmit, CheckCanSubmit, BeginWithdraw, Fail, Begin, End, row,
                PendingIsDated, DecidedIsReviewed
  <2>2. ReviewsKeepReviewer'
    BY <1>4 DEF BeginSubmit, CheckCanSubmit, BeginWithdraw, Fail, Begin, End, row,
                ReviewsKeepReviewer, Decisions
  <2>3. QED
    BY <2>1, <2>2
<1>5. ASSUME NEW h \in Handlers, NEW b \in PlannedDates, BeginBasics(h, b)
      PROVE  PendingIsDated' /\ DecidedIsReviewed' /\ ReviewsKeepReviewer'
  BY <1>5 DEF BeginBasics, Begin, row, PendingIsDated, DecidedIsReviewed, ReviewsKeepReviewer,
              Decisions
<1>6. ASSUME NEW h \in Handlers, NEW decision \in Decisions, NEW p \in People,
             BeginReview(h, decision, p)
      PROVE  PendingIsDated' /\ DecidedIsReviewed' /\ ReviewsKeepReviewer'
  <2>1. PendingIsDated' /\ DecidedIsReviewed'
    BY <1>6 DEF BeginReview, Begin, row, PendingIsDated, DecidedIsReviewed
  <2>2. by'[h] = p /\ old'[h].reviewedBy = reviewedBy
    BY <1>6 DEF BeginReview, Begin, NothingLoaded
  <2>3. ReviewsKeepReviewer'
    BY <1>6, <2>2 DEF BeginReview, Begin, row, ReviewsKeepReviewer
  <2>4. QED
    BY <2>1, <2>3
<1>7. ASSUME NEW h \in Handlers, SaveSubmit(h) \/ SaveWithdraw(h)
      PROVE  PendingIsDated' /\ DecidedIsReviewed' /\ ReviewsKeepReviewer'
  BY <1>7 DEF SaveSubmit, SaveWithdraw, End, PendingIsDated, DecidedIsReviewed,
              ReviewsKeepReviewer, Decisions
<1>8. ASSUME NEW h \in Handlers, SaveApprove(h) \/ SaveReturnOrReject(h)
      PROVE  PendingIsDated' /\ DecidedIsReviewed' /\ ReviewsKeepReviewer'
  <2>1. reviewedBy' = Saved(by[h], old[h].reviewedBy, reviewedBy) /\ pc[h] \in Decisions
    BY <1>8 DEF SaveApprove, SaveReturnOrReject, Decisions
  <2>2. reviewedBy' # NoPerson
    BY <2>1, SavedReviewer DEF ReviewsKeepReviewer
  <2>3. PendingIsDated' /\ DecidedIsReviewed'
    BY <1>8, <2>2 DEF SaveApprove, SaveReturnOrReject, PendingIsDated, DecidedIsReviewed
  <2>4. ReviewsKeepReviewer'
    BY <1>8, <2>2 DEF SaveApprove, SaveReturnOrReject, End, ReviewsKeepReviewer, Decisions
  <2>5. QED
    BY <2>3, <2>4
<1>9. ASSUME NEW h \in Handlers, SaveBasics(h)
      PROVE  PendingIsDated' /\ DecidedIsReviewed' /\ ReviewsKeepReviewer'
  BY <1>9 DEF SaveBasics, End, PendingIsDated, DecidedIsReviewed,
              ReviewsKeepReviewer, Decisions
<1>10. CASE UNCHANGED vars
  BY <1>10 DEF vars, PendingIsDated, DecidedIsReviewed, ReviewsKeepReviewer
<1>11. QED
  BY <1>2, <1>3, <1>4, <1>5, <1>6, <1>7, <1>8, <1>9, <1>10 DEF Next

\* However many requests overlap, the inductive invariant holds.
THEOREM Inductive == Spec => []IInv
<1>1. Init => PendingIsDated /\ DecidedIsReviewed /\ ReviewsKeepReviewer
  BY DEF Init, PendingIsDated, DecidedIsReviewed, ReviewsKeepReviewer, Decisions
<1>2. ASSUME IInv, TypeOK', [Next]_vars PROVE IInv'
  BY <1>2, InductiveStep
<1>3. QED
  BY <1>1, <1>2, TypeCorrect, PTL DEF Spec, IInv

\* SubmitForApprovalAsync and WithdrawAsync: a pending proposal carries its
\* submission date under any overlap of any number of requests.
THEOREM PendingDated == Spec => []PendingIsDated
  BY Inductive, PTL DEF IInv

\* ApproveAsync, ReturnAsync, RejectAsync: a decided proposal has a reviewer, an
\* approved one an approval date, under any overlap of any number of requests.
THEOREM DecidedReviewed == Spec => []DecidedIsReviewed
  BY Inductive, PTL DEF IInv

\* A request that found a proposal fit for submission, or submitted, found its location.
LocatedOnce ==
    /\ SubmittedIsLocated
    /\ \A h \in Handlers : pc[h] \in {"submit"} \cup Decisions => locationPoint

LEMMA LocatedStep ==
    ASSUME TypeOK, LocatedOnce, [Next]_vars
    PROVE  LocatedOnce'
<1> USE DEF TypeOK, LocatedOnce, SubmittedIsLocated, Decisions
<1>1. ASSUME NEW date \in PlannedDates, CreateFromBasics(date) PROVE LocatedOnce'
  BY <1>1 DEF CreateFromBasics, requests
<1>2. CASE SaveLocationSimple
  BY <1>2 DEF SaveLocationSimple, requests
<1>3. ASSUME NEW h \in Handlers, CheckCanSubmit(h) PROVE LocatedOnce'
  BY <1>3 DEF CheckCanSubmit, CanSubmit, Complete, IsLocationSimpleComplete, End, row
<1>4. ASSUME NEW h \in Handlers, BeginSubmit(h) \/ BeginWithdraw(h) \/ Fail(h) PROVE LocatedOnce'
  BY <1>4 DEF BeginSubmit, BeginWithdraw, Fail, Begin, End, row
<1>5. ASSUME NEW h \in Handlers, NEW decision \in Decisions, NEW p \in People,
             BeginReview(h, decision, p)
      PROVE  LocatedOnce'
  BY <1>5 DEF BeginReview, Begin, row
<1>6. ASSUME NEW h \in Handlers, NEW date \in PlannedDates, BeginBasics(h, date)
      PROVE  LocatedOnce'
  BY <1>6 DEF BeginBasics, Begin, row
<1>7. ASSUME NEW h \in Handlers,
             SaveSubmit(h) \/ SaveApprove(h) \/ SaveReturnOrReject(h) \/ SaveWithdraw(h) \/ SaveBasics(h)
      PROVE  LocatedOnce'
  BY <1>7 DEF SaveSubmit, SaveApprove, SaveReturnOrReject, SaveWithdraw, SaveBasics, End
<1>8. CASE UNCHANGED vars
  BY <1>8 DEF vars
<1>9. QED
  BY <1>1, <1>2, <1>3, <1>4, <1>5, <1>6, <1>7, <1>8 DEF Next

\* SubmitForApprovalAsync and the reviews: nothing without a simple location awaits a
\* decision or was decided, under any overlap of any number of requests.
THEOREM SubmittedLocated == Spec => []SubmittedIsLocated
<1>1. Init => LocatedOnce
  BY DEF Init, LocatedOnce, SubmittedIsLocated, Decisions
<1>2. ASSUME TypeOK, LocatedOnce, [Next]_vars PROVE LocatedOnce'
  BY <1>2, LocatedStep
<1>3. LocatedOnce => SubmittedIsLocated
  BY DEF LocatedOnce
<1>4. QED
  BY <1>1, <1>2, <1>3, TypeCorrect, PTL DEF Spec

\* A submitted proposal keeps its date and its location, for any number of requests.
THEOREM SubmittedComplete == Spec => []SubmittedIsComplete
  BY PendingDated, SubmittedLocated, PTL DEF SubmittedIsComplete

----------------------------------------------------------------------------
(* One request at a time: the workflow is atomic.                           *)

\* What a request loaded is still what the row holds when it saves.
LoadedIsCurrent ==
    \A h \in Handlers :
        /\ pc[h] # "idle" => status # "None"
        /\ pc[h] \in Decisions => status = "PendingApproval" /\ old[h].reviewedBy = reviewedBy
        /\ pc[h] = "withdraw" => status = "PendingApproval" /\ old[h].submissionDate
        /\ pc[h] \in {"canSubmit", "submit"} => status \in {"Draft", "Returned"}

\* A submission that passed CanSubmitAsync finds the proposal still complete unless a
\* simple-location save runs meanwhile, and that one only completes it.
SubmissionIsComplete == \A h \in Handlers : pc[h] = "submit" => Complete

SerialInv == IInv /\ LoadedIsCurrent /\ SubmissionIsComplete

\* With a single request slot a request is alone with the row.
LEMMA SerialStep ==
    ASSUME \A g, h \in Handlers : g = h,
           SerialInv, IInv', [Next]_vars
    PROVE  LoadedIsCurrent' /\ SubmissionIsComplete'
<1> USE DEF SerialInv, IInv, TypeOK
<1>1. ASSUME NEW b \in PlannedDates, CreateFromBasics(b)
      PROVE  LoadedIsCurrent' /\ SubmissionIsComplete'
  BY <1>1 DEF CreateFromBasics, requests, LoadedIsCurrent, SubmissionIsComplete, Complete
<1>2. CASE SaveLocationSimple
  BY <1>2 DEF SaveLocationSimple, requests, LoadedIsCurrent, SubmissionIsComplete, Complete,
              IsBasicsComplete, IsLocationSimpleComplete
<1>3. ASSUME NEW h \in Handlers, BeginSubmit(h) \/ CheckCanSubmit(h) \/ Fail(h)
      PROVE  LoadedIsCurrent' /\ SubmissionIsComplete'
  <2>1. LoadedIsCurrent'
    BY <1>3 DEF BeginSubmit, CheckCanSubmit, CanSubmit, Fail, Begin, End, row, LoadedIsCurrent,
                Decisions
  <2>2. SubmissionIsComplete'
    BY <1>3 DEF BeginSubmit, CheckCanSubmit, CanSubmit, Fail, Begin, End, row,
                SubmissionIsComplete, Complete, IsBasicsComplete, IsLocationSimpleComplete
  <2>3. QED
    BY <2>1, <2>2
<1>4. ASSUME NEW h \in Handlers, NEW decision \in Decisions, NEW p \in People,
             BeginReview(h, decision, p)
      PROVE  LoadedIsCurrent' /\ SubmissionIsComplete'
  <2>1. pc'[h] = decision /\ old'[h].reviewedBy = reviewedBy /\ status = "PendingApproval"
        /\ UNCHANGED row
    BY <1>4 DEF BeginReview, Begin, NothingLoaded
  <2>2. QED
    BY <2>1 DEF row, LoadedIsCurrent, SubmissionIsComplete, Decisions
<1>5. ASSUME NEW h \in Handlers, BeginWithdraw(h)
      PROVE  LoadedIsCurrent' /\ SubmissionIsComplete'
  <2>1. pc'[h] = "withdraw" /\ old'[h].submissionDate = submissionDate
        /\ status = "PendingApproval" /\ UNCHANGED row
    BY <1>5 DEF BeginWithdraw, Begin, NothingLoaded
  <2>2. QED
    BY <2>1 DEF row, LoadedIsCurrent, SubmissionIsComplete, PendingIsDated, Decisions
<1>6. ASSUME NEW h \in Handlers, NEW b \in PlannedDates, BeginBasics(h, b)
      PROVE  LoadedIsCurrent' /\ SubmissionIsComplete'
  <2>1. pc'[h] = "basics" /\ status # "None" /\ UNCHANGED status
    BY <1>6 DEF BeginBasics, Begin, row
  <2>2. QED
    BY <2>1 DEF LoadedIsCurrent, SubmissionIsComplete, Decisions
<1>7. ASSUME NEW h \in Handlers,
             \/ SaveSubmit(h) \/ SaveApprove(h) \/ SaveReturnOrReject(h)
             \/ SaveWithdraw(h) \/ SaveBasics(h)
      PROVE  LoadedIsCurrent' /\ SubmissionIsComplete'
  <2>1. pc'[h] = "idle"
    BY <1>7 DEF SaveSubmit, SaveApprove, SaveReturnOrReject, SaveWithdraw, SaveBasics, End
  <2>2. QED
    BY <2>1 DEF LoadedIsCurrent, SubmissionIsComplete, Decisions
<1>8. CASE UNCHANGED vars
  BY <1>8 DEF vars, LoadedIsCurrent, SubmissionIsComplete, Complete, IsBasicsComplete,
              IsLocationSimpleComplete
<1>9. QED
  BY <1>1, <1>2, <1>3, <1>4, <1>5, <1>6, <1>7, <1>8 DEF Next

\* A step of the detailed workflow is a step of the atomic one, or a stutter.
LEMMA StepSimulation ==
    ASSUME SerialInv, [Next]_vars
    PROVE  [Workflow!Next]_(Workflow!vars)
<1> USE DEF SerialInv, IInv, TypeOK, Workflow!vars
<1>1. ASSUME NEW b \in PlannedDates, CreateFromBasics(b) PROVE Workflow!Create
  BY <1>1 DEF CreateFromBasics, Workflow!Create, Complete, IsBasicsComplete,
              IsLocationSimpleComplete
<1>2. CASE SaveLocationSimple
  BY <1>2 DEF SaveLocationSimple, Workflow!Next, Workflow!Edit, Complete, IsBasicsComplete,
              IsLocationSimpleComplete
<1>3. ASSUME NEW h \in Handlers, SaveSubmit(h) PROVE Workflow!Submit
  BY <1>3 DEF SaveSubmit, Workflow!Submit, LoadedIsCurrent, SubmissionIsComplete, Complete,
              IsBasicsComplete, IsLocationSimpleComplete
<1>4. ASSUME NEW h \in Handlers, SaveApprove(h) \/ SaveReturnOrReject(h)
      PROVE  Workflow!Decide(pc[h], by[h]) /\ pc[h] \in Decisions /\ by[h] \in People
  <2>1. pc[h] \in Decisions
    BY <1>4 DEF SaveApprove, SaveReturnOrReject, Decisions
  <2>2. by[h] \in People /\ status = "PendingApproval" /\ old[h].reviewedBy = reviewedBy
    BY <2>1 DEF ReviewsKeepReviewer, LoadedIsCurrent
  <2>3. reviewedBy' = by[h]
    BY <1>4, <2>2 DEF SaveApprove, SaveReturnOrReject, Saved
  <2>4. UNCHANGED Complete /\ UNCHANGED submissionDate /\ status' = pc[h]
    BY <1>4 DEF SaveApprove, SaveReturnOrReject, Complete, IsBasicsComplete,
                IsLocationSimpleComplete
  <2>5. approvalDate' = (approvalDate \/ pc[h] = "Approved")
    BY <1>4 DEF SaveApprove, SaveReturnOrReject
  <2>6. QED
    BY <2>1, <2>2, <2>3, <2>4, <2>5 DEF Workflow!Decide
<1>5. ASSUME NEW h \in Handlers, SaveWithdraw(h) PROVE Workflow!Withdraw
  BY <1>5 DEF SaveWithdraw, Workflow!Withdraw, LoadedIsCurrent, Saved, Complete,
              IsBasicsComplete, IsLocationSimpleComplete
<1>6. ASSUME NEW h \in Handlers, SaveBasics(h)
      PROVE  Workflow!Edit \/ UNCHANGED Workflow!vars
  BY <1>6 DEF SaveBasics, Workflow!Edit, LoadedIsCurrent, Complete, IsBasicsComplete, IsLocationSimpleComplete
<1>7. ASSUME NEW h \in Handlers,
             \/ BeginSubmit(h) \/ CheckCanSubmit(h) \/ BeginWithdraw(h) \/ Fail(h)
             \/ \E decision \in Decisions, p \in People : BeginReview(h, decision, p)
             \/ \E b \in PlannedDates : BeginBasics(h, b)
      PROVE  UNCHANGED Workflow!vars
  BY <1>7 DEF BeginSubmit, CheckCanSubmit, BeginWithdraw, Fail, BeginReview, BeginBasics, Begin,
              row, Complete, IsBasicsComplete, IsLocationSimpleComplete
<1>8. CASE UNCHANGED vars
  BY <1>8 DEF vars, Complete, IsBasicsComplete, IsLocationSimpleComplete
<1>9. QED
  BY <1>1, <1>2, <1>3, <1>4, <1>5, <1>6, <1>7, <1>8 DEF Next, Workflow!Next, Decisions

\* Served one request at a time, the workflow of the code is the atomic approval
\* workflow: only complete proposals are submitted, only pending ones decided.
THEOREM SerialImplementsWorkflow ==
    ASSUME \A g, h \in Handlers : g = h
    PROVE  Spec => ImplementsWorkflow
<1>1. Init => Workflow!Init /\ LoadedIsCurrent /\ SubmissionIsComplete
  BY DEF Init, Workflow!Init, Complete, IsBasicsComplete, IsLocationSimpleComplete,
         LoadedIsCurrent, SubmissionIsComplete, Decisions
<1>2. ASSUME SerialInv, IInv', [Next]_vars
      PROVE  LoadedIsCurrent' /\ SubmissionIsComplete'
  BY <1>2, SerialStep
<1>3. ASSUME SerialInv, [Next]_vars
      PROVE  [Workflow!Next]_(Workflow!vars)
  BY <1>3, StepSimulation
<1>4. QED
  BY <1>1, <1>2, <1>3, Inductive, PTL DEF Spec, SerialInv, ImplementsWorkflow, Workflow!Spec
============================================================================
