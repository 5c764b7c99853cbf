--------------------------- MODULE ProjectCreate ---------------------------
(***************************************************************************)
(* The "create" (proposal) workflow of one project: the wizard steps that   *)
(* decide whether it can be submitted, and the approval transitions.        *)
(*                                                                          *)
(* Every endpoint runs in its own request with its own DbContext: it loads  *)
(* the Project row, checks it, assigns properties and calls SaveChanges.    *)
(* There is no row version, so SaveChanges writes exactly the columns whose *)
(* value differs from the one loaded, whatever the row holds by then.  A    *)
(* handler is a request in flight; its load and its save are two steps.     *)
(***************************************************************************)
CONSTANTS Handlers,  \* requests that can be in flight at the same time
          People,    \* callers who may review a proposal
          NoPerson   \* a null person column

ASSUME NoPersonAssumption == NoPerson \notin People

VARIABLES
    \* the Project row
    status,          \* ProjectApprovalStatusID, "None" before the row exists
    submissionDate,  \* TRUE iff SubmissionDate is not null
    approvalDate,    \* TRUE iff ApprovalDate is not null
    reviewedBy,      \* ReviewedByPersonID
    plannedDate,     \* PlannedDate
    locationPoint,   \* TRUE iff ProjectLocationPoint is not null
    \* the requests
    pc,              \* what the request will do next
    by,              \* CallingUser of a review request
    old,             \* the columns a request loaded and compares when it saves
    new              \* the PlannedDate a Basics request carries

row == <<status, submissionDate, approvalDate, reviewedBy, plannedDate, locationPoint>>
requests == <<pc, by, old, new>>
vars == <<status, submissionDate, approvalDate, reviewedBy, plannedDate, locationPoint,
          pc, by, old, new>>

PlannedDates == {"none", "d1", "d2"}   \* null and two different dates
Reviewers == People \cup {NoPerson}
Decisions == {"Approved", "Returned", "Rejected"}
Statuses == {"None", "Draft", "PendingApproval"} \cup Decisions
Steps == {"idle", "canSubmit", "submit", "withdraw", "basics"} \cup Decisions

Columns == [submissionDate : BOOLEAN, reviewedBy : Reviewers, plannedDate : PlannedDates]

NothingLoaded == [submissionDate |-> FALSE, reviewedBy |-> NoPerson, plannedDate |-> "none"]

\* SaveChanges writes a column only if the value assigned differs from the one loaded.
Saved(assigned, loaded, current) == IF assigned # loaded THEN assigned ELSE current

IsBasicsComplete == plannedDate # "none"
IsLocationSimpleComplete == locationPoint
Complete == IsBasicsComplete /\ IsLocationSimpleComplete

\* Mutant: the required steps are not consulted.
CanSubmitByStatus == status \in {"Draft", "Returned"}

CanSubmit == status \in {"Draft", "Returned"} /\ Complete

Init ==
    /\ status = "None"
    /\ submissionDate = FALSE
    /\ approvalDate = FALSE
    /\ reviewedBy = NoPerson
    /\ plannedDate = "none"
    /\ locationPoint = FALSE
    /\ pc = [h \in Handlers |-> "idle"]
    /\ by = [h \in Handlers |-> NoPerson]
    /\ old = [h \in Handlers |-> NothingLoaded]
    /\ new = [h \in Handlers |-> "none"]

----------------------------------------------------------------------------
(* Loading the row and the checks made on what was loaded.                  *)

Begin(h, step, person, loaded, date) ==
    /\ pc[h] = "idle"
    /\ status # "None"
    /\ pc' = [pc EXCEPT ![h] = step]
    /\ by' = [by EXCEPT ![h] = person]
    /\ old' = [old EXCEPT ![h] = loaded]
    /\ new' = [new EXCEPT ![h] = date]
    /\ UNCHANGED row

\* The request ends; a response is sent and its DbContext is gone.
End(h) ==
    /\ pc' = [pc EXCEPT ![h] = "idle"]
    /\ by' = [by EXCEPT ![h] = NoPerson]
    /\ old' = [old EXCEPT ![h] = NothingLoaded]
    /\ new' = [new EXCEPT ![h] = "none"]

BeginSubmit(h) ==
    /\ status \in {"Draft", "Returned"}
    /\ Begin(h, "canSubmit", NoPerson, NothingLoaded, "none")

\* CanSubmitAsync reads the project a second time.
CheckCanSubmit(h) ==
    /\ pc[h] = "canSubmit"
    /\ \/ CanSubmit /\ pc' = [pc EXCEPT ![h] = "submit"] /\ UNCHANGED <<by, old, new>>
       \/ ~CanSubmit /\ End(h)
    /\ UNCHANGED row

BeginReview(h, decision, p) ==
    /\ status = "PendingApproval"
    /\ Begin(h, decision, p, [NothingLoaded EXCEPT !.reviewedBy = reviewedBy], "none")

BeginWithdraw(h) ==
    /\ status = "PendingApproval"
    /\ Begin(h, "withdraw", NoPerson, [NothingLoaded EXCEPT !.submissionDate = submissionDate], "none")

\* The Basics step is loaded and saved in every approval status.
BeginBasics(h, date) ==
    Begin(h, "basics", NoPerson, [NothingLoaded EXCEPT !.plannedDate = plannedDate], date)

----------------------------------------------------------------------------
(* SaveChanges.                                                             *)

CreateFromBasics(date) ==
    /\ status = "None"
    /\ status' = "Draft"
    /\ plannedDate' = date
    /\ UNCHANGED <<submissionDate, approvalDate, reviewedBy, locationPoint, requests>>

\* Mutant: the state of the update workflow instead of the approval status.
SaveSubmitWrongEnum(h) ==
    /\ pc[h] = "submit"
    /\ status' = "Submitted"
    /\ submissionDate' = TRUE
    /\ End(h)
    /\ UNCHANGED <<approvalDate, reviewedBy, plannedDate, locationPoint>>

SaveSubmit(h) ==
    /\ pc[h] = "submit"
    /\ status' = "PendingApproval"
    /\ submissionDate' = TRUE
    /\ End(h)
    /\ UNCHANGED <<approvalDate, reviewedBy, plannedDate, locationPoint>>

\* Mutant: the approval does not name its reviewer.
SaveApproveAnonymously(h) ==
    /\ pc[h] = "Approved"
    /\ status' = "Approved"
    /\ approvalDate' = TRUE
    /\ End(h)
    /\ UNCHANGED <<submissionDate, reviewedBy, plannedDate, locationPoint>>

\* The reviewer is a column like any other: it is written only if it changes.
SaveApprove(h) ==
    /\ pc[h] = "Approved"
    /\ status' = "Approved"
    /\ approvalDate' = TRUE
    /\ reviewedBy' = Saved(by[h], old[h].reviewedBy, reviewedBy)
    /\ End(h)
    /\ UNCHANGED <<submissionDate, plannedDate, locationPoint>>

SaveReturnOrReject(h) ==
    /\ pc[h] \in {"Returned", "Rejected"}
    /\ status' = pc[h]
    /\ reviewedBy' = Saved(by[h], old[h].reviewedBy, reviewedBy)
    /\ End(h)
    /\ UNCHANGED <<submissionDate, approvalDate, plannedDate, locationPoint>>

\* Mutant: the withdrawal clears the date but leaves the proposal pending.
SaveWithdrawStillPending(h) ==
    /\ pc[h] = "withdraw"
    /\ submissionDate' = Saved(FALSE, old[h].submissionDate, submissionDate)
    /\ End(h)
    /\ UNCHANGED <<status, approvalDate, reviewedBy, plannedDate, locationPoint>>

SaveWithdraw(h) ==
    /\ pc[h] = "withdraw"
    /\ status' = "Draft"
    /\ submissionDate' = Saved(FALSE, old[h].submissionDate, submissionDate)
    /\ End(h)
    /\ UNCHANGED <<approvalDate, reviewedBy, plannedDate, locationPoint>>

SaveBasics(h) ==
    /\ pc[h] = "basics"
    /\ plannedDate' = Saved(new[h], old[h].plannedDate, plannedDate)
    /\ End(h)
    /\ UNCHANGED <<status, submissionDate, approvalDate, reviewedBy, locationPoint>>

\* The point is always assigned, whatever was loaded.
SaveLocationSimple ==
    /\ status # "None"
    /\ locationPoint' = TRUE
    /\ UNCHANGED <<status, submissionDate, approvalDate, reviewedBy, plannedDate, requests>>

\* The save throws (a constraint, a lost connection) or the request is aborted: SaveChanges is one transaction, so nothing is written.
Fail(h) ==
    /\ pc[h] # "idle"
    /\ End(h)
    /\ UNCHANGED row

Next ==
    \/ \E date \in PlannedDates : CreateFromBasics(date)
    \/ SaveLocationSimple
    \/ \E h \in Handlers :
        \/ BeginSubmit(h)
        \/ CheckCanSubmit(h)
        \/ SaveSubmit(h)
        \/ \E decision \in Decisions, p \in People : BeginReview(h, decision, p)
        \/ SaveApprove(h)
        \/ SaveReturnOrReject(h)
        \/ BeginWithdraw(h)
        \/ SaveWithdraw(h)
        \/ \E date \in PlannedDates : BeginBasics(h, date)
        \/ SaveBasics(h)
        \/ Fail(h)

Spec == Init /\ [][Next]_vars

----------------------------------------------------------------------------
(* Properties.                                                              *)

\* Every column and every request in flight has a value of its type.
TypeOK ==
    /\ status \in Statuses
    /\ submissionDate \in BOOLEAN
    /\ approvalDate \in BOOLEAN
    /\ reviewedBy \in Reviewers
    /\ plannedDate \in PlannedDates
    /\ locationPoint \in BOOLEAN
    /\ pc \in [Handlers -> Steps]
    /\ by \in [Handlers -> Reviewers]
    /\ old \in [Handlers -> Columns]
    /\ new \in [Handlers -> PlannedDates]

\* A proposal that awaits approval carries the date of its submission, however
\* submissions, withdrawals and reviews overlap (SubmitForApprovalAsync stamps it,
\* WithdrawAsync clears it, and both always write the status in the same save).
PendingIsDated == status = "PendingApproval" => submissionDate

\* An approved project has its approval date and a reviewer, a returned or rejected
\* one has a reviewer, although another request may have written the reviewer
\* column in between (ApproveAsync and its siblings skip the column when it
\* already held the caller).
DecidedIsReviewed ==
    /\ status \in Decisions => reviewedBy # NoPerson
    /\ status = "Approved" => approvalDate

\* A proposal that awaits approval, or was approved, returned or rejected, has a simple
\* location, although submission reads the project twice before it saves, a review
\* trusts the status it loaded, and a withdrawal or another review may come in between:
\* no request of the workflow takes a location away (SaveLocationSimpleStepAsync).
SubmittedIsLocated == status \in {"PendingApproval"} \cup Decisions => locationPoint

\* What submission established holds as long as it matters, under any overlap of requests.
SubmittedIsComplete == PendingIsDated /\ SubmittedIsLocated

\* With one request at a time the workflow is the atomic one of ApprovalWorkflow.
Workflow == INSTANCE ApprovalWorkflow WITH complete <- Complete
ImplementsWorkflow == Workflow!Spec
============================================================================
