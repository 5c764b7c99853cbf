------------------------- MODULE ApprovalWorkflow -------------------------
(***************************************************************************)
(* What the proposal workflow of a project promises, stated without HTTP    *)
(* requests: every transition reads and writes the project in one step, a   *)
(* decision is only taken on a pending proposal, and only a complete        *)
(* proposal is submitted.  ProjectCreate is the detailed specification;     *)
(* with one request at a time it implements this module.                    *)
(***************************************************************************)
CONSTANTS People,    \* persons who may review a proposal
          NoPerson   \* ReviewedByPersonID is null

VARIABLES status,          \* ProjectApprovalStatus, "None" before creation
          submissionDate,  \* TRUE iff Project.SubmissionDate is set
          approvalDate,    \* TRUE iff Project.ApprovalDate is set
          reviewedBy,      \* Project.ReviewedByPersonID
          complete         \* the required steps (Basics, Simple Location) are complete

vars == <<status, submissionDate, approvalDate, reviewedBy, complete>>

Init ==
    /\ status = "None"
    /\ submissionDate = FALSE
    /\ approvalDate = FALSE
    /\ reviewedBy = NoPerson
    /\ complete = FALSE

Create ==
    /\ status = "None"
    /\ status' = "Draft"
    /\ complete' \in BOOLEAN
    /\ UNCHANGED <<submissionDate, approvalDate, reviewedBy>>

\* The wizard steps may be saved in every status.
Edit ==
    /\ status # "None"
    /\ complete' \in BOOLEAN
    /\ UNCHANGED <<status, submissionDate, approvalDate, reviewedBy>>

Submit ==
    /\ status \in {"Draft", "Returned"}
    /\ complete
    /\ status' = "PendingApproval"
    /\ submissionDate' = TRUE
    /\ UNCHANGED <<approvalDate, reviewedBy, complete>>

Decide(decision, p) ==
    /\ status = "PendingApproval"
    /\ status' = decision
    /\ reviewedBy' = p
    /\ approvalDate' = (approvalDate \/ decision = "Approved")
    /\ UNCHANGED <<submissionDate, complete>>

Withdraw ==
    /\ status = "PendingApproval"
    /\ status' = "Draft"
    /\ submissionDate' = FALSE
    /\ UNCHANGED <<approvalDate, reviewedBy, complete>>

Next ==
    \/ Create
    \/ Edit
    \/ Submit
    \/ \E decision \in {"Approved", "Returned", "Rejected"}, p \in People : Decide(decision, p)
    \/ Withdraw

Spec == Init /\ [][Next]_vars
===========================================================================
