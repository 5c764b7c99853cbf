--------------------------- MODULE UpdateWorkflow ---------------------------
(***************************************************************************)
(* What the update workflow of a project promises, stated without requests, *)
(* batches' identities or stored procedures: at most one update at a time,  *)
(* the live project changes only by taking over the rows of an update that  *)
(* is under review, and the update is approved only when it has been taken  *)
(* over exactly.  Under review no row of it is changed or removed, but some *)
(* may be added: the GDB import and the endpoints that create a photo, a    *)
(* document or a note do not ask for the state.  ProjectUpdateBatch, one    *)
(* request at a time, implements this module.                               *)
(***************************************************************************)
CONSTANTS Items   \* the rows a project may consist of

VARIABLES project,  \* the rows of the live project
          phase,    \* the state of the update in progress, "None" if there is none
          rows      \* the rows of the update in progress

vars == <<project, phase, rows>>

Init ==
    /\ project \in SUBSET Items
    /\ phase = "None"
    /\ rows = {}

\* The update starts empty; copying the project is an edit that may fail half way.
Start ==
    /\ phase = "None"
    /\ phase' = "Created"
    /\ rows' = {}
    /\ UNCHANGED project

Edit ==
    /\ phase \in {"Created", "Returned"}
    /\ rows' \in SUBSET Items
    /\ UNCHANGED <<project, phase>>

\* In any state: the GDB import, a new photo, a new document, a new note.
AddRows ==
    /\ phase # "None"
    /\ rows' \in SUBSET Items
    /\ rows \subseteq rows'
    /\ UNCHANGED <<project, phase>>

Submit ==
    /\ phase \in {"Created", "Returned"}
    /\ phase' = "Submitted"
    /\ UNCHANGED <<project, rows>>

Return ==
    /\ phase = "Submitted"
    /\ phase' = "Returned"
    /\ UNCHANGED <<project, rows>>

\* An approval that stops here leaves the update under review.
Merge ==
    /\ phase = "Submitted"
    /\ project' = rows
    /\ UNCHANGED <<phase, rows>>

Finish ==
    /\ phase' = "None"
    /\ rows' = {}
    /\ UNCHANGED project

Approve == phase = "Submitted" /\ project = rows /\ Finish

Delete == phase \in {"Created", "Returned"} /\ Finish

Next ==
    \/ Start \/ Edit \/ AddRows \/ Submit \/ Return
    \/ Merge \/ Approve \/ Delete

Spec == Init /\ [][Next]_vars
=============================================================================
