--------------------------- MODULE WorkflowSteps ---------------------------
(***************************************************************************)
(* The steps of the two project workflows of the web client, one row each, *)
(* named after their components.  A row says with what controls the step   *)
(* is edited, what it lets the user do before its data came, what a failed *)
(* load leaves in it, what Save leaves out, and which of its requests      *)
(* reload the step and the sidebar; WorkflowClient gives the rows their    *)
(* meaning.                                                                *)
(***************************************************************************)
EXTENDS FiniteSets

Requests == {"save", "revert", "dialog"}

\* A step whose edits all go through one form that is tracked, that shows
\* nothing before its data came, and whose inputs are disabled while it
\* saves.  Its Save button is there from the start, but onSave returns until
\* there is something to send.  In the proposal it loads its data once, ...
CreateStep(name, next, edits) ==
    [name |-> name, flow |-> "create", next |-> next, edits |-> edits,
     whileSaving |-> {}, tracked |-> TRUE, saves |-> TRUE,
     early |-> {}, needs |-> FALSE, omits |-> FALSE, paired |-> FALSE, failed |-> "keeps",
     reloads |-> {}, refreshes |-> {"save"}, clears |-> TRUE]

\* ... in the update it reloads after every request.
UpdateStep(name, next, edits) ==
    [CreateStep(name, next, edits)
        EXCEPT !.flow = "update", !.reloads = Requests, !.refreshes = Requests]

\* The row of a step that keeps lists instead of a form.
Lists(row) == [row EXCEPT !.tracked = FALSE, !.failed = "empties"]

\* A step that is edited by dialogs only.
DialogsOnly(row) ==
    [Lists(row) EXCEPT !.edits = {"dialog"}, !.whileSaving = {"dialog"}, !.saves = FALSE,
                       !.reloads = @ \cup {"dialog"}, !.refreshes = @ \cup {"dialog"}]

\* Regions: a list box that resets itself, a map, an explanation.  A click
\* on the map is answered by the map server, perhaps while Save runs.  Save
\* leaves the explanation out once a region is selected.  The step waits for
\* two answers, its own and the project's location; in the update both are
\* asked for again with every reload.
Regions(row) ==
    [row EXCEPT !.edits = {"typed", "marked", "reset"}, !.whileSaving = {"marked"},
                !.needs = TRUE, !.omits = TRUE, !.paired = (row.flow = "update")]

\* The basics can be filled in before they are loaded.
Basics(row) ==
    [row EXCEPT !.edits = {"typed", "marked", "reset"},
                !.whileSaving = {"typed", "marked", "reset"},
                !.early = {"edit", "save"}, !.needs = TRUE]

\* The detailed location shows its map, and Save, before its data comes;
\* its ngOnDestroy replaces that of the base class.
Detailed(row) ==
    [row EXCEPT !.edits = {"marked", "dialog"}, !.whileSaving = {"marked", "dialog"},
                !.tracked = FALSE, !.early = {"edit", "save"}, !.clears = FALSE]

-----------------------------------------------------------------------------
\* The proposal.

\* onSave of the basics is not saveStep: it does not refresh the sidebar.
CreateBasics ==
    [Basics(CreateStep("CreateBasics", "CreateLocationSimple", {}))
        EXCEPT !.refreshes = {}]
CreateLocationSimple ==
    [CreateStep("CreateLocationSimple", "CreateLocationDetailed", {"typed", "marked"})
        EXCEPT !.whileSaving = {"typed"}, !.needs = TRUE]
\* An import of a GDB reloads the step but not the sidebar.
CreateLocationDetailed ==
    [Detailed(CreateStep("CreateLocationDetailed", "CreatePriorityLandscapes", {}))
        EXCEPT !.reloads = {"dialog"}]
CreatePriorityLandscapes ==
    Regions(CreateStep("CreatePriorityLandscapes", "CreateDnrUplandRegions", {}))
CreateDnrUplandRegions ==
    Regions(CreateStep("CreateDnrUplandRegions", "CreateCounties", {}))
CreateCounties == Regions(CreateStep("CreateCounties", "CreateTreatments", {}))
CreateTreatments == DialogsOnly(CreateStep("CreateTreatments", "CreateContacts", {}))
CreateContacts == Lists(CreateStep("CreateContacts", "CreateOrganizations", {"marked"}))
CreateOrganizations ==
    Lists(CreateStep("CreateOrganizations", "CreateExpectedFunding", {"marked"}))
\* The amounts of an allocation are not watched.
CreateExpectedFunding ==
    Lists(CreateStep("CreateExpectedFunding", "CreateClassifications", {"marked", "silent"}))
\* The notes of a classification are not watched, and not disabled.  onSave
\* does not ask whether the classifications have come.
CreateClassifications ==
    [Lists(CreateStep("CreateClassifications", "CreatePhotos", {"marked", "silent"}))
        EXCEPT !.whileSaving = {"silent"}, !.early = {"save"}]
CreatePhotos == DialogsOnly(CreateStep("CreatePhotos", "CreateDocumentsNotes", {}))
CreateDocumentsNotes == DialogsOnly(CreateStep("CreateDocumentsNotes", "none", {}))

-----------------------------------------------------------------------------
\* The update.

UpdateBasics == Basics(UpdateStep("UpdateBasics", "UpdateLocationSimple", {}))
UpdateLocationSimple ==
    [UpdateStep("UpdateLocationSimple", "UpdateLocationDetailed", {"typed", "marked"})
        EXCEPT !.whileSaving = {"typed"}, !.needs = TRUE]
UpdateLocationDetailed ==
    [Detailed(UpdateStep("UpdateLocationDetailed", "UpdatePriorityLandscapes", {}))
        EXCEPT !.failed = "empties"]
UpdatePriorityLandscapes ==
    Regions(UpdateStep("UpdatePriorityLandscapes", "UpdateDnrUplandRegions", {}))
UpdateDnrUplandRegions ==
    Regions(UpdateStep("UpdateDnrUplandRegions", "UpdateCounties", {}))
UpdateCounties == Regions(UpdateStep("UpdateCounties", "UpdateTreatments", {}))
UpdateTreatments == DialogsOnly(UpdateStep("UpdateTreatments", "UpdateContacts", {}))
UpdateContacts == Lists(UpdateStep("UpdateContacts", "UpdateOrganizations", {"marked"}))
UpdateOrganizations ==
    Lists(UpdateStep("UpdateOrganizations", "UpdateExpectedFunding", {"marked"}))
UpdateExpectedFunding ==
    Lists(UpdateStep("UpdateExpectedFunding", "UpdatePhotos", {"marked", "silent"}))
UpdatePhotos == DialogsOnly(UpdateStep("UpdatePhotos", "UpdateExternalLinks", {}))
\* A failed reload keeps the links that are shown; onSave does not ask
\* whether they have come.
UpdateExternalLinks ==
    [UpdateStep("UpdateExternalLinks", "UpdateDocumentsNotes", {"marked"})
        EXCEPT !.tracked = FALSE, !.early = {"save"}]
UpdateDocumentsNotes == DialogsOnly(UpdateStep("UpdateDocumentsNotes", "none", {}))

AllSteps ==
    {CreateBasics, CreateLocationSimple, CreateLocationDetailed, CreatePriorityLandscapes,
     CreateDnrUplandRegions, CreateCounties, CreateTreatments, CreateContacts,
     CreateOrganizations, CreateExpectedFunding, CreateClassifications, CreatePhotos,
     CreateDocumentsNotes,
     UpdateBasics, UpdateLocationSimple, UpdateLocationDetailed, UpdatePriorityLandscapes,
     UpdateDnrUplandRegions, UpdateCounties, UpdateTreatments, UpdateContacts,
     UpdateOrganizations, UpdateExpectedFunding, UpdatePhotos, UpdateExternalLinks,
     UpdateDocumentsNotes}
=============================================================================
