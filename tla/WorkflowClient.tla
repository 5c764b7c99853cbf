--------------------------- MODULE WorkflowClient ---------------------------
(***************************************************************************)
(* One user in the proposal or the update workflow of the web client: the  *)
(* step that is open (a row of WorkflowSteps), its requests, the shared    *)
(* `formDirty$' of WorkflowProgressService that UnsavedChangesGuard asks   *)
(* before the step is left, and the sidebar, which the steps ask to fetch  *)
(* the progress again.  The server's side of a step is one set of edits;   *)
(* what it does with them is the matter of ProjectCreate and               *)
(* ProjectUpdateBatch.                                                     *)
(*                                                                         *)
(* A request is refused, or applied and answered, or applied with its      *)
(* answer lost.  No request is cancelled when its step is left, so its     *)
(* answer may reach a component the user no longer sees.                   *)
(***************************************************************************)
EXTENDS WorkflowSteps, Naturals

CONSTANTS
    Steps,         \* rows of both workflows
    Starts,        \* those the user may open first
    Sidebar,       \* those the user may open from the sidebar
    MaxEdits,      \* bound: how often the user edits
    MaxRequests,   \* bound: how often a button that sends a request is pressed
    MaxActions,    \* bound: of both together; a dialog counts for both
    MaxVisits      \* bound: how many steps are followed; then the user is away

Controls == {"typed", "marked", "reset", "silent", "dialog"}
Names == {s.name : s \in Steps} \cup {"none"}
StepType ==
    [name : Names, flow : {"create", "update"}, next : Names,
     edits : SUBSET Controls, whileSaving : SUBSET Controls, tracked : BOOLEAN,
     saves : BOOLEAN, early : SUBSET {"edit", "save"}, needs : BOOLEAN, omits : BOOLEAN,
     paired : BOOLEAN, failed : {"keeps", "empties"},
     reloads : SUBSET Requests, refreshes : SUBSET Requests, clears : BOOLEAN]

\* Every step that has Save & Continue has a step to continue with.
ASSUME StepsAssumption ==
    /\ Steps \subseteq StepType /\ Starts \cup Sidebar \subseteq Steps
    /\ \A s \in Steps : s.saves => \E t \in Steps : t.name = s.next
ASSUME BoundsAssumption ==
    /\ MaxEdits \in Nat /\ MaxRequests \in Nat /\ MaxActions \in Nat
    /\ MaxVisits \in Nat \ {0}

VARIABLES
    at,          \* [visit, step]; visit 0: the user left the workflow
    form,        \* the edits the step shows
    stored,      \* the edits the server has of the step
    load,        \* the step's data, see LoadType
    touched,     \* form.dirty of the step's tracked form
    dirty,       \* formDirty$, shared by all steps
    saving,      \* isSaving of the step
    reverting,   \* isReverting$ of its buttons
    calls,       \* the requests, see CallType
    sidebar,     \* see SidebarType
    made,        \* history: how many edits were made
    edits,       \* history: those of this visit the user did not revert
    notes,       \* history: those Save leaves out once a region is selected
    exposed,     \* history: edits that formDirty$, a save or a reload may betray
    lost,        \* history: edits gone although the user was not asked
    blanked,     \* history: a save removed what the user never saw
    broken,      \* history: a load of this visit failed
    reverted     \* history: told of a revert, and nothing pressed since

history == <<made, edits, notes, exposed, lost, blanked, broken, reverted>>
flags == <<touched, saving, reverting>>
vars == <<at, form, stored, load, flags, dirty, calls, sidebar, history>>

\* Edit 0 is what the server had of the step before the user came.
Edits == 0..MaxEdits
Calls == 1..MaxRequests
Buttons == Requests \cup {"outlet", "return"}
\* What a callback knows of its step.
Origin(row) == [next |-> row.next, flow |-> row.flow,
                reloads |-> row.reloads, refreshes |-> row.refreshes]
NoCall(phase) ==
    [button |-> "save", visit |-> 0, content |-> {},
     from |-> [next |-> "none", flow |-> "create", reloads |-> {}, refreshes |-> {}],
     onward |-> FALSE, modal |-> "no", phase |-> phase]
Ended(i) == calls' = [calls EXCEPT ![i] = NoCall("done")]

InWorkflow == at.visit > 0
Step == at.step
StepNamed(name) == CHOOSE s \in Steps : s.name = name
\* Once the user is away the answers reach nothing that is modelled.
Busy(i) == InWorkflow /\ calls[i].phase \in {"sent", "applied"}
Own(i) == calls[i].visit = at.visit
OwnBusy == \E i \in Calls : Busy(i) /\ Own(i)
\* A dialog that runs its request covers the page.
Covered == \E i \in Calls : Busy(i) /\ calls[i].modal = "open"
Heard(i) == calls[i].modal # "dismissed"
Sent == {i \in Calls : calls[i].phase # "idle"}
MayAct == made + Cardinality(Sent) < MaxActions
Unsaved == (edits \cap form) \ stored
Missing == edits \ (form \cup stored)

FreshLoad(row) == [phase |-> "sent", content |-> {}, came |-> FALSE,
                   place |-> IF row.paired THEN "first" ELSE "none", latest |-> {}]
\* A paired step shows nothing before both of its answers came once.
Shown == load.came /\ load.place # "first"
Loading == load.phase # "none" \/ load.place # "none"

\* The outlet of the proposal shows its step at once, while the sidebar fetches;
\* that of the update shows both once the progress has come.
FirstSidebar ==
    LET fetches == Step.flow = "create"
    IN  [stale |-> fetches, answer |-> IF fetches THEN "sent" ELSE "none",
         alive |-> TRUE, missed |-> FALSE]

Init ==
    /\ at \in [visit : {1}, step : Starts]
    /\ form = {} /\ stored = {0} /\ load = FreshLoad(Step)
    /\ touched = FALSE /\ dirty = FALSE /\ saving = FALSE /\ reverting = FALSE
    /\ calls = [i \in Calls |-> NoCall("idle")]
    /\ sidebar = FirstSidebar
    /\ made = 0 /\ edits = {} /\ notes = {} /\ exposed = {} /\ lost = {}
    /\ blanked = FALSE /\ broken = FALSE /\ reverted = FALSE

-----------------------------------------------------------------------------
\* The data of the step.  switchMap: a reload replaces one that is under way.
\* The location a paired step shows as well is none of its edits, but its
\* answer, too, makes combineLatest show the latest data that came.

\* Mutants: the reload is forgotten; it is in a phase of its own.
ReloadForgotten == UNCHANGED load
ReloadAgain == load' = [load EXCEPT !.phase = "again"]
Reload ==
    load' = [load EXCEPT !.phase = "sent",
                         !.place = IF Step.paired /\ @ = "none" THEN "again" ELSE @]

ReadStep ==
    /\ InWorkflow /\ load.phase = "sent"
    /\ load' = [load EXCEPT !.phase = "read", !.content = stored]
    /\ UNCHANGED <<at, form, stored, flags, dirty, calls, sidebar, history>>

\* The form is patched, and its valueChanges publish form.dirty.
Populate(content) ==
    /\ form' = content
    /\ dirty' = IF Step.tracked THEN touched ELSE dirty

ShowStep ==
    /\ InWorkflow /\ load.phase = "read"
    /\ load' = [load EXCEPT !.phase = "none", !.content = {}, !.came = TRUE,
                            !.latest = IF Step.paired THEN {load.content} ELSE {}]
    /\ IF load.place = "first" THEN UNCHANGED <<form, dirty>> ELSE Populate(load.content)
    /\ UNCHANGED <<at, stored, flags, calls, sidebar, history>>

\* The location came, or its request failed, which is shown as well.
ShowPlace ==
    /\ InWorkflow /\ load.place # "none"
    /\ load' = [load EXCEPT !.place = "none"]
    /\ IF load.latest = {} THEN UNCHANGED <<form, dirty, exposed>>
       ELSE \E content \in load.latest :
                Populate(content) /\ exposed' = exposed \cup (edits \ content)
    /\ UNCHANGED <<at, stored, flags, calls, sidebar,
                   made, edits, notes, lost, blanked, broken, reverted>>

\* catchError: the step goes on with what it shows, or with empty lists.
FailToLoad ==
    /\ InWorkflow /\ load.phase # "none"
    /\ form' = IF Step.failed = "empties" THEN {} ELSE form
    /\ load' = [load EXCEPT !.phase = "none", !.content = {}, !.came = TRUE, !.latest = {}]
    /\ broken' = TRUE
    /\ exposed' = IF Step.failed = "empties" THEN exposed \cup edits ELSE exposed
    /\ UNCHANGED <<at, stored, flags, dirty, calls, sidebar,
                   made, edits, notes, lost, blanked, reverted>>

-----------------------------------------------------------------------------
\* Editing.

Usable == InWorkflow /\ ~Covered /\ (Shown \/ "edit" \in Step.early)

\* Mutant: a handler forgets to call setFormDirty.
PublishTyped(control) ==
    /\ touched' = (touched \/ control = "typed")
    /\ dirty' = (dirty \/ control = "typed")

\* What an edit does to formDirty$: a control of the tracked form sets it,
\* so does a handler that calls setFormDirty; a list box resets itself after
\* the choice, which publishes form.dirty without it; some inputs are bound
\* to the model and publish nothing.
Publish(control) ==
    /\ touched' = (touched \/ control = "typed")
    /\ dirty' = CASE control \in {"typed", "marked"} -> TRUE
                  [] control = "reset"               -> touched
                  [] control = "silent"              -> dirty

Edit(control) ==
    /\ Usable /\ made < MaxEdits /\ MayAct
    /\ control \in (IF saving THEN Step.whileSaving ELSE Step.edits) \ {"dialog"}
    /\ made' = made + 1
    /\ form' = form \cup {made'}
    /\ edits' = edits \cup {made'}
    /\ notes' = IF Step.omits /\ control = "typed" THEN notes \cup {made'} ELSE notes
    /\ Publish(control)
    /\ exposed' = exposed
           \cup (IF control = "reset" THEN Unsaved ELSE {})
           \cup (IF control \in {"reset", "silent"} \/ OwnBusy \/ Loading
                 THEN {made'} ELSE {})
    /\ reverted' = FALSE
    /\ UNCHANGED <<at, stored, load, saving, reverting, calls, sidebar, lost,
                   blanked, broken>>

-----------------------------------------------------------------------------
\* Sending requests.

Send(button, content, onward, modal) ==
    /\ MayAct
    /\ \E i \in Calls :
        /\ calls[i].phase = "idle" /\ \A j \in 1..(i - 1) : calls[j].phase # "idle"
        /\ calls' = [calls EXCEPT ![i] =
               [button |-> button, visit |-> at.visit, content |-> content,
                from |-> Origin(Step), onward |-> onward, modal |-> modal, phase |-> "sent"]]

\* Mutant: onSave of no step asks whether its data has come.
SavableAtOnce == Step.saves
Savable == Step.saves /\ (Shown \/ "save" \in Step.early)

\* The explanation is sent only while nothing is selected: which of the other
\* edits select something is left open.
Sendable ==
    {form} \cup (IF Step.omits /\ form \ notes # {} THEN {form \ notes} ELSE {})

\* Save, and Save & Continue.  Steps with required fields refuse an empty form.
PressSave(onward) ==
    /\ InWorkflow /\ ~Covered /\ Savable /\ ~saving
    /\ Step.needs => form # {}
    /\ \E content \in Sendable : Send("save", content, onward, "no")
    /\ saving' = TRUE
    /\ reverted' = FALSE
    /\ UNCHANGED <<at, form, stored, load, touched, reverting, dirty, sidebar,
                   made, edits, notes, exposed, lost, blanked, broken>>

\* Revert Current Page, after its confirmation; it does not wait for the data.
PressRevert ==
    /\ InWorkflow /\ ~Covered /\ Step.flow = "update" /\ ~saving /\ ~reverting
    /\ Send("revert", {0}, FALSE, "no")
    /\ reverting' = TRUE
    /\ reverted' = FALSE
    /\ UNCHANGED <<at, form, stored, load, touched, saving, dirty, sidebar,
                   made, edits, notes, exposed, lost, blanked, broken>>

\* A dialog of the step, or a request behind a confirmation, stores an edit.
PressDialog(modal) ==
    /\ Usable /\ made < MaxEdits /\ MayAct
    /\ "dialog" \in (IF saving THEN Step.whileSaving ELSE Step.edits)
    /\ Step.saves => modal = "open"
    /\ made' = made + 1
    /\ Send("dialog", {made'}, FALSE, modal)
    /\ exposed' = exposed \cup {made'}
    /\ reverted' = FALSE
    /\ UNCHANGED <<at, form, stored, load, flags, dirty, sidebar,
                   edits, notes, lost, blanked, broken>>

\* The outlet's buttons: Submit waits until formDirty$ is FALSE, the
\* reviewer's do not.  In the update a dialog stays open until the answer; a
\* return, and all of the proposal's, are sent after a confirmation closed.
Confirmation == IF Step.flow = "update" THEN "open" ELSE "no"

PressOutlet(button, modal) ==
    /\ InWorkflow /\ ~Covered
    /\ Send(button, {}, FALSE, modal)
    /\ UNCHANGED <<at, form, stored, load, flags, dirty, sidebar, history>>

Submit == ~dirty /\ PressOutlet("outlet", Confirmation)
Decide == PressOutlet("outlet", Confirmation)
Return == PressOutlet("return", "no")

-----------------------------------------------------------------------------
\* Leaving.  The step's component is destroyed, the next one starts to load.

\* Mutant: exhaustMap for switchMap: a refresh does not restart a fetch under way.
RefreshIfIdle(s) == IF s.alive /\ s.answer = "none" THEN [s EXCEPT !.answer = "sent"] ELSE s
Refresh(s) == IF s.alive THEN [s EXCEPT !.answer = "sent"] ELSE s

\* canExit: the guard asks for consent while formDirty$ is TRUE.
Asks == dirty

\* The components' state and history of a new visit; page is FALSE when the
\* user leaves the workflow.
Open(target, page, wasDirty) ==
    /\ at' = [visit |-> IF page /\ at.visit < MaxVisits THEN at.visit + 1 ELSE 0,
              step |-> target]
    /\ form' = {} /\ stored' = {0} /\ load' = FreshLoad(target)
    /\ touched' = FALSE /\ saving' = FALSE /\ reverting' = FALSE
    /\ dirty' = IF Step.clears THEN FALSE ELSE wasDirty
    /\ edits' = {} /\ notes' = {} /\ blanked' = FALSE /\ broken' = FALSE /\ reverted' = FALSE
    /\ UNCHANGED made

Leave(target, page) ==
    /\ InWorkflow /\ ~Covered
    /\ Open(target, page, dirty)
    /\ lost' = lost \cup Missing \cup (IF Asks THEN {} ELSE Unsaved)
    /\ UNCHANGED <<calls, sidebar, exposed>>

OpenFromSidebar ==
    \E s \in Sidebar \ {Step} : s.flow = Step.flow /\ Leave(s, TRUE)

LeaveWorkflow == Leave(at.step, FALSE)

-----------------------------------------------------------------------------
\* The server.

Apply(i) ==
    /\ Busy(i) /\ calls[i].phase = "sent"
    /\ calls' = [calls EXCEPT ![i].phase = "applied"]
    /\ sidebar' = [sidebar EXCEPT !.stale = TRUE,
                                  !.answer = IF @ = "fresh" THEN "old" ELSE @]
    /\ IF Own(i)
       THEN /\ stored' = CASE calls[i].button = "save"   -> calls[i].content
                           [] calls[i].button = "revert" -> {0}
                           [] calls[i].button = "dialog" -> stored \cup calls[i].content
                           [] OTHER                      -> stored
            /\ edits' = CASE calls[i].button = "revert" -> {}
                          [] calls[i].button = "dialog" -> edits \cup calls[i].content
                          [] OTHER                      -> edits
            /\ exposed' = IF calls[i].button = "save"
                          THEN exposed \cup (notes \ calls[i].content) ELSE exposed
            /\ blanked' = (blanked \/ (0 \in stored /\ 0 \notin stored'))
       ELSE UNCHANGED <<stored, edits, exposed, blanked>>
    /\ UNCHANGED <<at, form, load, flags, dirty, made, notes, lost, broken, reverted>>

-----------------------------------------------------------------------------
\* Answers.

Answered(i) == /\ Busy(i) /\ calls[i].phase = "applied"
               /\ Ended(i)

\* The request's callback calls triggerRefresh, or does not.
Notify(told) == sidebar' = IF told THEN Refresh(sidebar) ELSE [sidebar EXCEPT !.missed = TRUE]

\* The success callback of saveStep: it clears formDirty$ of whatever step is
\* open now, and takes the user to the step after the one that was saved.
SaveSucceeds(i) ==
    LET from == calls[i].from
        moves == calls[i].onward /\ from.next # Step.name
    IN  /\ Answered(i) /\ calls[i].button = "save"
        /\ Notify("save" \in from.refreshes)
        /\ exposed' = IF Own(i) THEN exposed ELSE exposed \cup Unsaved
        /\ IF moves
           THEN /\ Open(StepNamed(from.next), TRUE, FALSE)
                /\ lost' = lost \cup Missing \cup Unsaved
           ELSE /\ dirty' = FALSE
                /\ IF Own(i)
                   THEN /\ saving' = FALSE /\ touched' = FALSE
                        /\ IF "save" \in from.reloads THEN Reload ELSE UNCHANGED load
                   ELSE UNCHANGED <<saving, touched, load>>
                /\ UNCHANGED <<at, form, stored, reverting,
                               made, edits, notes, lost, blanked, broken, reverted>>

\* The step hears of the revert only while it is open.
RevertSucceeds(i) ==
    /\ Answered(i) /\ calls[i].button = "revert"
    /\ Notify(Own(i))
    /\ IF Own(i)
       THEN /\ reverting' = FALSE /\ Reload
            /\ reverted' = ~\E j \in Calls \ {i} : Busy(j) /\ Own(j)
       ELSE UNCHANGED <<reverting, load, reverted>>
    /\ UNCHANGED <<at, form, stored, touched, saving, dirty,
                   made, edits, notes, exposed, lost, blanked, broken>>

DialogSucceeds(i) ==
    /\ Answered(i) /\ calls[i].button = "dialog"
    /\ Notify(Heard(i) /\ "dialog" \in calls[i].from.refreshes)
    /\ IF Own(i) /\ Heard(i) /\ "dialog" \in calls[i].from.reloads
       THEN Reload /\ exposed' = exposed \cup Unsaved
       ELSE UNCHANGED <<load, exposed>>
    /\ UNCHANGED <<at, form, stored, flags, dirty,
                   made, edits, notes, lost, blanked, broken, reverted>>

\* The outlet leaves for the project's page, if the user lets it; but a
\* returned proposal stays open.  Only the proposal's outlet calls
\* triggerRefresh.
OutletSucceeds(i) ==
    LET from == calls[i].from
        stays == calls[i].button = "return" /\ from.flow = "create"
    IN  /\ Answered(i) /\ calls[i].button \in {"outlet", "return"}
        /\ Notify(from.flow = "create")
        /\ \/ /\ Heard(i) /\ ~stays
              /\ Open(at.step, FALSE, dirty)
              /\ lost' = lost \cup Missing \cup (IF Asks THEN {} ELSE Unsaved)
              /\ UNCHANGED exposed
           \/ /\ Heard(i) => stays \/ Asks
              /\ UNCHANGED <<at, form, stored, load, flags, dirty, history>>

\* Mutant: formDirty$ is cleared with isSaving, also after an error.
FailsClean(i) ==
    /\ Busy(i)
    /\ Ended(i)
    /\ saving' = (saving /\ ~(Own(i) /\ calls[i].button = "save"))
    /\ reverting' = (reverting /\ ~(Own(i) /\ calls[i].button = "revert"))
    /\ dirty' = (dirty /\ ~(Own(i) /\ calls[i].button = "save"))
    /\ IF calls[i].phase = "applied" THEN Notify(FALSE) ELSE UNCHANGED sidebar
    /\ UNCHANGED <<at, form, stored, load, touched, history>>

\* An error: the request was refused, or its answer was lost.
Fails(i) ==
    /\ Busy(i)
    /\ Ended(i)
    /\ saving' = (saving /\ ~(Own(i) /\ calls[i].button = "save"))
    /\ reverting' = (reverting /\ ~(Own(i) /\ calls[i].button = "revert"))
    /\ IF calls[i].phase = "applied" THEN Notify(FALSE) ELSE UNCHANGED sidebar
    /\ UNCHANGED <<at, form, stored, load, touched, dirty, history>>

\* Escape, or a click beside the dialog: nobody hears its answer.
Dismiss(i) ==
    /\ Busy(i) /\ calls[i].modal = "open"
    /\ calls' = [calls EXCEPT ![i].modal = "dismissed"]
    /\ UNCHANGED <<at, form, stored, load, flags, dirty, sidebar, history>>

-----------------------------------------------------------------------------
\* The sidebar: progress$ of the outlet.

ReadProgress ==
    /\ InWorkflow /\ sidebar.answer = "sent"
    /\ sidebar' = [sidebar EXCEPT !.answer = "fresh"]
    /\ UNCHANGED <<at, form, stored, load, flags, dirty, calls, history>>

ShowProgress ==
    /\ InWorkflow /\ sidebar.answer \in {"fresh", "old"}
    /\ sidebar' = [sidebar EXCEPT
           !.stale = (sidebar.answer = "old"), !.answer = "none",
           !.missed = (@ /\ sidebar.answer = "old")]
    /\ UNCHANGED <<at, form, stored, load, flags, dirty, calls, history>>

\* Nothing catches the error: the stream ends, and later refreshes do nothing.
FailProgress ==
    /\ InWorkflow /\ sidebar.answer # "none"
    /\ sidebar' = [sidebar EXCEPT !.answer = "none", !.alive = FALSE]
    /\ UNCHANGED <<at, form, stored, load, flags, dirty, calls, history>>

-----------------------------------------------------------------------------
Loads == ReadStep \/ ShowStep \/ ShowPlace \/ FailToLoad
Progresses == ReadProgress \/ ShowProgress \/ FailProgress
Succeeds(i) ==
    SaveSucceeds(i) \/ RevertSucceeds(i) \/ DialogSucceeds(i) \/ OutletSucceeds(i)
Responds(i) == Apply(i) \/ Succeeds(i) \/ Fails(i)

Next ==
    \/ Loads \/ Progresses
    \/ \E i \in Calls : Responds(i) \/ Dismiss(i)
    \/ \E control \in {"typed", "marked", "reset", "silent"} : Edit(control)
    \/ \E onward \in BOOLEAN : PressSave(onward)
    \/ PressRevert
    \/ \E modal \in {"no", "open"} : PressDialog(modal)
    \/ Submit \/ Decide \/ Return
    \/ OpenFromSidebar
    \/ LeaveWorkflow

Spec == Init /\ [][Next]_vars
-----------------------------------------------------------------------------
\* Properties.

LoadType ==
    [phase : {"none", "sent", "read"},     \* the step's request,
     content : SUBSET Edits,               \* its answer,
     came : BOOLEAN,                       \* whether one came before,
     place : {"none", "first", "again"},   \* the request for the location,
     latest : SUBSET SUBSET Edits]         \* what its answer shows, if anything
SidebarType ==
    [stale : BOOLEAN, answer : {"none", "sent", "fresh", "old"},
     alive : BOOLEAN, missed : BOOLEAN]
CallType ==
    [button : Buttons, visit : 0..MaxVisits, content : SUBSET Edits,
     from : [next : Names, flow : {"create", "update"},
             reloads : SUBSET Requests, refreshes : SUBSET Requests],
     onward : BOOLEAN, modal : {"no", "open", "dismissed"},
     phase : {"idle", "sent", "applied", "done"}]

TypeOK ==
    /\ at \in [visit : 0..MaxVisits, step : Steps]
    /\ form \subseteq Edits /\ stored \subseteq Edits
    /\ load \in LoadType
    /\ touched \in BOOLEAN /\ dirty \in BOOLEAN /\ saving \in BOOLEAN
    /\ reverting \in BOOLEAN /\ blanked \in BOOLEAN /\ broken \in BOOLEAN
    /\ reverted \in BOOLEAN
    /\ calls \in [Calls -> CallType]
    /\ sidebar \in SidebarType
    /\ made \in Edits
    /\ edits \subseteq Edits /\ notes \subseteq Edits \ {0}
    /\ exposed \subseteq Edits /\ lost \subseteq Edits

\* No edit disappears without the user being asked -- by the guard, or by
\* the confirmation of Revert -- but for the edits that `exposed' names:
\* those made by a control that does not publish them or made before a list
\* box that resets itself was used, those made while the step reloads or
\* waits for an answer, those whose step the late answer of an earlier step
\* declared clean, those a dialog's reload overwrites, an explanation that is
\* not sent because a region is selected, and what the answer for the
\* location replaces by older data (canExit, trackFormDirty, saveStep,
\* onSave and vm$ of the region steps, unsaved-changes.guard.ts).
NoSilentLoss == lost \cup Missing \subseteq exposed

\* While formDirty$ says that nothing is unsaved -- the guard does not ask, and the
\* update may be submitted -- the server has every edit the user made and did not
\* revert, but for those of `exposed': with answers that fail, come late or belong to
\* an earlier step (setFormDirty, saveStep, canSubmit of the outlets).
CleanIsStored == InWorkflow /\ ~dirty => edits \subseteq stored \cup exposed

\* A save removes what the server had and the step never showed only where
\* onSave does not ask whether the data has come, or after a load of it failed.
BlankOnlyUnloaded == blanked => "save" \in Step.early \/ broken

\* Told that the page was reverted, the user sees what the server has, once
\* the reload has come, unless it failed.
RevertedIsShown ==
    InWorkflow /\ reverted /\ ~Loading /\ ~broken => form = stored

\* A sidebar that shows old progress fetches it again, or will be told to:
\* unless its stream ended, or a request ended without triggerRefresh.
SidebarIsTold ==
    InWorkflow /\ sidebar.stale =>
        \/ sidebar.answer # "none" \/ ~sidebar.alive \/ sidebar.missed
        \/ \E i \in Calls : calls[i].phase = "applied"

\* "Tracks whether the current step has unsaved form changes."
\* (workflow-progress.service.ts:14, of formDirty$)
TracksUnsaved ==
    InWorkflow /\ Shown /\ ~Loading /\ ~broken /\ ~OwnBusy
        => (Unsaved # {} => dirty)
=============================================================================
