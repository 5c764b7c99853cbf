----------------------------- MODULE EditDialog -----------------------------
(***************************************************************************)
(* One modal dialog of the web client that edits data of a page.  It is    *)
(* opened with data or loads it, its Save button starts a chain of         *)
(* requests to the API, and the page learns the outcome from the result    *)
(* the dialog closes with (`afterClosed$').  Some seventy dialogs of the   *)
(* client differ only in the parameters of a row, see DialogTable.         *)
(*                                                                         *)
(* A request is refused, or applied and answered, or its answer is lost:   *)
(* then it was applied, or the server still does it later.  Nothing        *)
(* cancels a request when the dialog closes.                               *)
(***************************************************************************)
EXTENDS Naturals, Sequences, FiniteSets

CONSTANTS
    Dialogs,      \* rows, see DialogType
    MaxSaves      \* bound: how often Save (or Create, of a tag) is pressed

\* "update" writes over one record; every other stage stores one more row
\* each time it is applied.  "series" sends several files one after the
\* other; "several" sends several requests at once (`forkJoin').
Batches == {"series", "several"}
Inserts == {"create", "file"} \cup Batches
Stages  == Inserts \cup {"update"}

\* No dialog needs more than two stages.
MaxStages == 2
Plans == {p \in Seq(Stages) : Len(p) \in 1..MaxStages}

DialogType ==
    [name         : STRING,
     create       : SUBSET Plans,     \* what Save sends for a new record
     edit         : SUBSET Plans,     \* what it sends for an existing one
     data         : {"given", "strict", "lenient", "eager"},
     guardsSave   : BOOLEAN,          \* a second press does nothing
     guardsCancel : BOOLEAN,          \* no Cancel while saving
     creates      : BOOLEAN,          \* can create a tag beside Save
     refused      : {"stays", "closes"},
     partial      : {"stays", "reports"}]

ASSUME DialogsAssumption == Dialogs \subseteq DialogType
ASSUME SavesAssumption == MaxSaves \in Nat \ {0}

VARIABLES
    dialog, mode, plan,   \* which dialog, for what, and what Save will send
    form,                 \* "unloaded", "failed", "loaded"
    pressed,              \* how often Save was pressed
    chain,                \* of each press: the stage in flight, 0 if none
    sent,                 \* of each press: was the form loaded?
    saving,               \* isSubmitting
    stored,               \* of each slot: how often it was applied
    late,                 \* of each slot: requests given up by the client
                          \* that the server has still to apply
    creating,             \* isCreating: a new tag is on its way
    blank,                \* the record was last written from an empty form
    lost, cut, finished,  \* chains: answer lost, cut short, complete
    result,               \* "none" (open), "result", "nothing"
    abandoned             \* closed without a result, a request in flight

constants == <<dialog, mode, plan>>
vars == <<dialog, mode, plan, form, pressed, chain, sent, saving, stored,
          late, creating, blank, lost, cut, finished, result, abandoned>>

\* A slot is a stage of the plan, or 0: a tag created beside Save.
Slots == 0..MaxStages

Presses == 1..MaxSaves
Open == result = "none"
Flying(i) == chain[i] # 0
Quiet == \A i \in Presses : ~Flying(i)

Init ==
    /\ dialog \in Dialogs
    /\ mode \in {"create", "edit"}
    /\ plan \in dialog[mode]
    /\ form = IF mode = "edit" /\ dialog.data # "given"
              THEN "unloaded" ELSE "loaded"
    /\ pressed = 0
    /\ chain = [i \in Presses |-> 0]
    /\ sent = [i \in Presses |-> FALSE]
    /\ saving = FALSE
    /\ stored = [s \in Slots |-> 0]
    /\ late = [s \in Slots |-> 0]
    /\ creating = FALSE
    /\ blank = FALSE
    /\ lost = 0 /\ cut = 0 /\ finished = 0
    /\ result = "none"
    /\ abandoned = FALSE

-----------------------------------------------------------------------------
\* The form.

Load(outcome) ==
    /\ Open /\ form = "unloaded"
    /\ form' = outcome
    /\ UNCHANGED <<constants, pressed, chain, sent, saving, stored, late,
                   creating, blank, lost, cut, finished, result, abandoned>>

\* Mutant: Save is enabled although the data did not arrive.
CanSaveAlways == TRUE

\* A form without its data can be saved where nothing checks for it.
CanSave ==
    CASE form = "loaded"   -> TRUE
      [] form = "failed"   -> dialog.data \in {"lenient", "eager"}
      [] form = "unloaded" -> dialog.data = "eager"

\* Mutant: Save stays enabled while it runs, in every dialog.
SaveEnabledAlways == TRUE
SaveEnabled == dialog.guardsSave => ~saving

StartSaving == saving' = TRUE

\* Mutant: the error handler does not reset isSubmitting.
StopSavingForgotten == UNCHANGED saving
StopSaving == saving' = FALSE

PressSave ==
    /\ Open /\ CanSave /\ SaveEnabled /\ pressed < MaxSaves
    /\ pressed' = pressed + 1
    /\ chain' = [chain EXCEPT ![pressed'] = 1]
    /\ sent' = [sent EXCEPT ![pressed'] = (form = "loaded")]
    /\ StartSaving
    /\ UNCHANGED <<constants, form, stored, late, creating, blank, lost, cut,
                   finished, result, abandoned>>

-----------------------------------------------------------------------------
\* The requests of press i.

\* The effect of the request in flight on the database.
Apply(i) ==
    /\ stored' = [stored EXCEPT ![chain[i]] = @ + 1]
    /\ blank' = IF plan[chain[i]] = "update" THEN ~sent[i] ELSE blank

\* Mutant: the first answer closes the dialog.
LastRequestIsFirst(i) == chain[i] = 1
LastRequest(i) == chain[i] = Len(plan)

\* Mutants: the dialog closes without its result; with one no page knows.
TellNothing(outcome) == result' = IF Open THEN "nothing" ELSE result
TellUnknown(outcome) == result' = IF Open THEN "unknown" ELSE result
Tell(outcome) == result' = IF Open THEN outcome ELSE result

NextStage(i) ==
    /\ Flying(i) /\ ~LastRequest(i)
    /\ Apply(i)
    /\ chain' = [chain EXCEPT ![i] = @ + 1]
    /\ UNCHANGED <<constants, form, pressed, sent, saving, late, creating,
                   lost, cut, finished, result, abandoned>>

Finish(i) ==
    /\ Flying(i) /\ LastRequest(i)
    /\ Apply(i)
    /\ chain' = [chain EXCEPT ![i] = 0]
    /\ finished' = finished + 1
    /\ Tell("result")
    /\ UNCHANGED <<constants, form, pressed, sent, saving, late, creating,
                   lost, cut, abandoned>>

\* The error handler: what the dialog does when a request of press i fails.
ShowError(i) ==
    LET first == chain[i] = 1
        closes == IF first THEN dialog.refused = "closes"
                           ELSE dialog.partial = "reports"
    IN  /\ chain' = [chain EXCEPT ![i] = 0]
        /\ StopSaving
        /\ result' = IF Open /\ closes
                     THEN IF first THEN "nothing" ELSE "result"
                     ELSE result
        /\ abandoned' = (abandoned \/ (Open /\ result' = "nothing"
                           /\ \E j \in Presses \ {i} : Flying(j)))
        /\ UNCHANGED <<constants, form, pressed, sent, creating, finished>>

Refuse(i) ==
    /\ Flying(i)
    /\ ShowError(i)
    /\ cut' = IF chain[i] > 1 THEN cut + 1 ELSE cut
    /\ UNCHANGED <<stored, late, blank, lost>>

\* What the client gives up on was applied, or will be, or both where a
\* stage is several requests.
LeaveLate(s) == late' = [late EXCEPT ![s] = @ + 1]
AppliedBefore(i) == Apply(i) /\ UNCHANGED late
AppliedLate(i)   == LeaveLate(chain[i]) /\ UNCHANGED <<stored, blank>>
AppliedInParts(i) == plan[chain[i]] \in Batches /\ Apply(i) /\ LeaveLate(chain[i])

\* One request of several is refused.  Others were applied by then or, when
\* all were sent at once, still may be: the first error ends the `forkJoin'.
RefuseSome(i) ==
    /\ Flying(i) /\ plan[chain[i]] \in Batches
    /\ ShowError(i)
    /\ \/ AppliedBefore(i)
       \/ plan[chain[i]] = "several" /\ (AppliedLate(i) \/ AppliedInParts(i))
    /\ cut' = cut + 1
    /\ UNCHANGED lost

LoseAnswer(i) ==
    /\ Flying(i)
    /\ ShowError(i)
    /\ AppliedBefore(i) \/ AppliedLate(i) \/ AppliedInParts(i)
    /\ lost' = lost + 1
    /\ UNCHANGED cut

\* The server applies a request nobody waits for.  Which press had sent it
\* is left open.
ApplyLate(s) ==
    /\ late[s] > 0
    /\ late' = [late EXCEPT ![s] = @ - 1]
    /\ stored' = [stored EXCEPT ![s] = @ + 1]
    /\ IF s # 0 /\ plan[s] = "update"
       THEN \E i \in Presses : i <= pressed /\ blank' = ~sent[i]
       ELSE UNCHANGED blank
    /\ UNCHANGED <<constants, form, pressed, chain, sent, saving, creating,
                   lost, cut, finished, result, abandoned>>

-----------------------------------------------------------------------------
\* The tag editor can create a tag while it is open; Save does not wait for
\* it, and its answer may find the dialog closed.

CreateTag ==
    /\ Open /\ dialog.creates /\ ~creating
    /\ stored[0] + late[0] < MaxSaves
    /\ creating' = TRUE
    /\ UNCHANGED <<constants, form, pressed, chain, sent, saving, stored, late,
                   blank, lost, cut, finished, result, abandoned>>

StoreTag == stored' = [stored EXCEPT ![0] = @ + 1]

\* Created, refused, or the answer lost.
AnswerTag ==
    /\ creating
    /\ creating' = FALSE
    /\ \/ StoreTag /\ UNCHANGED <<late, lost>>
       \/ UNCHANGED <<stored, late, lost>>
       \/ StoreTag /\ lost' = lost + 1 /\ UNCHANGED late
       \/ LeaveLate(0) /\ lost' = lost + 1 /\ UNCHANGED stored
    /\ UNCHANGED <<constants, form, pressed, chain, sent, saving, blank, cut,
                   finished, result, abandoned>>

-----------------------------------------------------------------------------
\* Leaving without a result.

CloseWithNothing ==
    /\ Open
    /\ result' = "nothing"
    /\ abandoned' = ~Quiet
    /\ UNCHANGED <<constants, form, pressed, chain, sent, saving, stored,
                   late, creating, blank, lost, cut, finished>>

Cancel == (dialog.guardsCancel => ~saving) /\ CloseWithNothing

\* Escape or a click on the backdrop; no dialog disables them.
Dismiss == CloseWithNothing

Respond(i) == NextStage(i) \/ Finish(i) \/ Refuse(i) \/ RefuseSome(i) \/ LoseAnswer(i)

Next ==
    \/ \E outcome \in {"loaded", "failed"} : Load(outcome)
    \/ PressSave
    \/ \E i \in Presses : Respond(i)
    \/ \E s \in Slots : ApplyLate(s)
    \/ CreateTag
    \/ AnswerTag
    \/ Cancel
    \/ Dismiss

\* The browser ends every request with an answer or with an error; nothing
\* is promised of the requests it gave up on.
Fairness == WF_vars(AnswerTag) /\ \A i \in Presses : WF_vars(Respond(i))

Spec == Init /\ [][Next]_vars /\ Fairness
-----------------------------------------------------------------------------
\* Properties.

TypeOK ==
    /\ dialog \in Dialogs /\ mode \in {"create", "edit"} /\ plan \in dialog[mode]
    /\ form \in {"unloaded", "failed", "loaded"}
    /\ pressed \in 0..MaxSaves
    /\ chain \in [Presses -> 0..MaxStages]
    /\ sent \in [Presses -> BOOLEAN]
    /\ stored \in [Slots -> Nat] /\ late \in [Slots -> Nat]
    /\ lost \in Nat /\ cut \in Nat /\ finished \in Nat
    /\ result \in {"none", "result", "nothing"}
    /\ saving \in BOOLEAN /\ blank \in BOOLEAN /\ abandoned \in BOOLEAN
    /\ creating \in BOOLEAN

\* Several requests are in flight at once for one press of Save.
AtOnce == \E s \in 1..Len(plan) : plan[s] = "several"

\* Pressing Save again after an error sends the whole plan again.
RepeatsOnRetry ==
    \/ \E s \in 1..Len(plan) : plan[s] \in Batches
    \/ dialog.partial = "stays" /\ \E s \in 1..Len(plan) - 1 : plan[s] \in Inserts

\* Whatever the user presses, no row is stored twice unless an answer was
\* lost -- but for the dialogs whose Save is not disabled while it runs, and
\* for those that store a row before a later request fails (`save' of the
\* dialogs; buttonLoading only shows a spinner).
NoRepeatedRow ==
    dialog.guardsSave /\ ~RepeatsOnRetry =>
        \A s \in 1..Len(plan) : plan[s] \in Inserts => stored[s] <= 1 + lost

\* The page is told of a result only when everything Save sends was stored;
\* three dialogs tell it although their files were not.
ResultMeansStored ==
    result = "result" /\ dialog.partial = "stays" =>
        \A s \in 1..Len(plan) : stored[s] >= 1

\* A page that was told of nothing, once all is quiet, is up to date: unless
\* the dialog was left while a request was in flight, or a request failed
\* after something had been stored, nothing was.  (A new tag is on no page
\* until Save has put it on a project.)
NothingMeansUnchanged ==
    result = "nothing" /\ Quiet /\ ~abandoned /\ lost = 0 /\ cut = 0 =>
        \A s \in 1..Len(plan) : stored[s] = 0

\* While a request of an open dialog is in flight isSubmitting is set: Save
\* and Cancel stay disabled until the last answer.  A second press of an
\* unguarded Save breaks this: the first error enables Cancel.
SavingIsShown ==
    dialog.guardsSave /\ Open /\ ~Quiet => saving

\* A record is written from an empty form only by the dialogs that can be
\* saved without the data they load, after a failed load or before it.
BlankOnlyUnloaded ==
    blank => dialog.data = "eager" \/ (dialog.data = "lenient" /\ form = "failed")

\* The page refetches when the dialog closes: nothing the dialog does is
\* stored after it told the page.  The exceptions are a second press of an
\* unguarded Save, a request whose answer was lost, one of several requests
\* sent at once when another of them failed, and a tag still being created.
NothingStoredAfterTold ==
    [][stored' # stored /\ result = "result" =>
         ~dialog.guardsSave \/ lost > 0 \/ (AtOnce /\ cut > 0) \/ creating]_vars

\* Every press of Save is answered: the dialog does not stay disabled.
SaveSettles == saving ~> (~saving \/ ~Open)
=============================================================================
