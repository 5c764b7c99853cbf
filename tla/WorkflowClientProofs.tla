------------------------ MODULE WorkflowClientProofs ------------------------
(***************************************************************************)
(* Five properties of WorkflowClient, for any table of steps and any       *)
(* bounds.  What relates a step's form to its server is tied to the visit: *)
(* the answers of an earlier visit still arrive, but touch neither.        *)
(***************************************************************************)
EXTENDS WorkflowClient, TLAPS

Pending(i) == calls[i].phase \in {"sent", "applied"}

\* A call that runs was sent in this visit or an earlier one, and a save
\* knows a step to continue with.
CallsOK ==
    /\ \A i \in Calls : InWorkflow /\ Pending(i) => calls[i].visit <= at.visit
    /\ \A i \in Calls : Pending(i) /\ calls[i].button = "save" =>
           \E t \in Steps : t.name = calls[i].from.next

\* Only a paired step waits for its location.
PlaceOK == load.place # "none" => Step.paired

\* Until a load fails, what the server had is in everything a step holds.
KeepsFirst ==
    /\ 0 \in stored
    /\ load.phase = "read" => 0 \in load.content
    /\ Shown => 0 \in form
    /\ load.came /\ load.place = "first" => load.latest # {}
    /\ \A content \in load.latest : 0 \in content
    /\ \A i \in Calls : Pending(i) /\ Own(i) /\ calls[i].button = "save"
           => 0 \in calls[i].content

BlankOK ==
    /\ InWorkflow => "save" \in Step.early \/ broken \/ KeepsFirst
    /\ BlankOnlyUnloaded

\* After a revert nothing is under way that changes the step.
RevertOK ==
    InWorkflow /\ reverted =>
        /\ \A i \in Calls : Pending(i) /\ Own(i) => calls[i].button \in {"outlet", "return"}
        /\ load.phase = "read" => load.content = stored
        /\ load.phase = "none" /\ ~broken =>
               IF load.place = "none" THEN form = stored ELSE load.latest = {stored}

\* Old progress will be fetched again, also once its answer came.
Told == ~sidebar.alive \/ sidebar.missed \/ \E i \in Calls : calls[i].phase = "applied"
SidebarOK ==
    /\ InWorkflow /\ sidebar.answer = "old" => Told
    /\ SidebarIsTold

\* The edits of this visit that nothing has put at risk: the step shows them,
\* and the server has them as soon as formDirty$ says that nothing is unsaved
\* or a load may replace what the step shows.
Watched == edits \ exposed
WatchedShown ==
    /\ Watched \subseteq form
    /\ ~dirty \/ Loading => Watched \subseteq stored
    /\ load.phase = "read" => Watched \subseteq load.content

\* A save under way carries all of them but for an explanation it leaves out,
\* and what a dialog stores is none.
WatchedSent ==
    \A i \in Calls : Pending(i) /\ Own(i) =>
        /\ calls[i].button = "save" => Watched \subseteq calls[i].content \cup notes
        /\ calls[i].button = "dialog" => calls[i].content \subseteq exposed

\* Once a save or a revert was applied the server has all of them.
WatchedApplied ==
    \A i \in Calls : Pending(i) /\ Own(i) /\ calls[i].phase = "applied"
                      /\ calls[i].button \in {"save", "revert"} => Watched \subseteq stored

LossOK ==
    /\ lost \subseteq exposed
    /\ ~InWorkflow => edits = {}
    /\ InWorkflow => WatchedShown /\ WatchedSent /\ WatchedApplied

IInv == TypeOK /\ CallsOK /\ PlaceOK /\ BlankOK /\ RevertOK /\ SidebarOK /\ LossOK

-----------------------------------------------------------------------------
\* What the actions do to the calls.

LEMMA NoCallType == \A phase \in {"idle", "done"} : NoCall(phase) \in CallType
<1>1. 0 \in 0..MaxVisits
    BY BoundsAssumption
<1>2. "save" \in Buttons
    BY DEF Buttons, Requests
<1>3. {} \in SUBSET Edits /\ {} \in SUBSET Requests
    OBVIOUS
<1>4. "none" \in Names
    BY DEF Names
<1>5. [next |-> "none", flow |-> "create", reloads |-> {}, refreshes |-> {}] \in
        [next : Names, flow : {"create", "update"},
         reloads : SUBSET Requests, refreshes : SUBSET Requests]
    BY <1>3, <1>4
<1> QED BY <1>1, <1>2, <1>3, <1>5 DEF NoCall, CallType

LEMMA OriginType == ASSUME TypeOK PROVE Step \in StepType /\ Origin(Step) \in
        [next : Names, flow : {"create", "update"},
         reloads : SUBSET Requests, refreshes : SUBSET Requests]
BY StepsAssumption DEF TypeOK, Step, StepType, Origin

SentAs(i, button, content, onward, modal) ==
    /\ calls'[i] = [button |-> button, visit |-> at.visit, content |-> content,
                    from |-> Origin(Step), onward |-> onward, modal |-> modal,
                    phase |-> "sent"]
    /\ \A j \in Calls \ {i} : calls'[j] = calls[j]

LEMMA SendEffect ==
    ASSUME TypeOK, InWorkflow, NEW button \in Buttons, NEW content \in SUBSET Edits,
           NEW onward \in BOOLEAN, NEW modal \in {"no", "open"},
           Send(button, content, onward, modal)
    PROVE  /\ calls' \in [Calls -> CallType]
           /\ \E i \in Calls :
                calls[i].phase = "idle" /\ SentAs(i, button, content, onward, modal)
<1> DEFINE c == [button |-> button, visit |-> at.visit, content |-> content,
                 from |-> Origin(Step), onward |-> onward, modal |-> modal, phase |-> "sent"]
<1>1. PICK i \in Calls : calls[i].phase = "idle" /\ calls' = [calls EXCEPT ![i] = c]
    BY DEF Send
<1>2. at.visit \in 0..MaxVisits
    BY DEF TypeOK
<1>3. c \in CallType
    BY <1>2, OriginType DEF CallType
<1>4. calls' \in [Calls -> CallType]
    BY <1>1, <1>3 DEF TypeOK
<1>5. calls[i].phase = "idle" /\ SentAs(i, button, content, onward, modal)
    BY <1>1 DEF TypeOK, SentAs
<1> QED BY <1>4, <1>5

LEMMA EndEffect ==
    ASSUME TypeOK, NEW i \in Calls, Ended(i)
    PROVE  /\ calls' \in [Calls -> CallType]
           /\ calls'[i] = NoCall("done")
           /\ \A j \in Calls \ {i} : calls'[j] = calls[j]
BY NoCallType DEF TypeOK, Ended

LEMMA PhaseEffect ==
    ASSUME TypeOK, NEW i \in Calls, calls' = [calls EXCEPT ![i].phase = "applied"]
    PROVE  /\ calls' \in [Calls -> CallType]
           /\ calls'[i] = [calls[i] EXCEPT !.phase = "applied"]
           /\ \A j \in Calls \ {i} : calls'[j] = calls[j]
<1>1. calls[i] \in CallType
    BY DEF TypeOK
<1>2. [calls[i] EXCEPT !.phase = "applied"] \in CallType
    BY <1>1 DEF CallType
<1> QED BY <1>2 DEF TypeOK

LEMMA ModalEffect ==
    ASSUME TypeOK, NEW i \in Calls, calls' = [calls EXCEPT ![i].modal = "dismissed"]
    PROVE  /\ calls' \in [Calls -> CallType]
           /\ calls'[i] = [calls[i] EXCEPT !.modal = "dismissed"]
           /\ \A j \in Calls \ {i} : calls'[j] = calls[j]
<1>1. calls[i] \in CallType
    BY DEF TypeOK
<1>2. [calls[i] EXCEPT !.modal = "dismissed"] \in CallType
    BY <1>1 DEF CallType
<1> QED BY <1>2 DEF TypeOK

-----------------------------------------------------------------------------
\* Types.

LEMMA OpenEffect ==
    ASSUME TypeOK, InWorkflow, NEW target \in Steps, NEW page \in BOOLEAN,
           NEW wasDirty \in BOOLEAN, Open(target, page, wasDirty)
    PROVE  /\ at' \in [visit : 0..MaxVisits, step : Steps]
           /\ at'.visit = 0 \/ at'.visit = at.visit + 1
           /\ form' = {} /\ stored' = {0} /\ load' = FreshLoad(target) /\ at'.step = target
           /\ touched' = FALSE /\ saving' = FALSE /\ reverting' = FALSE
           /\ dirty' \in BOOLEAN /\ blanked' = FALSE /\ broken' = FALSE
           /\ reverted' = FALSE /\ made' = made /\ edits' = {} /\ notes' = {}
<1>1. at.visit \in 0..MaxVisits /\ at.visit > 0
    BY DEF TypeOK, InWorkflow
<1>2. ASSUME page /\ at.visit < MaxVisits
      PROVE  /\ at' \in [visit : 0..MaxVisits, step : Steps]
             /\ at'.visit = 0 \/ at'.visit = at.visit + 1
    <2>1. at' = [visit |-> at.visit + 1, step |-> target]
        BY <1>2 DEF Open
    <2>2. at.visit + 1 \in 0..MaxVisits
        BY <1>1, <1>2, BoundsAssumption
    <2> QED BY <2>1, <2>2
<1>3. ASSUME ~(page /\ at.visit < MaxVisits)
      PROVE  /\ at' \in [visit : 0..MaxVisits, step : Steps]
             /\ at'.visit = 0 \/ at'.visit = at.visit + 1
    <2>1. at' = [visit |-> 0, step |-> target]
        BY <1>3 DEF Open
    <2>2. 0 \in 0..MaxVisits
        BY BoundsAssumption
    <2> QED BY <2>1, <2>2
<1>4. dirty' \in BOOLEAN
    BY DEF Open
<1>5. /\ form' = {} /\ stored' = {0} /\ load' = FreshLoad(target) /\ at'.step = target
      /\ touched' = FALSE /\ saving' = FALSE /\ reverting' = FALSE
      /\ blanked' = FALSE /\ broken' = FALSE
      /\ reverted' = FALSE /\ made' = made /\ edits' = {} /\ notes' = {}
    BY DEF Open
<1> QED BY <1>2, <1>3, <1>4, <1>5

LEMMA NamedStep ==
    ASSUME NEW name, \E t \in Steps : t.name = name
    PROVE  StepNamed(name) \in Steps
BY DEF StepNamed

LEMMA EditsFacts == 0 \in Edits /\ \A row : FreshLoad(row) \in LoadType
BY BoundsAssumption DEF Edits, FreshLoad, LoadType

LEMMA NotifyType ==
    ASSUME sidebar \in SidebarType, NEW told, Notify(told)
    PROVE  sidebar' \in SidebarType
BY DEF SidebarType, Notify, Refresh

\* The loads and the progress of the sidebar.
LEMMA LoadTypes == ASSUME TypeOK, Loads \/ Progresses PROVE TypeOK'
<1>1. Step \in StepType
    BY OriginType
<1>2. ASSUME NEW content \in SUBSET Edits, Populate(content)
      PROVE  form' \subseteq Edits /\ dirty' \in BOOLEAN
    BY <1>2 DEF Populate, TypeOK
<1>3. CASE ReadStep
    <2>1. load' \in LoadType
        BY <1>3 DEF ReadStep, TypeOK, LoadType
    <2> QED BY <1>3, <2>1 DEF ReadStep, TypeOK, flags, history
<1>4. CASE ShowStep
    <2>1. load.content \in SUBSET Edits
        BY DEF TypeOK, LoadType
    <2>2. load' \in LoadType
        BY <1>4, <2>1 DEF ShowStep, TypeOK, LoadType
    <2>3. form' \subseteq Edits /\ dirty' \in BOOLEAN
        BY <1>2, <1>4, <2>1 DEF ShowStep, TypeOK
    <2> QED BY <1>4, <2>2, <2>3 DEF ShowStep, TypeOK, flags, history
<1>5. CASE ShowPlace
    <2>1. load' \in LoadType
        BY <1>5 DEF ShowPlace, TypeOK, LoadType
    <2>2. form' \subseteq Edits /\ dirty' \in BOOLEAN /\ exposed' \subseteq Edits
        <3>1. CASE load.latest = {}
            BY <1>5, <3>1 DEF ShowPlace, TypeOK
        <3>2. CASE load.latest # {}
            <4>1. PICK content \in load.latest :
                    Populate(content) /\ exposed' = exposed \cup (edits \ content)
                BY <1>5, <3>2 DEF ShowPlace
            <4>2. content \in SUBSET Edits
                BY DEF TypeOK, LoadType
            <4> QED BY <1>2, <4>1, <4>2 DEF TypeOK
        <3> QED BY <3>1, <3>2
    <2> QED BY <1>5, <2>1, <2>2 DEF ShowPlace, TypeOK, flags
<1>6. CASE FailToLoad
    <2>1. load' \in LoadType
        BY <1>6 DEF FailToLoad, TypeOK, LoadType
    <2>2. form' \subseteq Edits /\ exposed' \subseteq Edits
        BY <1>6 DEF FailToLoad, TypeOK
    <2> QED BY <1>6, <2>1, <2>2 DEF FailToLoad, TypeOK, flags
<1>7. CASE Progresses
    <2>1. sidebar' \in SidebarType
        BY <1>7 DEF Progresses, ReadProgress, ShowProgress, FailProgress, TypeOK, SidebarType
    <2>2. UNCHANGED <<at, form, stored, load, flags, dirty, calls, history>>
        BY <1>7 DEF Progresses, ReadProgress, ShowProgress, FailProgress
    <2> QED BY <2>1, <2>2 DEF TypeOK, flags, history
<1> QED BY <1>3, <1>4, <1>5, <1>6, <1>7 DEF Loads

LEMMA EditTypes ==
    ASSUME TypeOK, NEW control \in {"typed", "marked", "reset", "silent"}, Edit(control)
    PROVE  TypeOK'
<1>1. made' \in Edits \ {0}
    BY BoundsAssumption DEF Edit, TypeOK, Edits
<1>2. form' \subseteq Edits /\ edits' \subseteq Edits /\ notes' \subseteq Edits \ {0}
    BY <1>1 DEF Edit, TypeOK
<1>3. exposed' \subseteq Edits
    <2>1. Unsaved \subseteq Edits
        BY DEF Unsaved, TypeOK
    <2> QED BY <1>1, <2>1 DEF Edit, TypeOK
<1>4. touched' \in BOOLEAN
    BY DEF Edit, Publish, TypeOK
<1>5. dirty' \in BOOLEAN
    BY DEF Edit, Publish, TypeOK
<1> QED BY <1>1, <1>2, <1>3, <1>4, <1>5 DEF Edit, TypeOK

LEMMA SendTypes ==
    ASSUME TypeOK,
           \/ \E onward \in BOOLEAN : PressSave(onward)
           \/ PressRevert
           \/ \E modal \in {"no", "open"} : PressDialog(modal)
           \/ Submit \/ Decide \/ Return
    PROVE  TypeOK'
<1>1. ASSUME NEW onward \in BOOLEAN, PressSave(onward) PROVE TypeOK'
    <2>1. calls' \in [Calls -> CallType]
        <3>1. PICK content \in Sendable : Send("save", content, onward, "no")
            BY <1>1 DEF PressSave
        <3>2. "save" \in Buttons /\ content \in SUBSET Edits /\ InWorkflow
            BY <1>1 DEF Buttons, Requests, TypeOK, Sendable, PressSave
        <3> QED BY <3>1, <3>2, <1>1, SendEffect
    <2> QED BY <1>1, <2>1 DEF PressSave, TypeOK
<1>2. ASSUME PressRevert PROVE TypeOK'
    <2>1. calls' \in [Calls -> CallType]
        BY <1>2, SendEffect, EditsFacts DEF PressRevert, Buttons, Requests
    <2> QED BY <1>2, <2>1 DEF PressRevert, TypeOK
<1>3. ASSUME NEW modal \in {"no", "open"}, PressDialog(modal) PROVE TypeOK'
    <2>1. made' \in Edits
        BY <1>3, BoundsAssumption DEF PressDialog, TypeOK, Edits
    <2>2. calls' \in [Calls -> CallType]
        BY <1>3, <2>1, SendEffect DEF PressDialog, Usable, Buttons, Requests
    <2>3. exposed' \subseteq Edits
        BY <1>3, <2>1 DEF PressDialog, TypeOK
    <2> QED BY <1>3, <2>1, <2>2, <2>3 DEF PressDialog, TypeOK, flags
<1>4. ASSUME NEW button \in {"outlet", "return"}, NEW modal \in {"no", "open"},
             PressOutlet(button, modal)
      PROVE  TypeOK'
    <2>1. calls' \in [Calls -> CallType]
        BY <1>4, SendEffect DEF PressOutlet, Buttons
    <2> QED BY <1>4, <2>1 DEF PressOutlet, TypeOK, flags, history
<1> QED BY <1>1, <1>2, <1>3, <1>4 DEF Submit, Decide, Return, Confirmation

LEMMA LeaveTypes == ASSUME TypeOK, OpenFromSidebar \/ LeaveWorkflow PROVE TypeOK'
<1>1. PICK target \in Steps, page \in BOOLEAN : Leave(target, page)
    BY StepsAssumption DEF OpenFromSidebar, LeaveWorkflow, TypeOK
<1>2. lost' \subseteq Edits
    BY <1>1 DEF Leave, Missing, Unsaved, TypeOK
<1>3. at' \in [visit : 0..MaxVisits, step : Steps] /\ dirty' \in BOOLEAN
      /\ form' = {} /\ stored' = {0} /\ load' \in LoadType /\ notes' = {}
      /\ touched' = FALSE /\ saving' = FALSE /\ reverting' = FALSE
      /\ blanked' = FALSE /\ broken' = FALSE /\ reverted' = FALSE
      /\ made' = made /\ edits' = {}
    BY <1>1, OpenEffect, EditsFacts DEF Leave, TypeOK
<1> QED BY <1>1, <1>2, <1>3, EditsFacts DEF Leave, TypeOK

LEMMA ApplyTypes == ASSUME TypeOK, NEW i \in Calls, Apply(i) PROVE TypeOK'
<1>1. calls' \in [Calls -> CallType]
    BY PhaseEffect DEF Apply
<1>2. calls[i].content \subseteq Edits
    BY DEF TypeOK, CallType
<1>3. stored' \subseteq Edits /\ edits' \subseteq Edits /\ exposed' \subseteq Edits
    BY <1>2, EditsFacts DEF Apply, TypeOK
<1>4. blanked' \in BOOLEAN
    BY DEF Apply, TypeOK
<1>5. sidebar' \in SidebarType
    BY DEF Apply, TypeOK, SidebarType
<1> QED BY <1>1, <1>3, <1>4, <1>5 DEF Apply, TypeOK, flags

LEMMA AnswerTypes ==
    ASSUME TypeOK, CallsOK, NEW i \in Calls, Succeeds(i) \/ Fails(i) \/ Dismiss(i)
    PROVE  TypeOK'
<1> DEFINE from == calls[i].from
<1>1. Reload => load' \in LoadType
    BY DEF Reload, TypeOK, LoadType
<1>2. Unsaved \subseteq Edits /\ Missing \subseteq Edits
    BY DEF Unsaved, Missing, TypeOK
<1>3. CASE SaveSucceeds(i)
    <2>1. calls' \in [Calls -> CallType]
        BY <1>3, EndEffect DEF SaveSucceeds, Answered
    <2>2. sidebar' \in SidebarType
        BY <1>3, NotifyType DEF SaveSucceeds, TypeOK
    <2>3. exposed' \subseteq Edits
        BY <1>2, <1>3 DEF SaveSucceeds, TypeOK
    <2>4. CASE calls[i].onward /\ from.next # Step.name
        <3>1. StepNamed(from.next) \in Steps /\ InWorkflow
            <4>1. Pending(i) /\ calls[i].button = "save" /\ InWorkflow
                BY <1>3 DEF SaveSucceeds, Answered, Busy, Pending
            <4> QED BY <4>1, NamedStep DEF CallsOK
        <3>2. Open(StepNamed(from.next), TRUE, FALSE) /\ lost' = lost \cup Missing \cup Unsaved
            BY <1>3, <2>4 DEF SaveSucceeds
        <3>3. lost' \subseteq Edits
            BY <1>2, <3>2 DEF TypeOK
        <3>4. at' \in [visit : 0..MaxVisits, step : Steps] /\ dirty' \in BOOLEAN
              /\ form' = {} /\ stored' = {0} /\ load' \in LoadType /\ notes' = {}
              /\ touched' = FALSE /\ saving' = FALSE /\ reverting' = FALSE
              /\ blanked' = FALSE /\ broken' = FALSE /\ reverted' = FALSE
              /\ made' = made /\ edits' = {}
            BY <3>1, <3>2, OpenEffect, EditsFacts
        <3> QED BY <2>1, <2>2, <2>3, <3>3, <3>4, EditsFacts DEF TypeOK
    <2>5. CASE ~(calls[i].onward /\ from.next # Step.name)
        <3>1. /\ dirty' = FALSE
              /\ IF Own(i)
                 THEN /\ saving' = FALSE /\ touched' = FALSE
                      /\ IF "save" \in from.reloads THEN Reload ELSE UNCHANGED load
                 ELSE UNCHANGED <<saving, touched, load>>
              /\ UNCHANGED <<at, form, stored, reverting,
                             made, edits, notes, lost, blanked, broken, reverted>>
            BY <1>3, <2>5 DEF SaveSucceeds
        <3>2. load' \in LoadType
            BY <1>1, <3>1 DEF TypeOK
        <3>3. saving' \in BOOLEAN
            BY <3>1 DEF TypeOK
        <3>4. touched' \in BOOLEAN
            BY <3>1 DEF TypeOK
        <3> QED BY <2>1, <2>2, <2>3, <3>1, <3>2, <3>3, <3>4 DEF TypeOK
    <2> QED BY <2>4, <2>5
<1>4. CASE RevertSucceeds(i)
    <2>1. calls' \in [Calls -> CallType]
        BY <1>4, EndEffect DEF RevertSucceeds, Answered
    <2>2. sidebar' \in SidebarType
        BY <1>4, NotifyType DEF RevertSucceeds, TypeOK, Own
    <2>3. load' \in LoadType
        BY <1>1, <1>4 DEF RevertSucceeds, TypeOK
    <2>4. reverting' \in BOOLEAN
        BY <1>4 DEF RevertSucceeds, TypeOK
    <2>5. reverted' \in BOOLEAN
        BY <1>4 DEF RevertSucceeds, TypeOK
    <2> QED BY <1>4, <2>1, <2>2, <2>3, <2>4, <2>5 DEF RevertSucceeds, TypeOK
<1>5. CASE DialogSucceeds(i)
    <2>1. calls' \in [Calls -> CallType]
        BY <1>5, EndEffect DEF DialogSucceeds, Answered
    <2>2. sidebar' \in SidebarType
        BY <1>5, NotifyType DEF DialogSucceeds, TypeOK, Heard
    <2>3. load' \in LoadType /\ exposed' \subseteq Edits
        BY <1>1, <1>2, <1>5 DEF DialogSucceeds, TypeOK
    <2> QED BY <1>5, <2>1, <2>2, <2>3 DEF DialogSucceeds, TypeOK, flags
<1>6. CASE OutletSucceeds(i)
    <2>1. calls' \in [Calls -> CallType] /\ InWorkflow
        BY <1>6, EndEffect DEF OutletSucceeds, Answered, Busy
    <2>2. sidebar' \in SidebarType
        BY <1>6, NotifyType DEF OutletSucceeds, TypeOK
    <2>3. CASE UNCHANGED <<at, form, stored, load, flags, dirty, history>>
        BY <2>1, <2>2, <2>3 DEF TypeOK, flags, history
    <2>4. CASE /\ Open(at.step, FALSE, dirty)
               /\ lost' = lost \cup Missing \cup (IF Asks THEN {} ELSE Unsaved)
               /\ UNCHANGED exposed
        <3>1. lost' \subseteq Edits
            BY <1>2, <2>4 DEF TypeOK
        <3>2. at' \in [visit : 0..MaxVisits, step : Steps] /\ dirty' \in BOOLEAN
              /\ form' = {} /\ stored' = {0} /\ load' \in LoadType /\ notes' = {}
              /\ touched' = FALSE /\ saving' = FALSE /\ reverting' = FALSE
              /\ blanked' = FALSE /\ broken' = FALSE /\ reverted' = FALSE
              /\ made' = made /\ edits' = {}
            <4>1. at.step \in Steps /\ dirty \in BOOLEAN
                BY DEF TypeOK
            <4> QED BY <2>1, <2>4, <4>1, OpenEffect, EditsFacts
        <3> QED BY <2>1, <2>2, <2>4, <3>1, <3>2, EditsFacts DEF TypeOK
    <2> QED BY <1>6, <2>3, <2>4 DEF OutletSucceeds
<1>7. CASE Fails(i)
    <2>1. calls' \in [Calls -> CallType]
        BY <1>7, EndEffect DEF Fails
    <2>2. sidebar' \in SidebarType
        BY <1>7, NotifyType DEF Fails, TypeOK
    <2>3. saving' \in BOOLEAN
        BY <1>7 DEF Fails
    <2>4. reverting' \in BOOLEAN
        BY <1>7 DEF Fails
    <2> QED BY <1>7, <2>1, <2>2, <2>3, <2>4 DEF Fails, TypeOK, history
<1>8. CASE Dismiss(i)
    <2>1. calls' \in [Calls -> CallType]
        BY <1>8, ModalEffect DEF Dismiss
    <2> QED BY <1>8, <2>1 DEF Dismiss, TypeOK, flags, history
<1> QED BY <1>3, <1>4, <1>5, <1>6, <1>7, <1>8 DEF Succeeds

LEMMA TypeStep == ASSUME TypeOK, CallsOK, [Next]_vars PROVE TypeOK'
<1>1. CASE UNCHANGED vars
    BY <1>1 DEF TypeOK, vars, flags, history
<1>2. CASE Next
    BY <1>2, LoadTypes, EditTypes, SendTypes, LeaveTypes, ApplyTypes, AnswerTypes
    DEF Next, Responds
<1> QED BY <1>1, <1>2

-----------------------------------------------------------------------------
\* What a step may do to a call: keep it, or send it for the open step.

SameCall(i) ==
    /\ Pending(i)
    /\ calls'[i].phase = calls[i].phase \/ Apply(i)
    /\ calls'[i].visit = calls[i].visit /\ calls'[i].button = calls[i].button
    /\ calls'[i].content = calls[i].content /\ calls'[i].from = calls[i].from
NewCall(i) ==
    /\ calls'[i].visit = at.visit /\ calls'[i].phase = "sent"
    /\ UNCHANGED <<at, form, stored, load, broken, notes>>
    /\ calls'[i].button = "save" =>
           /\ form \ notes \subseteq calls'[i].content /\ calls'[i].from = Origin(Step)
           /\ Savable
    /\ calls'[i].button = "dialog" => calls'[i].content \subseteq exposed'
    /\ calls'[i].button \in {"outlet", "return"} \/ ~reverted'

LEMMA NewCalls ==
    ASSUME TypeOK,
           \/ \E onward \in BOOLEAN : PressSave(onward)
           \/ PressRevert
           \/ \E modal \in {"no", "open"} : PressDialog(modal)
           \/ Submit \/ Decide \/ Return
    PROVE  \A i \in Calls : Pending(i)' => SameCall(i) \/ NewCall(i)
<1>1. ASSUME NEW onward \in BOOLEAN, PressSave(onward)
      PROVE  \A i \in Calls : Pending(i)' => SameCall(i) \/ NewCall(i)
    <2>1. PICK content \in Sendable : Send("save", content, onward, "no")
        BY <1>1 DEF PressSave
    <2>2. /\ "save" \in Buttons /\ content \in SUBSET Edits /\ InWorkflow
          /\ form \ notes \subseteq content
        BY <1>1 DEF Buttons, Requests, TypeOK, Sendable, PressSave
    <2>3. PICK i \in Calls :
            calls[i].phase = "idle" /\ SentAs(i, "save", content, onward, "no")
        BY <1>1, <2>1, <2>2, SendEffect
    <2>4. NewCall(i)
        BY <1>1, <2>2, <2>3 DEF NewCall, SentAs, PressSave
    <2> QED BY <2>3, <2>4 DEF SameCall, SentAs, Pending
<1>2. ASSUME PressRevert
      PROVE  \A i \in Calls : Pending(i)' => SameCall(i) \/ NewCall(i)
    <2>1. PICK i \in Calls :
            calls[i].phase = "idle" /\ SentAs(i, "revert", {0}, FALSE, "no")
        BY <1>2, SendEffect, EditsFacts DEF PressRevert, Buttons, Requests
    <2>2. NewCall(i)
        BY <1>2, <2>1 DEF NewCall, SentAs, PressRevert
    <2> QED BY <2>1, <2>2 DEF SameCall, SentAs, Pending
<1>3. ASSUME NEW modal \in {"no", "open"}, PressDialog(modal)
      PROVE  \A i \in Calls : Pending(i)' => SameCall(i) \/ NewCall(i)
    <2>1. made' \in Edits
        BY <1>3, BoundsAssumption DEF PressDialog, TypeOK, Edits
    <2>2. PICK i \in Calls :
            calls[i].phase = "idle" /\ SentAs(i, "dialog", {made'}, FALSE, modal)
        BY <1>3, <2>1, SendEffect DEF PressDialog, Usable, Buttons, Requests
    <2>3. NewCall(i)
        BY <1>3, <2>2 DEF NewCall, SentAs, PressDialog
    <2> QED BY <2>2, <2>3 DEF SameCall, SentAs, Pending
<1>4. ASSUME NEW button \in {"outlet", "return"}, NEW modal \in {"no", "open"},
             PressOutlet(button, modal)
      PROVE  \A i \in Calls : Pending(i)' => SameCall(i) \/ NewCall(i)
    <2>1. PICK i \in Calls :
            calls[i].phase = "idle" /\ SentAs(i, button, {}, FALSE, modal)
        BY <1>4, SendEffect DEF PressOutlet, Buttons
    <2>2. NewCall(i)
        BY <1>4, <2>1 DEF NewCall, SentAs, PressOutlet, history
    <2> QED BY <2>1, <2>2 DEF SameCall, SentAs, Pending
<1> QED BY <1>1, <1>2, <1>3, <1>4 DEF Submit, Decide, Return, Confirmation

LEMMA CallsEvolve ==
    ASSUME TypeOK, Next
    PROVE  \A i \in Calls : Pending(i)' => SameCall(i) \/ NewCall(i)
<1>1. CASE UNCHANGED calls
    BY <1>1 DEF SameCall, Pending
<1>2. ASSUME NEW k \in Calls, Apply(k)
      PROVE  \A i \in Calls : Pending(i)' => SameCall(i)
    <2>1. Pending(k) /\ calls' = [calls EXCEPT ![k].phase = "applied"]
        BY <1>2 DEF Apply, Busy, Pending
    <2>2. calls[k] \in CallType
        BY DEF TypeOK
    <2>3. SameCall(k)
        BY <1>2, <2>1, <2>2, PhaseEffect DEF SameCall, CallType
    <2>4. \A i \in Calls \ {k} : Pending(i)' => SameCall(i)
        BY <2>1, PhaseEffect DEF SameCall, Pending
    <2> QED BY <2>3, <2>4
<1>3. ASSUME NEW k \in Calls, Ended(k)
      PROVE  \A i \in Calls : Pending(i)' => SameCall(i)
    <2>1. ~Pending(k)'
        BY <1>3, EndEffect DEF Pending, NoCall
    <2> QED BY <1>3, <2>1, EndEffect DEF SameCall, Pending
<1>4. ASSUME NEW k \in Calls, Dismiss(k)
      PROVE  \A i \in Calls : Pending(i)' => SameCall(i)
    <2>1. Pending(k) /\ calls' = [calls EXCEPT ![k].modal = "dismissed"]
        BY <1>4 DEF Dismiss, Busy, Pending
    <2>2. calls[k] \in CallType
        BY DEF TypeOK
    <2> QED BY <2>1, <2>2, ModalEffect DEF SameCall, Pending, CallType
<1>5. CASE Loads \/ Progresses
    BY <1>1, <1>5 DEF Loads, ReadStep, ShowStep, ShowPlace, FailToLoad,
                      Progresses, ReadProgress, ShowProgress, FailProgress
<1>6. ASSUME NEW k \in Calls, Responds(k) \/ Dismiss(k)
      PROVE  \A i \in Calls : Pending(i)' => SameCall(i)
    BY <1>2, <1>3, <1>4, <1>6
    DEF Responds, Succeeds, Answered, SaveSucceeds, RevertSucceeds, DialogSucceeds,
        OutletSucceeds, Fails
<1>7. CASE \E control \in {"typed", "marked", "reset", "silent"} : Edit(control)
    BY <1>1, <1>7 DEF Edit
<1>8. CASE OpenFromSidebar \/ LeaveWorkflow
    BY <1>1, <1>8 DEF OpenFromSidebar, LeaveWorkflow, Leave
<1> QED BY <1>5, <1>6, <1>7, <1>8, NewCalls DEF Next

-----------------------------------------------------------------------------
\* What a step may do to the open step: nothing that matters here, one of
\* five changes of its data, a reload, or it opens another.

Opened ==
    /\ at'.visit = 0 \/ at'.visit = at.visit + 1
    /\ stored' = {0} /\ load' = FreshLoad(at'.step)
    /\ blanked' = FALSE /\ broken' = FALSE /\ reverted' = FALSE
Still == UNCHANGED <<form, stored, load, broken, blanked>> /\ (reverted' => reverted)
Edited ==
    /\ form \subseteq form' /\ ~reverted'
    /\ UNCHANGED <<stored, load, broken, blanked>>
Reloaded(i) ==
    /\ Pending(i) /\ Own(i) /\ calls[i].button \in {"save", "revert", "dialog"}
    /\ Reload
    /\ UNCHANGED <<form, stored, broken, blanked>>
    /\ reverted' => \/ reverted /\ calls[i].button # "revert"
                    \/ ~\E j \in Calls \ {i} : Pending(j) /\ Own(j)
    /\ ~Pending(i)'

LEMMA StepCases ==
    ASSUME TypeOK, CallsOK, Next
    PROVE  /\ InWorkflow
           /\ \/ Opened
              \/ /\ at' = at
                 /\ \/ Still \/ ReadStep \/ ShowStep \/ ShowPlace \/ FailToLoad \/ Edited
                    \/ \E i \in Calls : Apply(i) \/ Reloaded(i)
<1> DEFINE Goal == \/ Opened
                   \/ /\ at' = at
                      /\ \/ Still \/ ReadStep \/ ShowStep \/ ShowPlace \/ FailToLoad \/ Edited
                         \/ \E i \in Calls : Apply(i) \/ Reloaded(i)
<1>1. CASE Loads \/ Progresses
    BY <1>1 DEF Loads, ReadStep, ShowStep, ShowPlace, FailToLoad, Progresses,
                ReadProgress, ShowProgress, FailProgress, Still, history
<1>2. CASE \E control \in {"typed", "marked", "reset", "silent"} : Edit(control)
    BY <1>2 DEF Edit, Edited, Usable
<1>3. CASE \/ \E onward \in BOOLEAN : PressSave(onward)
           \/ PressRevert
           \/ \E modal \in {"no", "open"} : PressDialog(modal)
           \/ Submit \/ Decide \/ Return
    <2>1. ASSUME NEW onward \in BOOLEAN, PressSave(onward) PROVE InWorkflow /\ Goal
        BY <2>1 DEF PressSave, Still
    <2>2. ASSUME PressRevert PROVE InWorkflow /\ Goal
        BY <2>2 DEF PressRevert, Still
    <2>3. ASSUME NEW modal \in {"no", "open"}, PressDialog(modal) PROVE InWorkflow /\ Goal
        BY <2>3 DEF PressDialog, Usable, Still
    <2>4. ASSUME NEW button, NEW modal, PressOutlet(button, modal)
          PROVE  InWorkflow /\ Goal
        BY <2>4 DEF PressOutlet, Still, history
    <2> QED BY <1>3, <2>1, <2>2, <2>3, <2>4 DEF Submit, Decide, Return, Confirmation
<1>4. CASE OpenFromSidebar \/ LeaveWorkflow
    <2>1. PICK target \in Steps, page \in BOOLEAN : Leave(target, page)
        BY <1>4, StepsAssumption DEF OpenFromSidebar, LeaveWorkflow, TypeOK
    <2>2. InWorkflow /\ Open(target, page, dirty) /\ dirty \in BOOLEAN
        BY <2>1 DEF Leave, TypeOK
    <2> QED BY <2>2, OpenEffect DEF Opened
<1>5. ASSUME NEW i \in Calls, Responds(i) \/ Dismiss(i)
      PROVE  InWorkflow /\ Goal
    <2>1. InWorkflow /\ Pending(i)
        BY <1>5 DEF Responds, Succeeds, Answered, SaveSucceeds, RevertSucceeds,
                    DialogSucceeds, OutletSucceeds, Fails, Dismiss, Apply, Busy, Pending
    <2>2. Ended(i) => ~Pending(i)'
        BY EndEffect DEF Pending, NoCall
    <2>3. CASE Apply(i)
        BY <2>1, <2>3 DEF Apply
    <2>4. CASE SaveSucceeds(i)
        <3>1. CASE calls[i].onward /\ calls[i].from.next # Step.name
            <4>1. Open(StepNamed(calls[i].from.next), TRUE, FALSE)
                BY <2>4, <3>1 DEF SaveSucceeds
            <4>2. StepNamed(calls[i].from.next) \in Steps
                BY <2>1, <2>4, NamedStep DEF CallsOK, SaveSucceeds
            <4> QED BY <2>1, <4>1, <4>2, OpenEffect DEF Opened
        <3>2. CASE ~(calls[i].onward /\ calls[i].from.next # Step.name)
            <4>1. /\ UNCHANGED <<at, form, stored, broken, blanked, reverted>>
                  /\ (Own(i) /\ Reload) \/ UNCHANGED load
                BY <2>4, <3>2 DEF SaveSucceeds
            <4>2. calls[i].button = "save" /\ ~Pending(i)'
                BY <2>2, <2>4 DEF SaveSucceeds, Answered
            <4> QED BY <2>1, <4>1, <4>2 DEF Still, Reloaded
        <3> QED BY <3>1, <3>2
    <2>5. CASE RevertSucceeds(i)
        <3>1. calls[i].button = "revert" /\ ~Pending(i)'
            BY <2>2, <2>5 DEF RevertSucceeds, Answered
        <3>2. CASE Own(i)
            BY <2>1, <2>5, <3>1, <3>2 DEF RevertSucceeds, Reloaded, Busy, Pending
        <3>3. CASE ~Own(i)
            BY <2>1, <2>5, <3>3 DEF RevertSucceeds, Still
        <3> QED BY <3>2, <3>3
    <2>6. CASE DialogSucceeds(i)
        <3>1. calls[i].button = "dialog" /\ ~Pending(i)'
            BY <2>2, <2>6 DEF DialogSucceeds, Answered
        <3>2. (Own(i) /\ Reload) \/ UNCHANGED load
            BY <2>6 DEF DialogSucceeds
        <3>3. UNCHANGED <<at, form, stored, broken, blanked, reverted>>
            BY <2>6 DEF DialogSucceeds
        <3> QED BY <2>1, <3>1, <3>2, <3>3 DEF Still, Reloaded
    <2>7. CASE OutletSucceeds(i)
        <3>1. CASE UNCHANGED <<at, form, stored, load, flags, dirty, history>>
            BY <2>1, <3>1 DEF Still, history
        <3>2. CASE Open(at.step, FALSE, dirty)
            <4>1. at.step \in Steps /\ dirty \in BOOLEAN
                BY DEF TypeOK
            <4> QED BY <2>1, <3>2, <4>1, OpenEffect DEF Opened
        <3> QED BY <2>7, <3>1, <3>2 DEF OutletSucceeds
    <2>8. CASE Fails(i) \/ Dismiss(i)
        <3>1. UNCHANGED <<at, form, stored, load, broken, blanked, reverted>>
            BY <2>8 DEF Fails, Dismiss, history
        <3> QED BY <2>1, <3>1 DEF Still
    <2> QED BY <1>5, <2>3, <2>4, <2>5, <2>6, <2>7, <2>8 DEF Responds, Succeeds
<1> QED BY <1>1, <1>2, <1>3, <1>4, <1>5 DEF Next

-----------------------------------------------------------------------------
\* The invariants, step by step.

LEMMA CallsStep == ASSUME TypeOK, CallsOK, Next PROVE CallsOK'
<1>1. at'.visit = at.visit \/ at'.visit = 0 \/ at'.visit = at.visit + 1
    BY StepCases DEF Opened
<1>2. at.visit \in Nat /\ \A i \in Calls : calls[i].visit \in Nat
    BY DEF TypeOK, CallType
<1>3. InWorkflow
    BY StepCases
<1>4. ASSUME NEW i \in Calls, Pending(i)', InWorkflow'
      PROVE  calls'[i].visit <= at'.visit
    <2>1. CASE SameCall(i)
        <3>1. calls[i].visit <= at.visit
            BY <1>3, <2>1 DEF CallsOK, SameCall
        <3> QED BY <1>1, <1>2, <1>4, <2>1, <3>1 DEF SameCall, InWorkflow
    <2>2. CASE NewCall(i)
        BY <1>2, <2>2 DEF NewCall
    <2> QED BY <1>4, <2>1, <2>2, CallsEvolve
<1>5. ASSUME NEW i \in Calls, Pending(i)', calls'[i].button = "save"
      PROVE  \E t \in Steps : t.name = calls'[i].from.next
    <2>1. CASE SameCall(i)
        BY <1>5, <2>1 DEF CallsOK, SameCall
    <2>2. CASE NewCall(i)
        <3>1. Step \in Steps /\ Step.saves
            BY <1>5, <2>2 DEF NewCall, Savable, TypeOK, Step
        <3>2. calls'[i].from.next = Step.next
            BY <1>5, <2>2 DEF NewCall, Origin
        <3> QED BY <3>1, <3>2, StepsAssumption
    <2> QED BY <1>5, <2>1, <2>2, CallsEvolve
<1> QED BY <1>4, <1>5 DEF CallsOK, Pending, InWorkflow

\* A new visit has no calls of its own yet.
LEMMA NoOwnCalls ==
    ASSUME TypeOK, CallsOK, Next, Opened, InWorkflow',
           NEW i \in Calls, Pending(i)', Own(i)'
    PROVE  FALSE
<1>1. at.visit \in Nat /\ calls[i].visit \in Nat /\ InWorkflow
    BY StepCases DEF TypeOK, CallType
<1>2. at'.visit = at.visit + 1
    BY DEF Opened, InWorkflow
<1>3. CASE SameCall(i)
    BY <1>1, <1>2, <1>3 DEF SameCall, CallsOK, Own
<1>4. CASE NewCall(i)
    BY <1>1, <1>2, <1>4 DEF NewCall, Own
<1> QED BY <1>3, <1>4, CallsEvolve

LEMMA PlaceStep == ASSUME TypeOK, CallsOK, PlaceOK, Next PROVE PlaceOK'
<1>1. CASE Opened
    BY <1>1 DEF Opened, PlaceOK, FreshLoad, Step
<1>2. ASSUME at' = at PROVE load'.place # "none" => Step.paired
    <2>1. CASE Still \/ Edited
        BY <2>1 DEF Still, Edited, PlaceOK
    <2>2. CASE ReadStep \/ ShowStep \/ ShowPlace \/ FailToLoad
        BY <2>2 DEF ReadStep, ShowStep, ShowPlace, FailToLoad, PlaceOK, TypeOK, LoadType
    <2>3. ASSUME NEW i \in Calls, Apply(i) \/ Reloaded(i)
          PROVE  load'.place # "none" => Step.paired
        BY <2>3 DEF Apply, Reloaded, Reload, PlaceOK, TypeOK, LoadType
    <2>4. CASE Opened
        BY <1>2, <2>4 DEF Opened, FreshLoad, Step
    <2> QED BY <2>1, <2>2, <2>3, <2>4, StepCases
<1>3. CASE at' = at
    BY <1>2, <1>3 DEF PlaceOK, Step
<1> QED BY <1>1, <1>3, StepCases

LEMMA BlankStep == ASSUME TypeOK, CallsOK, PlaceOK, BlankOK, Next PROVE BlankOK'
<1>1. CASE Opened
    <2>1. InWorkflow' => KeepsFirst'
        BY <1>1, NoOwnCalls DEF KeepsFirst, Opened, FreshLoad, Shown
    <2> QED BY <1>1, <2>1 DEF BlankOK, BlankOnlyUnloaded, Opened
<1> DEFINE ShowsFirst ==
               /\ load.phase = "read" => 0 \in load.content
               /\ Shown => 0 \in form
               /\ load.came /\ load.place = "first" => load.latest # {}
               /\ \A content \in load.latest : 0 \in content
<1>2. ASSUME at' = at, "save" \notin Step.early, ~broken'
      PROVE  KeepsFirst' /\ ~blanked'
    <2>1. InWorkflow /\ (broken => broken')
        <3>1. InWorkflow /\ at.visit \in Nat
            BY StepCases DEF TypeOK
        <3>2. ~Opened
            BY <1>2, <3>1 DEF Opened, InWorkflow
        <3>3. ASSUME NEW i \in Calls, Apply(i) \/ Reloaded(i) PROVE broken => broken'
            BY <3>3 DEF Apply, Reloaded
        <3>4. CASE Still \/ ReadStep \/ ShowStep \/ ShowPlace \/ FailToLoad \/ Edited
            BY <3>1, <3>4 DEF Still, ReadStep, ShowStep, ShowPlace, FailToLoad, Edited, history
        <3> QED BY <3>1, <3>2, <3>3, <3>4, StepCases
    <2>2. KeepsFirst /\ ShowsFirst /\ ~blanked
        BY <1>2, <2>1 DEF BlankOK, BlankOnlyUnloaded, KeepsFirst
    <2>3. ASSUME NEW i \in Calls, Pending(i)', Own(i)', calls'[i].button = "save"
          PROVE  0 \in calls'[i].content
        <3>1. CASE SameCall(i)
            BY <1>2, <2>2, <2>3, <3>1 DEF SameCall, KeepsFirst, Own
        <3>2. CASE NewCall(i)
            <4>1. 0 \in form \ notes
                BY <1>2, <2>2, <2>3, <3>2 DEF NewCall, Savable, TypeOK
            <4> QED BY <2>3, <3>2, <4>1 DEF NewCall
        <3> QED BY <2>3, <3>1, <3>2, CallsEvolve
    <2>4. 0 \in stored' /\ ~blanked' /\ ShowsFirst'
        <3>1. CASE Still \/ Edited
            BY <2>2, <3>1 DEF Still, Edited, KeepsFirst, Shown
        <3>2. CASE ReadStep
            <4>1. load' = [load EXCEPT !.phase = "read", !.content = stored]
                  /\ UNCHANGED <<form, stored, blanked>> /\ load \in LoadType
                BY <3>2 DEF ReadStep, history, TypeOK
            <4> QED BY <2>2, <4>1 DEF KeepsFirst, Shown, LoadType
        <3>3. CASE ShowStep
            <4>1. 0 \in load.content /\ UNCHANGED <<stored, blanked>>
                  /\ load \in LoadType
                BY <2>2, <3>3 DEF ShowStep, history, TypeOK
            <4>2. /\ load'.phase = "none" /\ load'.place = load.place
                  /\ load'.latest = IF Step.paired THEN {load.content} ELSE {}
                BY <3>3, <4>1 DEF ShowStep, LoadType
            <4>3. load'.place # "first" => form' = load.content
                BY <3>3, <4>2 DEF ShowStep, Populate
            <4> QED BY <2>2, <4>1, <4>2, <4>3 DEF KeepsFirst, Shown, PlaceOK
        <3>4. CASE ShowPlace
            <4>1. load' = [load EXCEPT !.place = "none"] /\ load \in LoadType
                  /\ UNCHANGED <<stored, blanked>>
                BY <3>4 DEF ShowPlace, TypeOK
            <4>2. load.came => 0 \in form'
                <5>1. CASE load.latest = {}
                    BY <2>2, <3>4, <5>1 DEF ShowPlace, Shown
                <5>2. CASE load.latest # {}
                    BY <2>2, <3>4, <5>2 DEF ShowPlace, Populate
                <5> QED BY <5>1, <5>2
            <4> QED BY <2>2, <4>1, <4>2 DEF KeepsFirst, Shown, LoadType
        <3>5. CASE FailToLoad
            BY <1>2, <3>5 DEF FailToLoad
        <3>6. ASSUME NEW i \in Calls, Reloaded(i)
              PROVE  0 \in stored' /\ ~blanked' /\ ShowsFirst'
            <4>1. Reload /\ UNCHANGED <<form, stored, blanked>> /\ load \in LoadType
                BY <3>6 DEF Reloaded, TypeOK
            <4>2. /\ load'.phase = "sent" /\ load'.came = load.came
                  /\ load'.latest = load.latest
                  /\ load'.place = "first" <=> load.place = "first"
                BY <4>1 DEF Reload, LoadType
            <4> QED BY <2>2, <4>1, <4>2 DEF KeepsFirst, Shown
        <3>7. ASSUME NEW i \in Calls, Apply(i)
              PROVE  0 \in stored' /\ ~blanked' /\ ShowsFirst'
            <4>1. UNCHANGED <<form, load>> /\ Pending(i)
                BY <3>7 DEF Apply, Busy, Pending
            <4>2. 0 \in stored'
                BY <2>2, <3>7, <4>1 DEF Apply, KeepsFirst
            <4>3. ~blanked'
                BY <2>2, <3>7, <4>2 DEF Apply
            <4> QED BY <2>2, <4>1, <4>2, <4>3 DEF Shown
        <3>8. CASE Opened
            BY <1>2, <2>1, <3>8 DEF Opened, InWorkflow, TypeOK
        <3> QED BY <3>1, <3>2, <3>3, <3>4, <3>5, <3>6, <3>7, <3>8, StepCases
    <2> QED BY <2>3, <2>4 DEF KeepsFirst, Pending, Own
<1>3. CASE at' = at
    <2>1. Step' = Step
        BY <1>3 DEF Step
    <2> QED BY <1>2, <1>3, <2>1 DEF BlankOK, BlankOnlyUnloaded
<1> QED BY <1>1, <1>3, StepCases

LEMMA RevertStep == ASSUME TypeOK, CallsOK, PlaceOK, RevertOK, Next PROVE RevertOK'
<1>1. CASE Opened
    BY <1>1 DEF Opened, RevertOK
<1> DEFINE Quiet == \A i \in Calls : Pending(i) /\ Own(i)
                        => calls[i].button \in {"outlet", "return"}
           Agrees == /\ load.phase = "read" => load.content = stored
                     /\ load.phase = "none" /\ ~broken =>
                            IF load.place = "none" THEN form = stored
                                                   ELSE load.latest = {stored}
<1>2. ASSUME at' = at, reverted', reverted
      PROVE  Quiet'
    <2>1. Quiet
        BY <1>2, StepCases DEF RevertOK
    <2>2. ASSUME NEW i \in Calls, Pending(i)', Own(i)'
          PROVE  calls'[i].button \in {"outlet", "return"}
        <3>1. CASE SameCall(i)
            BY <1>2, <2>1, <2>2, <3>1 DEF SameCall, Own
        <3>2. CASE NewCall(i)
            BY <1>2, <3>2 DEF NewCall
        <3> QED BY <2>2, <3>1, <3>2, CallsEvolve
    <2> QED BY <2>2 DEF Pending, Own
<1>3. ASSUME at' = at, reverted', Still \/ ReadStep \/ ShowStep \/ ShowPlace \/ FailToLoad \/ Edited
      PROVE  reverted /\ Agrees'
    <2>1. reverted
        BY <1>3 DEF Still, ReadStep, ShowStep, ShowPlace, FailToLoad, Edited, history
    <2>2. Agrees
        BY <2>1, StepCases DEF RevertOK
    <2>3. CASE Still
        BY <2>1, <2>2, <2>3 DEF Still
    <2>4. CASE ReadStep
        BY <2>1, <2>4 DEF ReadStep, TypeOK, LoadType
    <2>5. CASE ShowStep
        <3>1. /\ load.content = stored /\ load \in LoadType
              /\ UNCHANGED <<stored, broken>>
            BY <2>2, <2>5 DEF ShowStep, history, TypeOK
        <3>2. /\ load'.phase = "none" /\ load'.place = load.place
              /\ load'.latest = IF Step.paired THEN {load.content} ELSE {}
            BY <2>5, <3>1 DEF ShowStep, LoadType
        <3>3. load.place = "none" => form' = load.content
            BY <2>5 DEF ShowStep, Populate
        <3> QED BY <2>1, <3>1, <3>2, <3>3 DEF PlaceOK
    <2>6. CASE ShowPlace
        <3>1. /\ load' = [load EXCEPT !.place = "none"] /\ load \in LoadType
              /\ load.place # "none" /\ UNCHANGED <<stored, broken>>
            BY <2>6 DEF ShowPlace, TypeOK
        <3>2. load.latest = {stored} => form' = stored
            BY <2>6 DEF ShowPlace, Populate
        <3> QED BY <2>1, <2>2, <3>1, <3>2 DEF LoadType
    <2>7. CASE FailToLoad
        BY <2>1, <2>7 DEF FailToLoad
    <2>8. CASE Edited
        BY <1>3, <2>8 DEF Edited
    <2> QED BY <1>3, <2>1, <2>3, <2>4, <2>5, <2>6, <2>7, <2>8
<1>4. ASSUME at' = at, reverted', NEW i \in Calls, Apply(i)
      PROVE  reverted /\ Agrees'
    <2>1. reverted /\ Pending(i) /\ UNCHANGED <<form, load, broken>>
        BY <1>4 DEF Apply, Busy, Pending
    <2>2. Quiet /\ Agrees
        BY <2>1, StepCases DEF RevertOK
    <2>3. stored' = stored
        BY <1>4, <2>1, <2>2 DEF Apply
    <2> QED BY <2>1, <2>2, <2>3
<1>5. ASSUME at' = at, reverted', NEW i \in Calls, Reloaded(i)
      PROVE  Quiet' /\ Agrees'
    <2>1. Agrees'
        BY <1>5 DEF Reloaded, Reload, TypeOK, LoadType
    <2>2. ~reverted
        <3>1. Pending(i) /\ Own(i) /\ calls[i].button \in {"save", "revert", "dialog"}
            BY <1>5 DEF Reloaded
        <3> QED BY <3>1, StepCases DEF RevertOK
    <2>3. ~\E j \in Calls \ {i} : Pending(j) /\ Own(j)
        BY <1>5, <2>2 DEF Reloaded
    <2>4. ASSUME NEW j \in Calls, Pending(j)', Own(j)'
          PROVE  calls'[j].button \in {"outlet", "return"}
        <3>1. CASE SameCall(j)
            <4>1. Pending(j) /\ Own(j)
                BY <1>5, <2>4, <3>1 DEF SameCall, Own
            <4> QED BY <1>5, <2>3, <2>4, <4>1 DEF Reloaded
        <3>2. CASE NewCall(j)
            BY <1>5, <3>2 DEF NewCall
        <3> QED BY <2>4, <3>1, <3>2, CallsEvolve
    <2> QED BY <2>1, <2>4 DEF Pending, Own
<1>6. ASSUME at' = at, reverted' PROVE Quiet' /\ Agrees'
    <2>1. CASE Opened
        BY <1>6, <2>1 DEF Opened
    <2> QED BY <1>2, <1>3, <1>4, <1>5, <1>6, <2>1, StepCases
<1>7. CASE at' = at
    BY <1>6, <1>7 DEF RevertOK, Pending, Own
<1> QED BY <1>1, <1>7, StepCases

\* A step that opens another, or leaves, must only not lose an edit.
LEMMA LossOpens ==
    ASSUME TypeOK, CallsOK, LossOK, Next, InWorkflow, NEW target \in Steps,
           NEW page \in BOOLEAN, NEW wasDirty \in BOOLEAN, Open(target, page, wasDirty),
           lost' \subseteq exposed'
    PROVE  LossOK'
<1>1. Opened /\ edits' = {}
    BY OpenEffect DEF Opened
<1>2. Watched' = {}
    BY <1>1 DEF Watched
<1>3. WatchedShown'
    BY <1>2 DEF WatchedShown
<1>4. InWorkflow' => WatchedSent' /\ WatchedApplied'
    BY <1>1, NoOwnCalls DEF WatchedSent, WatchedApplied
<1> QED BY <1>1, <1>3, <1>4 DEF LossOK

\* A step that stays and watches no further edit.
LEMMA LossStays ==
    ASSUME TypeOK, CallsOK, LossOK, Next,
           at' = at, lost' = lost, exposed \subseteq exposed', Watched' \subseteq Watched,
           notes \subseteq notes',
           WatchedShown', Watched \subseteq stored => Watched' \subseteq stored',
           \A i \in Calls : Apply(i) /\ Own(i) /\ calls[i].button \in {"save", "revert"}
               => Watched' \subseteq stored'
    PROVE  LossOK'
<1>1. InWorkflow /\ InWorkflow'
    BY StepCases DEF InWorkflow
<1>2. WatchedShown /\ WatchedSent /\ WatchedApplied
    BY <1>1 DEF LossOK
<1>3. ASSUME NEW i \in Calls, Pending(i)', Own(i)'
      PROVE  /\ calls'[i].button = "save" => Watched' \subseteq calls'[i].content \cup notes'
             /\ calls'[i].button = "dialog" => calls'[i].content \subseteq exposed'
    <2>1. CASE SameCall(i)
        BY <1>2, <1>3, <2>1 DEF SameCall, WatchedSent, Own
    <2>2. CASE NewCall(i)
        BY <1>2, <2>2 DEF NewCall, WatchedShown
    <2> QED BY <1>3, <2>1, <2>2, CallsEvolve
<1>4. ASSUME NEW i \in Calls, Pending(i)', Own(i)', calls'[i].phase = "applied",
             calls'[i].button \in {"save", "revert"}
      PROVE  Watched' \subseteq stored'
    <2>1. CASE SameCall(i)
        BY <1>2, <1>4, <2>1 DEF SameCall, WatchedApplied, Own
    <2>2. CASE NewCall(i)
        BY <1>4, <2>2 DEF NewCall
    <2> QED BY <1>4, <2>1, <2>2, CallsEvolve
<1>5. WatchedSent' /\ WatchedApplied'
    BY <1>3, <1>4 DEF WatchedSent, WatchedApplied, Pending, Own
<1> QED BY <1>1, <1>5 DEF LossOK

\* What a request becomes unless the server applies it.
Unapplied == \A i \in Calls : calls'[i].phase \in {calls[i].phase, "sent", "done"}

LEMMA NotApplied == ASSUME TypeOK, Unapplied, NEW i \in Calls PROVE ~Apply(i)
<1> SUFFICES ASSUME Apply(i) PROVE FALSE
    OBVIOUS
<1>1. calls[i] \in CallType /\ calls[i].phase = "sent"
    BY DEF TypeOK, Apply
<1>2. calls'[i].phase = "applied"
    BY <1>1, PhaseEffect DEF Apply, CallType
<1> QED BY <1>1, <1>2 DEF Unapplied

\* A step that changes nothing of what its data are.
LEMMA LossKeeps ==
    ASSUME TypeOK, CallsOK, LossOK, Next, Unapplied,
           UNCHANGED <<at, form, stored, load, edits, notes, lost>>,
           exposed \subseteq exposed',
           dirty' = dirty \/ Watched' \subseteq stored'
    PROVE  LossOK'
<1>1. WatchedShown
    BY StepCases DEF LossOK
<1>2. Watched' \subseteq Watched
    BY DEF Watched
<1>3. WatchedShown'
    BY <1>1, <1>2 DEF WatchedShown, Loading
<1> QED BY <1>2, <1>3, NotApplied, LossStays

LEMMA LossLoads == ASSUME TypeOK, CallsOK, LossOK, Next, Loads PROVE LossOK'
<1>1. WatchedShown /\ load \in LoadType
    BY StepCases DEF LossOK, TypeOK
<1>2. Unapplied /\ UNCHANGED <<at, lost, stored, edits, notes>>
    BY DEF Loads, ReadStep, ShowStep, ShowPlace, FailToLoad, Unapplied, history
<1>3. exposed \subseteq exposed'
    BY DEF Loads, ReadStep, ShowStep, ShowPlace, FailToLoad, history
<1>4. Watched' \subseteq Watched
    BY <1>2, <1>3 DEF Watched
<1>5. Watched \subseteq stored
    BY <1>1 DEF Loads, ReadStep, ShowStep, ShowPlace, FailToLoad, WatchedShown, Loading
<1>6. CASE ReadStep
    <2>1. UNCHANGED form /\ load'.content = stored
        BY <1>1, <1>6 DEF ReadStep, LoadType
    <2>2. WatchedShown'
        BY <1>1, <1>2, <1>4, <1>5, <2>1 DEF WatchedShown
    <2> QED BY <1>2, <1>3, <1>4, <2>2, NotApplied, LossStays
<1>7. CASE ShowStep
    <2>1. form' \in {form, load.content} /\ load.phase = "read"
        BY <1>7 DEF ShowStep, Populate
    <2>2. load'.phase = "none"
        BY <1>1, <1>7 DEF ShowStep, LoadType
    <2>3. WatchedShown'
        BY <1>1, <1>2, <1>4, <1>5, <2>1, <2>2 DEF WatchedShown
    <2> QED BY <1>2, <1>3, <1>4, <2>3, NotApplied, LossStays
<1>8. CASE ShowPlace
    <2>1. Watched' \subseteq form'
        <3>1. CASE load.latest = {}
            BY <1>1, <1>4, <1>8, <3>1 DEF ShowPlace, WatchedShown
        <3>2. CASE load.latest # {}
            <4>1. PICK content \in load.latest :
                    Populate(content) /\ exposed' = exposed \cup (edits \ content)
                BY <1>8, <3>2 DEF ShowPlace
            <4> QED BY <1>2, <4>1 DEF Populate, Watched
        <3> QED BY <3>1, <3>2
    <2>2. load'.phase = load.phase /\ load'.content = load.content
        BY <1>1, <1>8 DEF ShowPlace, LoadType
    <2>3. WatchedShown'
        BY <1>1, <1>2, <1>4, <1>5, <2>1, <2>2 DEF WatchedShown
    <2> QED BY <1>2, <1>3, <1>4, <2>3, NotApplied, LossStays
<1>9. CASE FailToLoad
    <2>1. load'.phase = "none"
        BY <1>1, <1>9 DEF FailToLoad, LoadType
    <2>2. Watched' \subseteq form'
        <3>1. CASE Step.failed = "empties"
            BY <1>2, <1>9, <3>1 DEF FailToLoad, Watched
        <3>2. CASE Step.failed # "empties"
            BY <1>1, <1>4, <1>9, <3>2 DEF FailToLoad, WatchedShown
        <3> QED BY <3>1, <3>2
    <2>3. WatchedShown'
        BY <1>2, <1>4, <1>5, <2>1, <2>2 DEF WatchedShown
    <2> QED BY <1>2, <1>3, <1>4, <2>3, NotApplied, LossStays
<1> QED BY <1>6, <1>7, <1>8, <1>9 DEF Loads

\* The edits that are watched: they were published, and nothing of the step was
\* under way.
LEMMA LossEdit ==
    ASSUME TypeOK, CallsOK, LossOK, Next,
           NEW control \in {"typed", "marked", "reset", "silent"}, Edit(control)
    PROVE  LossOK'
<1>1. InWorkflow /\ WatchedShown /\ WatchedSent /\ WatchedApplied
    BY StepCases DEF LossOK
<1>2. /\ UNCHANGED <<at, lost, stored, load, calls>> /\ notes \subseteq notes'
      /\ form' = form \cup {made'} /\ edits' = edits \cup {made'}
    BY DEF Edit
<1>3. Unapplied
    BY <1>2 DEF Unapplied
<1>4. CASE made' \in exposed'
    <2>1. exposed \subseteq exposed'
        BY DEF Edit
    <2>2. Watched' \subseteq Watched
        BY <1>2, <1>4, <2>1 DEF Watched
    <2>3. ~dirty' => Watched' \subseteq stored
        <3>1. CASE control = "reset"
            <4>1. Unsaved \subseteq exposed'
                BY <3>1 DEF Edit
            <4>2. Watched \subseteq edits \cap form
                BY <1>1 DEF Watched, WatchedShown
            <4> QED BY <2>2, <4>1, <4>2 DEF Unsaved, Watched
        <3>2. CASE control # "reset"
            <4>1. ~dirty' => ~dirty
                BY <3>2 DEF Edit, Publish, TypeOK
            <4> QED BY <1>1, <2>2, <4>1 DEF WatchedShown
        <3> QED BY <3>1, <3>2
    <2>4. WatchedShown'
        BY <1>1, <1>2, <2>2, <2>3 DEF WatchedShown, Loading
    <2> QED BY <1>2, <1>3, <2>1, <2>2, <2>4, NotApplied, LossStays
<1>5. CASE made' \notin exposed'
    <2>1. /\ control \in {"typed", "marked"} /\ ~OwnBusy /\ ~Loading
          /\ exposed' = exposed
        BY <1>5 DEF Edit
    <2>2. dirty' = TRUE
        BY <2>1 DEF Edit, Publish
    <2>3. Watched' \subseteq Watched \cup {made'}
        BY <1>2, <2>1 DEF Watched
    <2>4. WatchedShown'
        BY <1>1, <1>2, <2>1, <2>2, <2>3 DEF WatchedShown, Loading
    <2>5. \A i \in Calls : ~(Pending(i)' /\ Own(i)')
        BY <1>1, <1>2, <2>1 DEF OwnBusy, Busy, Pending, Own
    <2>6. WatchedSent' /\ WatchedApplied'
        BY <2>5 DEF WatchedSent, WatchedApplied
    <2> QED BY <1>1, <1>2, <2>1, <2>4, <2>6 DEF LossOK, InWorkflow
<1> QED BY <1>4, <1>5

LEMMA SendUnapplied ==
    ASSUME TypeOK, NEW button, NEW content, NEW onward, NEW modal,
           Send(button, content, onward, modal)
    PROVE  Unapplied
<1>1. PICK k \in Calls :
        calls' = [calls EXCEPT ![k] =
                   [button |-> button, visit |-> at.visit, content |-> content,
                    from |-> Origin(Step), onward |-> onward, modal |-> modal,
                    phase |-> "sent"]]
    BY DEF Send
<1> QED BY <1>1 DEF TypeOK, Unapplied

LEMMA LossSends ==
    ASSUME TypeOK, CallsOK, LossOK, Next,
           \/ \E onward \in BOOLEAN : PressSave(onward)
           \/ PressRevert
           \/ \E modal \in {"no", "open"} : PressDialog(modal)
           \/ Submit \/ Decide \/ Return
    PROVE  LossOK'
<1>1. Unapplied
    BY SendUnapplied DEF PressSave, PressRevert, PressDialog, Submit, Decide, Return,
                         PressOutlet
<1>2. /\ UNCHANGED <<at, form, stored, load, edits, notes, lost, dirty>>
      /\ exposed \subseteq exposed'
    BY DEF PressSave, PressRevert, PressDialog, Submit, Decide, Return, PressOutlet, history
<1> QED BY <1>1, <1>2, LossKeeps

\* Leaving: the guard asks while formDirty$ is TRUE, and when it is not all
\* watched edits are stored.
LEMMA LeavingLoses ==
    ASSUME LossOK, WatchedShown
    PROVE  lost \cup Missing \cup (IF Asks THEN {} ELSE Unsaved) \subseteq exposed
<1>1. Missing \subseteq exposed
    BY DEF Missing, Watched, WatchedShown
<1>2. ~dirty => Unsaved \subseteq exposed
    BY DEF Unsaved, Watched, WatchedShown
<1> QED BY <1>1, <1>2 DEF LossOK, Asks

LEMMA LossLeaves ==
    ASSUME TypeOK, CallsOK, LossOK, Next, OpenFromSidebar \/ LeaveWorkflow PROVE LossOK'
<1>1. InWorkflow /\ WatchedShown
    BY StepCases DEF LossOK
<1>2. PICK target \in Steps, page \in BOOLEAN : Leave(target, page)
    BY StepsAssumption DEF OpenFromSidebar, LeaveWorkflow, TypeOK
<1>3. Open(target, page, dirty) /\ dirty \in BOOLEAN
    BY <1>2 DEF Leave, TypeOK
<1>4. lost' \subseteq exposed'
    BY <1>1, <1>2, LeavingLoses DEF Leave
<1> QED BY <1>1, <1>3, <1>4, LossOpens

\* The server: what it is sent carries the watched edits, a revert ends them.
LEMMA LossApply ==
    ASSUME TypeOK, CallsOK, LossOK, Next, NEW i \in Calls, Apply(i) PROVE LossOK'
<1>1. InWorkflow /\ WatchedShown /\ WatchedSent /\ WatchedApplied
    BY StepCases DEF LossOK
<1>2. /\ Pending(i) /\ calls' = [calls EXCEPT ![i].phase = "applied"]
      /\ UNCHANGED <<at, form, load, dirty, lost, notes>> /\ exposed \subseteq exposed'
    BY DEF Apply, Busy, Pending
<1>3. \A j \in Calls : Apply(j) => j = i
    <2> SUFFICES ASSUME NEW j \in Calls, Apply(j), j # i PROVE FALSE
        OBVIOUS
    <2>1. calls'[j] = calls[j] /\ calls[j].phase = "sent"
        BY <1>2, PhaseEffect DEF Apply
    <2>2. calls[j] \in CallType /\ calls'[j] = [calls[j] EXCEPT !.phase = "applied"]
        BY PhaseEffect DEF Apply, TypeOK
    <2> QED BY <2>1, <2>2 DEF CallType
<1>4. /\ Watched' \subseteq Watched
      /\ Watched \subseteq stored => Watched' \subseteq stored'
      /\ Own(i) /\ calls[i].button \in {"save", "revert"} => Watched' \subseteq stored'
    <2>1. CASE ~Own(i)
        BY <1>2, <2>1 DEF Apply, Watched
    <2>2. CASE Own(i) /\ calls[i].button = "save"
        <3>1. /\ stored' = calls[i].content /\ edits' = edits
              /\ exposed' = exposed \cup (notes \ calls[i].content)
            BY <2>2 DEF Apply
        <3>2. Watched \subseteq calls[i].content \cup notes
            BY <1>1, <1>2, <2>2 DEF WatchedSent
        <3> QED BY <3>1, <3>2 DEF Watched
    <2>3. CASE Own(i) /\ calls[i].button = "revert"
        BY <1>2, <2>3 DEF Apply, Watched
    <2>4. CASE Own(i) /\ calls[i].button = "dialog"
        BY <1>1, <1>2, <2>4 DEF Apply, Watched, WatchedSent
    <2>5. CASE Own(i) /\ calls[i].button \notin {"save", "revert", "dialog"}
        BY <1>2, <2>5 DEF Apply, Watched
    <2> QED BY <2>1, <2>2, <2>3, <2>4, <2>5
<1>5. WatchedShown'
    BY <1>1, <1>2, <1>4 DEF WatchedShown, Loading
<1> QED BY <1>2, <1>3, <1>4, <1>5, LossStays

LEMMA EndUnapplied == ASSUME TypeOK, NEW i \in Calls, Ended(i) PROVE Unapplied
BY EndEffect DEF Unapplied, NoCall

\* Own answers come when the server has the watched edits; the answer of an
\* earlier step exposes those it does not have.
LEMMA LossSaved ==
    ASSUME TypeOK, CallsOK, LossOK, Next, NEW i \in Calls, SaveSucceeds(i) PROVE LossOK'
<1> DEFINE moves == calls[i].onward /\ calls[i].from.next # Step.name
<1>1. InWorkflow /\ WatchedShown /\ WatchedSent /\ WatchedApplied
    BY StepCases DEF LossOK
<1>2. Pending(i) /\ calls[i].phase = "applied" /\ calls[i].button = "save" /\ Unapplied
    BY EndUnapplied DEF SaveSucceeds, Answered, Busy, Pending
<1>3. exposed \subseteq exposed' /\ edits \cap form \subseteq stored \cup exposed'
    <2>1. CASE Own(i)
        <3>1. Watched \subseteq stored /\ exposed' = exposed
            BY <1>1, <1>2, <2>1 DEF WatchedApplied, SaveSucceeds
        <3> QED BY <3>1 DEF Watched
    <2>2. CASE ~Own(i)
        BY <2>2 DEF SaveSucceeds, Unsaved
    <2> QED BY <2>1, <2>2
<1>4. edits \subseteq stored \cup exposed'
    BY <1>1, <1>3 DEF WatchedShown, Watched
<1>5. CASE moves
    <2>1. Open(StepNamed(calls[i].from.next), TRUE, FALSE) /\ lost' = lost \cup Missing \cup Unsaved
        BY <1>5 DEF SaveSucceeds
    <2>2. StepNamed(calls[i].from.next) \in Steps
        BY <1>2, NamedStep DEF CallsOK
    <2>3. lost' \subseteq exposed'
        BY <1>3, <1>4, <2>1 DEF LossOK, Missing, Unsaved
    <2> QED BY <1>1, <2>1, <2>2, <2>3, LossOpens
<1>6. CASE ~moves
    <2>1. /\ UNCHANGED <<at, form, stored, edits, notes, lost>> /\ dirty' = FALSE
          /\ UNCHANGED load \/ Reload
        BY <1>6 DEF SaveSucceeds
    <2>2. Watched' \subseteq Watched /\ Watched' \subseteq stored'
        BY <1>3, <1>4, <2>1 DEF Watched
    <2>3. load'.phase = "read" => load'.content = load.content /\ load.phase = "read"
        BY <2>1 DEF Reload, TypeOK, LoadType
    <2>4. WatchedShown'
        BY <1>1, <2>1, <2>2, <2>3 DEF WatchedShown
    <2> QED BY <1>2, <1>3, <2>1, <2>2, <2>4, NotApplied, LossStays
<1> QED BY <1>5, <1>6

LEMMA LossAnswers ==
    ASSUME TypeOK, CallsOK, LossOK, Next, NEW i \in Calls,
           RevertSucceeds(i) \/ DialogSucceeds(i) \/ OutletSucceeds(i)
    PROVE  LossOK'
<1>1. InWorkflow /\ WatchedShown /\ WatchedApplied
    BY StepCases DEF LossOK
<1>2. Pending(i) /\ calls[i].phase = "applied" /\ Unapplied
    BY EndUnapplied
    DEF RevertSucceeds, DialogSucceeds, OutletSucceeds, Answered, Busy, Pending
<1>3. ASSUME UNCHANGED <<at, form, stored, edits, notes, lost, dirty>>,
             exposed \subseteq exposed', Reload, Watched' \subseteq stored
      PROVE  LossOK'
    <2>1. load'.phase = "sent"
        BY <1>3 DEF Reload, TypeOK, LoadType
    <2>2. Watched' \subseteq Watched
        BY <1>3 DEF Watched
    <2>3. WatchedShown'
        BY <1>1, <1>3, <2>1, <2>2 DEF WatchedShown
    <2> QED BY <1>2, <1>3, <2>2, <2>3, NotApplied, LossStays
<1>4. CASE RevertSucceeds(i)
    <2>1. UNCHANGED <<at, form, stored, edits, notes, lost, dirty, exposed>>
        BY <1>4 DEF RevertSucceeds
    <2>2. CASE Own(i)
        <3>1. Watched \subseteq stored /\ Reload
            BY <1>1, <1>2, <1>4, <2>2 DEF RevertSucceeds, WatchedApplied
        <3> QED BY <1>3, <2>1, <3>1 DEF Watched
    <2>3. CASE ~Own(i)
        BY <1>2, <1>4, <2>1, <2>3, LossKeeps DEF RevertSucceeds
    <2> QED BY <2>2, <2>3
<1>5. CASE DialogSucceeds(i)
    <2>1. UNCHANGED <<at, form, stored, edits, notes, lost, dirty>>
        BY <1>5 DEF DialogSucceeds
    <2>2. CASE Reload /\ exposed' = exposed \cup Unsaved
        <3>1. Watched' \subseteq stored
            BY <1>1, <2>1, <2>2 DEF Watched, WatchedShown, Unsaved
        <3> QED BY <1>3, <2>1, <2>2, <3>1
    <2>3. CASE UNCHANGED <<load, exposed>>
        BY <1>2, <2>1, <2>3, LossKeeps
    <2> QED BY <1>5, <2>2, <2>3 DEF DialogSucceeds
<1>6. CASE OutletSucceeds(i)
    <2>1. CASE /\ Open(at.step, FALSE, dirty)
               /\ lost' = lost \cup Missing \cup (IF Asks THEN {} ELSE Unsaved)
               /\ UNCHANGED exposed
        <3>1. at.step \in Steps /\ dirty \in BOOLEAN
            BY DEF TypeOK
        <3>2. lost' \subseteq exposed'
            BY <1>1, <2>1, LeavingLoses
        <3> QED BY <1>1, <2>1, <3>1, <3>2, LossOpens
    <2>2. CASE UNCHANGED <<at, form, stored, load, flags, dirty, history>>
        BY <1>2, <2>2, LossKeeps DEF history
    <2> QED BY <1>6, <2>1, <2>2 DEF OutletSucceeds
<1> QED BY <1>4, <1>5, <1>6

LEMMA LossStep == ASSUME TypeOK, CallsOK, LossOK, Next PROVE LossOK'
<1>1. ASSUME UNCHANGED <<at, form, stored, load, flags, dirty, history>>, Unapplied
      PROVE  LossOK'
    BY <1>1, LossKeeps DEF history
<1>2. CASE Progresses
    <2>1. Unapplied
        BY <1>2 DEF Progresses, ReadProgress, ShowProgress, FailProgress, Unapplied
    <2> QED BY <1>1, <1>2, <2>1 DEF Progresses, ReadProgress, ShowProgress, FailProgress
<1>3. ASSUME NEW i \in Calls, Fails(i) PROVE LossOK'
    <2>1. Unapplied
        BY <1>3, EndUnapplied DEF Fails
    <2>2. UNCHANGED <<at, form, stored, load, dirty, history>>
        BY <1>3 DEF Fails
    <2> QED BY <2>1, <2>2, LossKeeps DEF history
<1>4. ASSUME NEW i \in Calls, Dismiss(i) PROVE LossOK'
    <2>1. Unapplied
        <3>1. calls[i] \in CallType
            BY DEF TypeOK
        <3> QED BY <1>4, <3>1, ModalEffect DEF Dismiss, Unapplied, CallType
    <2> QED BY <1>1, <1>4, <2>1 DEF Dismiss
<1> QED BY <1>2, <1>3, <1>4, LossLoads, LossEdit, LossSends, LossLeaves, LossApply, LossSaved,
           LossAnswers
    DEF Next, Responds, Succeeds

LEMMA AppliedKept ==
    ASSUME TypeOK, Next
    PROVE  \A i \in Calls : calls[i].phase = "applied" =>
               \/ calls'[i].phase = "applied"
               \/ Succeeds(i) \/ Fails(i)
<1>1. ASSUME NEW k \in Calls, Apply(k) \/ Dismiss(k), NEW i \in Calls,
             calls[i].phase = "applied"
      PROVE  calls'[i].phase = "applied"
    <2>1. CASE Apply(k)
        <3>1. calls[k] \in CallType
            BY DEF TypeOK
        <3> QED BY <1>1, <2>1, <3>1, PhaseEffect DEF Apply, CallType
    <2>2. CASE Dismiss(k)
        <3>1. calls[k] \in CallType
            BY DEF TypeOK
        <3> QED BY <1>1, <2>2, <3>1, ModalEffect DEF Dismiss, CallType
    <2> QED BY <1>1, <2>1, <2>2
<1>2. ASSUME NEW k \in Calls, Ended(k), NEW i \in Calls, i # k
      PROVE  calls'[i] = calls[i]
    BY <1>2, EndEffect
<1>3. ASSUME NEW button, NEW content, NEW onward, NEW modal,
             Send(button, content, onward, modal), NEW i \in Calls,
             calls[i].phase = "applied"
      PROVE  calls'[i].phase = "applied"
    <2>1. PICK k \in Calls :
            /\ calls[k].phase = "idle"
            /\ calls' = [calls EXCEPT ![k] =
                   [button |-> button, visit |-> at.visit, content |-> content,
                    from |-> Origin(Step), onward |-> onward, modal |-> modal,
                    phase |-> "sent"]]
        BY <1>3 DEF Send
    <2>2. i # k
        BY <1>3, <2>1
    <2> QED BY <1>3, <2>1, <2>2 DEF TypeOK
<1> SUFFICES ASSUME NEW i \in Calls, calls[i].phase = "applied"
             PROVE  calls'[i].phase = "applied" \/ Succeeds(i) \/ Fails(i)
    OBVIOUS
<1>4. CASE Loads \/ Progresses
    BY <1>4 DEF Loads, ReadStep, ShowStep, ShowPlace, FailToLoad, Progresses,
                ReadProgress, ShowProgress, FailProgress
<1>5. CASE \E control \in {"typed", "marked", "reset", "silent"} : Edit(control)
    BY <1>5 DEF Edit
<1>6. CASE \/ \E onward \in BOOLEAN : PressSave(onward)
           \/ PressRevert
           \/ \E modal \in {"no", "open"} : PressDialog(modal)
           \/ Submit \/ Decide \/ Return
    BY <1>3, <1>6 DEF PressSave, PressRevert, PressDialog, Submit, Decide, Return, PressOutlet
<1>7. CASE OpenFromSidebar \/ LeaveWorkflow
    BY <1>7 DEF OpenFromSidebar, LeaveWorkflow, Leave
<1>8. ASSUME NEW k \in Calls, Succeeds(k) \/ Fails(k)
      PROVE  calls'[i].phase = "applied" \/ Succeeds(i) \/ Fails(i)
    <2>1. Ended(k)
        BY <1>8 DEF Succeeds, Answered, SaveSucceeds, RevertSucceeds, DialogSucceeds,
                    OutletSucceeds, Fails
    <2> QED BY <1>2, <1>8, <2>1
<1> QED BY <1>1, <1>4, <1>5, <1>6, <1>7, <1>8 DEF Next, Responds

\* A request that ends after it was applied asks for the progress, or is missed.
LEMMA EndTells ==
    ASSUME TypeOK, NEW i \in Calls, calls[i].phase = "applied", Succeeds(i) \/ Fails(i)
    PROVE  /\ sidebar'.answer = "sent" \/ ~sidebar'.alive \/ sidebar'.missed
           /\ sidebar'.answer = "old" => ~sidebar'.alive \/ sidebar'.missed
<1>1. sidebar' = Refresh(sidebar) \/ sidebar' = [sidebar EXCEPT !.missed = TRUE]
    BY DEF Notify, Succeeds, SaveSucceeds, RevertSucceeds, DialogSucceeds, OutletSucceeds,
           Fails
<1>2. CASE sidebar' = Refresh(sidebar)
    BY <1>2 DEF Refresh, TypeOK, SidebarType
<1>3. CASE sidebar' = [sidebar EXCEPT !.missed = TRUE]
    BY <1>3 DEF TypeOK, SidebarType
<1> QED BY <1>1, <1>2, <1>3

LEMMA SidebarStep == ASSUME TypeOK, CallsOK, SidebarOK, Next PROVE SidebarOK'
<1> DEFINE Settles == sidebar.stale => sidebar.answer # "none" \/ Told
<1>0. InWorkflow
    BY StepCases
<1>1. Settles /\ (sidebar.answer = "old" => Told)
    BY <1>0 DEF SidebarOK, SidebarIsTold, Told
<1>2. ASSUME Settles', (sidebar.answer = "old" => Told)' PROVE SidebarOK'
    BY <1>2 DEF SidebarOK, SidebarIsTold, Told
<1>3. ASSUME NEW i \in Calls, Succeeds(i) \/ Fails(i), calls[i].phase = "applied"
      PROVE  Settles' /\ (sidebar.answer = "old" => Told)'
    BY <1>3, EndTells DEF Told
<1>4. ASSUME NEW i \in Calls, Apply(i)
      PROVE  Settles' /\ (sidebar.answer = "old" => Told)'
    <2>1. calls'[i].phase = "applied"
        <3>1. calls[i] \in CallType
            BY DEF TypeOK
        <3> QED BY <1>4, <3>1, PhaseEffect DEF Apply, CallType
    <2> QED BY <2>1 DEF Told
<1>5. ASSUME ReadProgress PROVE Settles' /\ (sidebar.answer = "old" => Told)'
    BY <1>1, <1>5 DEF ReadProgress, Told, TypeOK, SidebarType
<1>6. ASSUME ShowProgress PROVE Settles' /\ (sidebar.answer = "old" => Told)'
    BY <1>1, <1>6 DEF ShowProgress, Told, TypeOK, SidebarType
<1>7. ASSUME FailProgress PROVE Settles' /\ (sidebar.answer = "old" => Told)'
    BY <1>7 DEF FailProgress, Told, TypeOK, SidebarType
<1>8. ASSUME UNCHANGED sidebar,
             \A i \in Calls : calls[i].phase = "applied" => ~Succeeds(i) /\ ~Fails(i)
      PROVE  Settles' /\ (sidebar.answer = "old" => Told)'
    <2>1. \A i \in Calls : calls[i].phase = "applied" => calls'[i].phase = "applied"
        BY <1>8, AppliedKept
    <2> QED BY <1>1, <1>8, <2>1 DEF Told
<1>9. ASSUME ~Progresses, \A i \in Calls : ~Apply(i),
             \A i \in Calls : calls[i].phase = "applied" => ~Succeeds(i) /\ ~Fails(i)
      PROVE  UNCHANGED sidebar
    <2>1. ASSUME NEW i \in Calls, Succeeds(i) PROVE FALSE
        BY <1>9, <2>1 DEF Succeeds, Answered, SaveSucceeds, RevertSucceeds, DialogSucceeds,
                          OutletSucceeds
    <2>2. ASSUME NEW i \in Calls, Fails(i) PROVE UNCHANGED sidebar
        BY <1>9, <2>2 DEF Fails
    <2>3. ASSUME NEW i \in Calls, Dismiss(i) PROVE UNCHANGED sidebar
        BY <2>3 DEF Dismiss
    <2>4. CASE Loads
        BY <2>4 DEF Loads, ReadStep, ShowStep, ShowPlace, FailToLoad
    <2>5. CASE \E control \in {"typed", "marked", "reset", "silent"} : Edit(control)
        BY <2>5 DEF Edit
    <2>6. CASE \/ \E onward \in BOOLEAN : PressSave(onward)
               \/ PressRevert
               \/ \E modal \in {"no", "open"} : PressDialog(modal)
               \/ Submit \/ Decide \/ Return
        BY <2>6 DEF PressSave, PressRevert, PressDialog, Submit, Decide, Return, PressOutlet
    <2>7. CASE OpenFromSidebar \/ LeaveWorkflow
        BY <2>7 DEF OpenFromSidebar, LeaveWorkflow, Leave
    <2> QED BY <1>9, <2>1, <2>2, <2>3, <2>4, <2>5, <2>6, <2>7 DEF Next, Responds
<1> QED BY <1>2, <1>3, <1>4, <1>5, <1>6, <1>7, <1>8, <1>9 DEF Progresses

-----------------------------------------------------------------------------
LEMMA InitIInv == Init => IInv
<1> SUFFICES ASSUME Init PROVE IInv
    OBVIOUS
<1>1. \A i \in Calls : calls[i] = NoCall("idle") /\ ~Pending(i)
    BY DEF Init, Pending, NoCall
<1>2. TypeOK
    <2>1. calls \in [Calls -> CallType]
        BY NoCallType DEF Init
    <2>2. at \in [visit : 0..MaxVisits, step : Steps]
        BY StepsAssumption, BoundsAssumption DEF Init
    <2>3. sidebar \in SidebarType
        BY DEF Init, FirstSidebar, SidebarType
    <2> QED BY <2>1, <2>2, <2>3, EditsFacts DEF Init, TypeOK
<1>3. CallsOK /\ PlaceOK /\ RevertOK
    BY <1>1 DEF Init, CallsOK, PlaceOK, FreshLoad, RevertOK
<1>4. BlankOK
    BY <1>1 DEF Init, BlankOK, BlankOnlyUnloaded, KeepsFirst, FreshLoad, Shown
<1>5. SidebarOK
    BY DEF Init, SidebarOK, SidebarIsTold, FirstSidebar
<1>6. LossOK
    BY <1>1, BoundsAssumption
    DEF Init, LossOK, InWorkflow, Watched, WatchedShown, WatchedSent, WatchedApplied
<1> QED BY <1>2, <1>3, <1>4, <1>5, <1>6 DEF IInv

LEMMA NextIInv == IInv /\ [Next]_vars => IInv'
<1> SUFFICES ASSUME IInv, [Next]_vars PROVE IInv'
    OBVIOUS
<1>1. CASE Next
    BY <1>1, TypeStep, CallsStep, PlaceStep, BlankStep, RevertStep, SidebarStep, LossStep
    DEF IInv
<1>2. CASE UNCHANGED vars
    BY <1>2 DEF vars, flags, history, IInv, TypeOK, CallsOK, PlaceOK, BlankOK,
                BlankOnlyUnloaded, KeepsFirst, Shown, Loading, RevertOK, SidebarOK, SidebarIsTold, Told, Pending, Own,
                InWorkflow, Step, LossOK, Watched, WatchedShown, WatchedSent,
                WatchedApplied
<1> QED BY <1>1, <1>2

\* The inductive invariant of the proposal and update steps holds in every state.
THEOREM Invariance == Spec => []IInv
BY InitIInv, NextIInv, PTL DEF Spec

\* Every variable keeps its type; above all, the step that saveStep continues
\* with exists.
THEOREM TypeCorrect == Spec => []TypeOK
<1>1. IInv => TypeOK
    BY DEF IInv
<1> QED BY <1>1, Invariance, PTL

\* Save erases what the user never saw only in the steps whose onSave does not ask
\* whether the data has come, and after a failed load.
THEOREM Blank == Spec => []BlankOnlyUnloaded
<1>1. IInv => BlankOnlyUnloaded
    BY DEF IInv, BlankOK
<1> QED BY <1>1, Invariance, PTL

\* unsaved-changes.guard.ts, trackFormDirty, saveStep: every edit that is gone
\* without a question is one that `exposed' names; no interleaving of edits,
\* saves, reverts, dialogs, reloads and late answers loses another.
THEOREM NothingLost == Spec => []NoSilentLoss
<1>1. IInv => NoSilentLoss
    <2>1. ASSUME LossOK PROVE Missing \subseteq exposed
        BY <2>1 DEF LossOK, Missing, Watched, WatchedShown
    <2> QED BY <2>1 DEF IInv, LossOK, NoSilentLoss
<1> QED BY <1>1, Invariance, PTL

\* Submit, and leaving without a question: while formDirty$ is FALSE the server has
\* every edit that `exposed' does not name.
THEOREM CleanStored == Spec => []CleanIsStored
<1>1. IInv => CleanIsStored
    BY DEF IInv, LossOK, WatchedShown, Watched, CleanIsStored
<1> QED BY <1>1, Invariance, PTL

\* After a revert the step shows what the server holds, whichever answers of
\* earlier steps and requests arrive meanwhile.
THEOREM Reverted == Spec => []RevertedIsShown
<1>1. IInv => RevertedIsShown
    BY DEF IInv, RevertOK, RevertedIsShown, Loading
<1> QED BY <1>1, Invariance, PTL

\* The sidebar's old progress is being fetched again, unless its stream ended
\* or a request ended without telling it.
THEOREM SidebarTold == Spec => []SidebarIsTold
<1>1. IInv => SidebarIsTold
    BY DEF IInv, SidebarOK
<1> QED BY <1>1, Invariance, PTL
=============================================================================
