-------------------------- MODULE EditDialogProofs --------------------------
(***************************************************************************)
(* The safety properties of EditDialog, for every table of dialogs and     *)
(* any number of presses of Save.                                          *)
(*                                                                         *)
(* The invariant follows the chains of requests: where the row stored by a *)
(* stage is accounted for (by a chain that is past the stage, by one that  *)
(* finished, was cut short, or lost an answer), that what the server still *)
(* applies late was given up after such an error, and, for the dialogs     *)
(* that disable Save while it runs, that one chain flies at a time and     *)
(* none after the page was told.                                           *)
(***************************************************************************)
EXTENDS EditDialog, TLAPS

\* Chains fly within their plan; an open dialog has finished nothing.
ChainsOK ==
    /\ \A i \in Presses : chain[i] <= Len(plan)
    /\ \A i \in Presses : i > pressed => chain[i] = 0
    /\ Open => finished = 0
    /\ result = "nothing" /\ ~abandoned => Quiet /\ finished = 0
    /\ result = "result" /\ dialog.partial = "stays" => finished > 0

\* What was stored is accounted for.
StoredOK ==
    /\ \A s \in 1..Len(plan) : \A i \in Presses : chain[i] > s => stored[s] >= 1
    /\ finished > 0 => \A s \in 1..Len(plan) : stored[s] >= 1
    /\ \A s \in 1..Len(plan) :
          lost = 0 /\ cut = 0 /\ finished = 0 /\ stored[s] > 0
              => \E i \in Presses : chain[i] > s

\* A guarded dialog has one chain in flight, and none once it told the page.
GuardedOK ==
    dialog.guardsSave =>
        /\ \A i, j \in Presses : Flying(i) /\ Flying(j) => i = j
        /\ Open /\ ~Quiet => saving
        /\ result = "result" => Quiet
        /\ finished = 0 \/ (finished = 1 /\ Quiet /\ ~Open)

NoFiles == \A s \in 1..Len(plan) : plan[s] \notin Batches

\* What is applied late was given up after an error.
LateOK ==
    \A s \in Slots : late[s] > 0 => lost > 0 \/ (AtOnce /\ cut > 0)

\* The last stage is stored by the chains that finish or lose an answer.
LastOK ==
    NoFiles => \A s \in 1..Len(plan) : s = Len(plan) => stored[s] + late[s] <= finished + lost

\* In a dialog that reports a result although a later request failed, a
\* chain that is cut short is the last one.
ReportsOK ==
    dialog.guardsSave /\ NoFiles /\ dialog.partial = "reports" =>
        /\ cut + finished = 0 \/ (cut + finished = 1 /\ Quiet /\ ~Open)
        /\ \A s \in 1..Len(plan) :
              stored[s] + late[s] <= lost + cut + finished
                             + (IF \E i \in Presses : chain[i] > s THEN 1 ELSE 0)

BlankOK ==
    /\ \A i \in Presses : i <= pressed /\ ~sent[i] =>
          dialog.data = "eager" \/ (dialog.data = "lenient" /\ form = "failed")
    /\ BlankOnlyUnloaded

IInv ==
    /\ TypeOK /\ ChainsOK /\ StoredOK /\ GuardedOK /\ LastOK /\ ReportsOK /\ BlankOK
    /\ LateOK

-----------------------------------------------------------------------------
\* What the table says of the dialog and of its plan.
LEMMA RowFacts ==
    ASSUME TypeOK
    PROVE  /\ plan \in Seq(Stages) /\ (Len(plan) = 1 \/ Len(plan) = 2)
           /\ dialog.guardsSave \in BOOLEAN
           /\ dialog.partial \in {"stays", "reports"}
           /\ dialog.refused \in {"stays", "closes"}
           /\ dialog.data \in {"given", "strict", "lenient", "eager"}
<1>1. dialog \in DialogType
  BY DialogsAssumption DEF TypeOK
<1>2. plan \in Plans
  <2>1. CASE mode = "create"
    BY <1>1, <2>1 DEF TypeOK, DialogType
  <2>2. CASE mode = "edit"
    BY <1>1, <2>2 DEF TypeOK, DialogType
  <2>q. QED BY <2>1, <2>2 DEF TypeOK
<1>3. plan \in Seq(Stages) /\ (Len(plan) = 1 \/ Len(plan) = 2)
  BY <1>2 DEF Plans, MaxStages
<1>q. QED BY <1>1, <1>3 DEF DialogType

LEMMA StageRange ==
    ASSUME TypeOK
    PROVE  \A s \in 1..Len(plan) :
              s \in 1..2 /\ stored[s] \in Nat /\ late[s] \in Nat
<1>1. Len(plan) = 1 \/ Len(plan) = 2
  BY RowFacts
<1>2. \A s \in 1..Len(plan) : s \in 1..2
  <2>1. CASE Len(plan) = 1
    BY <2>1
  <2>2. CASE Len(plan) = 2
    BY <2>2
  <2>q. QED BY <1>1, <2>1, <2>2
<1>q. QED BY <1>2 DEF TypeOK, Slots, MaxStages

LEMMA Slack ==
    ASSUME NEW a \in Nat, NEW b \in Nat, NEW P, a <= b
    PROVE  a <= b + (IF P THEN 1 ELSE 0)
OBVIOUS

LEMMA InitInvariant == Init => IInv
<1> SUFFICES ASSUME Init PROVE IInv
  OBVIOUS
<1> USE SavesAssumption
<1>1. TypeOK
  <2>1. form \in {"unloaded", "failed", "loaded"}
    BY DEF Init
  <2>2. saving \in BOOLEAN /\ blank \in BOOLEAN /\ abandoned \in BOOLEAN
    BY DEF Init
  <2>3. stored \in [Slots -> Nat] /\ late \in [Slots -> Nat] /\ creating \in BOOLEAN
    BY DEF Init
  <2>4. /\ pressed \in 0..MaxSaves
        /\ chain \in [Presses -> 0..MaxStages]
        /\ sent \in [Presses -> BOOLEAN]
    BY DEF Init, MaxStages, Presses
  <2>q. QED BY <2>1, <2>2, <2>3, <2>4 DEF Init, TypeOK
<1>2. /\ (Len(plan) = 1 \/ Len(plan) = 2) /\ dialog.guardsSave \in BOOLEAN
  BY <1>1, RowFacts
<1>3. ChainsOK /\ GuardedOK /\ BlankOK
  BY <1>2 DEF Init, ChainsOK, GuardedOK, BlankOK, BlankOnlyUnloaded, Presses, Open, Quiet, Flying
<1>4. stored[1] = 0 /\ stored[2] = 0 /\ late[1] = 0 /\ late[2] = 0
  BY DEF Init, Slots, MaxStages
<1>5. \A t \in 1..Len(plan) : t \in 1..2 /\ stored[t] = 0 /\ late[t] = 0
  <2>1. CASE Len(plan) = 1
    BY <1>4, <2>1
  <2>2. CASE Len(plan) = 2
    BY <1>4, <2>2
  <2>q. QED BY <1>2, <2>1, <2>2
<1>6. \A s \in 1..Len(plan) : stored[s] + late[s] = 0
  BY <1>5
<1>7. lost = 0 /\ cut = 0 /\ finished = 0 /\ \A i \in Presses : chain[i] = 0
  BY DEF Init
<1>8. StoredOK
  BY <1>2, <1>5, <1>7 DEF StoredOK
<1>9. LastOK
  BY <1>6, <1>7 DEF LastOK
<1>10. ReportsOK
  BY <1>2, <1>6, <1>7 DEF ReportsOK, Quiet, Flying, Presses
<1>11. LateOK
  BY DEF Init, LateOK
<1>q. QED BY <1>1, <1>3, <1>8, <1>9, <1>10, <1>11 DEF IInv

-----------------------------------------------------------------------------
\* Every action keeps the types.
LEMMA TypeStep ==
    ASSUME TypeOK, ChainsOK, [Next]_vars
    PROVE  TypeOK'
<1> USE SavesAssumption DEF TypeOK, constants
<1>1. ASSUME NEW o \in {"loaded", "failed"}, Load(o) PROVE TypeOK'
  BY <1>1 DEF Load
<1>2. CASE PressSave
  <2>1. sent' \in [Presses -> BOOLEAN] /\ saving' \in BOOLEAN
    BY <1>2 DEF PressSave, StartSaving, SaveEnabled
  <2>q. QED BY <1>2, <2>1 DEF PressSave, Presses, MaxStages, StartSaving, SaveEnabled
<1>3. ASSUME NEW i \in Presses, Respond(i) PROVE TypeOK'
  <2>1. (Len(plan) = 1 \/ Len(plan) = 2)
    BY RowFacts
  <2>2. ASSUME Flying(i), Apply(i) PROVE stored' \in [Slots -> Nat] /\ blank' \in BOOLEAN
    <3>1. stored' \in [Slots -> Nat]
      BY <2>2 DEF Apply, Flying, Slots, MaxStages
    <3>2. blank' \in BOOLEAN
      BY <2>2 DEF Apply
    <3>q. QED BY <3>1, <3>2
  <2>3. ASSUME ShowError(i)
        PROVE  /\ chain' \in [Presses -> 0..MaxStages]
               /\ saving' \in BOOLEAN /\ abandoned' \in BOOLEAN
               /\ result' \in {"none", "result", "nothing"}
               /\ UNCHANGED <<constants, form, pressed, sent, creating, finished>>
    <3>1. chain' \in [Presses -> 0..MaxStages]
      BY <2>3 DEF ShowError, MaxStages, StopSaving
    <3>2. saving' \in BOOLEAN /\ abandoned' \in BOOLEAN
      BY <2>3 DEF ShowError, StopSaving
    <3>q. QED BY <2>3, <3>1, <3>2 DEF ShowError, StopSaving
  <2>4. CASE NextStage(i)
    <3>1. chain[i] \in 0..2
      BY DEF MaxStages
    <3>2. chain[i] < Len(plan) /\ chain' = [chain EXCEPT ![i] = chain[i] + 1]
      <4>1. chain[i] # Len(plan) /\ chain[i] <= Len(plan)
        BY <2>4 DEF NextStage, LastRequest, ChainsOK
      <4>q. QED BY <2>1, <2>4, <3>1, <4>1 DEF NextStage
    <3>3. chain[i] + 1 \in 0..2
      <4>1. CASE Len(plan) = 1
        BY <3>1, <3>2, <4>1
      <4>2. CASE Len(plan) = 2
        BY <3>1, <3>2, <4>2
      <4>q. QED BY <2>1, <4>1, <4>2
    <3>4. chain' \in [Presses -> 0..MaxStages]
      BY <3>2, <3>3 DEF MaxStages
    <3>q. QED BY <2>2, <2>4, <3>4 DEF NextStage, LastRequest
  <2>5. CASE Finish(i)
    <3>1. Flying(i) /\ Apply(i)
      BY <2>1, <2>5 DEF Finish, Flying, LastRequest, Tell
    <3>2. chain' \in [Presses -> 0..MaxStages] /\ finished' \in Nat
      BY <2>5 DEF Finish, MaxStages, LastRequest, Tell
    <3>3. result' \in {"none", "result", "nothing"}
      BY <2>5 DEF Finish, LastRequest, Tell
    <3>q. QED BY <2>2, <2>5, <3>1, <3>2, <3>3 DEF Finish, LastRequest, Tell
  <2>6. CASE Refuse(i)
    BY <2>3, <2>6 DEF Refuse
  <2>7. ASSUME Flying(i), AppliedBefore(i) \/ AppliedLate(i) \/ AppliedInParts(i)
        PROVE  stored' \in [Slots -> Nat] /\ blank' \in BOOLEAN /\ late' \in [Slots -> Nat]
    <3>1. LeaveLate(chain[i]) => late' \in [Slots -> Nat]
      BY DEF LeaveLate, Slots, MaxStages
    <3>2. CASE AppliedBefore(i)
      BY <2>2, <2>7, <3>2 DEF AppliedBefore
    <3>3. CASE AppliedLate(i)
      BY <3>1, <3>3 DEF AppliedLate
    <3>4. CASE AppliedInParts(i)
      BY <2>2, <2>7, <3>1, <3>4 DEF AppliedInParts
    <3>q. QED BY <2>7, <3>2, <3>3, <3>4
  <2>8. CASE RefuseSome(i) \/ LoseAnswer(i)
    BY <2>3, <2>7, <2>8 DEF RefuseSome, LoseAnswer
  <2>q. QED BY <1>3, <2>4, <2>5, <2>6, <2>8 DEF Respond
<1>4. ASSUME NEW s \in Slots, ApplyLate(s) PROVE TypeOK'
  <2>1. stored' \in [Slots -> Nat] /\ late' \in [Slots -> Nat]
    BY <1>4 DEF ApplyLate
  <2>2. blank' \in BOOLEAN
    BY <1>4 DEF ApplyLate
  <2>q. QED BY <1>4, <2>1, <2>2 DEF ApplyLate
<1>5. CASE CreateTag
  BY <1>5 DEF CreateTag
<1>6. CASE AnswerTag
  <2>1. stored' \in [Slots -> Nat]
    BY <1>6 DEF AnswerTag, StoreTag, Slots, MaxStages
  <2>2. late' \in [Slots -> Nat]
    BY <1>6 DEF AnswerTag, LeaveLate, Slots, MaxStages
  <2>3. lost' = lost \/ lost' = lost + 1
    BY <1>6 DEF AnswerTag
  <2>4. creating' \in BOOLEAN
    BY <1>6 DEF AnswerTag
  <2>q. QED BY <1>6, <2>1, <2>2, <2>3, <2>4 DEF AnswerTag
<1>7. CASE Cancel \/ Dismiss
  <2>1. abandoned' \in BOOLEAN
    BY <1>7 DEF Cancel, Dismiss, CloseWithNothing
  <2>q. QED BY <1>7, <2>1 DEF Cancel, Dismiss, CloseWithNothing
<1>8. CASE UNCHANGED vars
  BY <1>8 DEF vars
<1>q. QED BY <1>1, <1>2, <1>3, <1>7, <1>8, <1>4, <1>5, <1>6 DEF Next

-----------------------------------------------------------------------------
\* What the request in flight does to the database.
LEMMA ApplyFacts ==
    ASSUME TypeOK, ChainsOK, NEW i \in Presses, Flying(i), Apply(i)
    PROVE  /\ chain[i] \in 1..Len(plan)
           /\ stored'[chain[i]] = stored[chain[i]] + 1
           /\ \A s \in 1..Len(plan) : s # chain[i] => stored'[s] = stored[s]
           /\ \A s \in 1..Len(plan) : stored[s] \in Nat
<1>1. (Len(plan) = 1 \/ Len(plan) = 2)
  BY RowFacts
<1>2. chain[i] \in 0..2 /\ chain[i] <= Len(plan)
  BY DEF TypeOK, ChainsOK, MaxStages
<1>3. chain[i] \in 1..Len(plan)
  BY <1>1, <1>2 DEF Flying
<1>4. stored \in [0..2 -> Nat]
  BY DEF TypeOK, Slots, MaxStages
<1>5. \A s \in 1..Len(plan) : s \in 1..2
  <2>1. CASE Len(plan) = 1
    BY <2>1
  <2>2. CASE Len(plan) = 2
    BY <2>2
  <2>q. QED BY <1>1, <2>1, <2>2
<1>6. stored' = [stored EXCEPT ![chain[i]] = @ + 1]
  BY DEF Apply
<1>q. QED BY <1>3, <1>4, <1>5, <1>6

\* A request that is applied, or left to be applied late, is held once more.
LEMMA HeldStep ==
    ASSUME TypeOK, ChainsOK, NEW i \in Presses, Flying(i), NEW c, c = chain[i],
           (Apply(i) /\ UNCHANGED late) \/ AppliedLate(i)
    PROVE  /\ c \in 1..Len(plan)
           /\ \A s \in 1..Len(plan) :
                /\ stored[s] \in Nat /\ late[s] \in Nat
                /\ stored'[s] \in Nat /\ late'[s] \in Nat
                /\ s = c => stored'[s] + late'[s] = stored[s] + late[s] + 1
                /\ s # c => stored'[s] + late'[s] = stored[s] + late[s]
                /\ stored'[s] >= stored[s]
<1>1. \A s \in 1..Len(plan) :
         s \in 1..2 /\ stored[s] \in Nat /\ late[s] \in Nat
  BY StageRange
<1>2. c \in 1..Len(plan)
  <2>1. (Len(plan) = 1 \/ Len(plan) = 2)
    BY RowFacts
  <2>2. c \in 0..2 /\ c <= Len(plan)
    BY DEF TypeOK, ChainsOK, MaxStages
  <2>q. QED BY <2>1, <2>2 DEF Flying
<1>3. \A s \in 1..Len(plan) :
         \/ stored'[s] = stored[s] /\ late'[s] = late[s] /\ s # c
         \/ stored'[s] = stored[s] + 1 /\ late'[s] = late[s] /\ s = c
         \/ stored'[s] = stored[s] /\ late'[s] = late[s] + 1 /\ s = c
  <2>1. CASE Apply(i) /\ UNCHANGED late
    BY <2>1, ApplyFacts
  <2>2. CASE AppliedLate(i)
    BY <1>1, <1>2, <2>2 DEF AppliedLate, LeaveLate, TypeOK, Slots, MaxStages
  <2>q. QED BY <2>1, <2>2
<1>q. QED BY ONLY <1>1, <1>2, <1>3

\* However a request ends after it left the client, no row is lost by it.
LEMMA StoredGrows ==
    ASSUME TypeOK, ChainsOK, NEW i \in Presses, Flying(i),
           AppliedBefore(i) \/ AppliedLate(i) \/ AppliedInParts(i)
    PROVE  /\ chain[i] \in 1..Len(plan)
           /\ \A s \in 1..Len(plan) :
                /\ stored[s] \in Nat /\ stored'[s] \in Nat /\ stored'[s] >= stored[s]
                /\ late'[s] \in Nat
<1>1. \A s \in 1..Len(plan) : s \in 1..2 /\ stored[s] \in Nat /\ late[s] \in Nat
  BY StageRange
<1>2. LeaveLate(chain[i]) \/ UNCHANGED late
  BY DEF AppliedBefore, AppliedLate, AppliedInParts
<1>3. \A s \in 1..Len(plan) : late'[s] = late[s] \/ late'[s] = late[s] + 1
  BY <1>1, <1>2 DEF LeaveLate, TypeOK, Slots, MaxStages
<1>4. CASE Apply(i)
  BY <1>1, <1>3, <1>4, ApplyFacts
<1>5. CASE AppliedLate(i)
  <2>1. chain[i] \in 1..Len(plan)
    BY <1>5, HeldStep
  <2>q. QED BY <1>1, <1>3, <1>5, <2>1 DEF AppliedLate
<1>q. QED BY <1>4, <1>5 DEF AppliedBefore, AppliedInParts

\* What the error handler does to the chains and to the dialog.
LEMMA ErrorFacts ==
    ASSUME TypeOK, NEW i \in Presses, ShowError(i)
    PROVE  /\ chain'[i] = 0 /\ \A j \in Presses \ {i} : chain'[j] = chain[j]
           /\ ~saving'
           /\ Open => \/ result' = "none"
                      \/ result' = "nothing" /\ chain[i] = 1
                      \/ result' = "result" /\ chain[i] # 1 /\ dialog.partial = "reports"
           /\ ~Open => result' = result
           /\ Open /\ result' = "nothing" /\ ~abandoned' =>
                 \A j \in Presses \ {i} : ~Flying(j)
           /\ Open /\ chain[i] # 1 /\ dialog.partial = "reports" => result' = "result"
           /\ abandoned => abandoned'
           /\ UNCHANGED <<constants, form, pressed, sent, creating, finished>>
<1>1. chain'[i] = 0 /\ \A j \in Presses \ {i} : chain'[j] = chain[j]
  BY DEF ShowError, TypeOK, StopSaving
<1>2. /\ Open => \/ result' = "none"
                 \/ result' = "nothing" /\ chain[i] = 1
                 \/ result' = "result" /\ chain[i] # 1 /\ dialog.partial = "reports"
      /\ Open /\ chain[i] # 1 /\ dialog.partial = "reports" => result' = "result"
  <2>1. CASE chain[i] = 1
    BY <2>1 DEF ShowError, Open, TypeOK, StopSaving
  <2>2. CASE chain[i] # 1
    BY <2>2 DEF ShowError, Open, TypeOK, StopSaving
  <2>q. QED BY <2>1, <2>2
<1>3. Open /\ result' = "nothing" /\ ~abandoned' => \A j \in Presses \ {i} : ~Flying(j)
  BY DEF ShowError, StopSaving
<1>4. abandoned => abandoned'
  BY DEF ShowError, StopSaving
<1>q. QED BY <1>1, <1>2, <1>3, <1>4 DEF ShowError, StopSaving

-----------------------------------------------------------------------------
\* Each action keeps the invariant.
LEMMA PressSaveInvariant ==
    ASSUME IInv, PressSave
    PROVE  ChainsOK' /\ StoredOK' /\ GuardedOK' /\ LastOK' /\ ReportsOK' /\ BlankOK'
<1> USE SavesAssumption DEF IInv
<1>1. (Len(plan) = 1 \/ Len(plan) = 2) /\ dialog.guardsSave \in BOOLEAN
  BY RowFacts
<1>2. /\ pressed \in Nat /\ pressed' = pressed + 1 /\ pressed' \in Presses
      /\ chain[pressed'] = 0
      /\ chain'[pressed'] = 1
      /\ \A j \in Presses \ {pressed'} : chain'[j] = chain[j]
  BY DEF PressSave, TypeOK, Presses, ChainsOK, StartSaving, SaveEnabled
<1>3. \A j \in Presses : chain[j] \in 0..2
  BY DEF TypeOK, MaxStages
<1>4. UNCHANGED <<dialog, mode, plan, form, stored, late, blank, lost, cut, finished, result, abandoned>>
  BY DEF PressSave, constants, StartSaving, SaveEnabled
<1>5. Open /\ Open' /\ saving' /\ finished = 0
  BY <1>4 DEF PressSave, Open, ChainsOK, StartSaving, SaveEnabled
<1>6. ChainsOK'
  <2>1. \A j \in Presses : chain'[j] <= Len(plan)
    <3>1. 1 <= Len(plan)
      BY <1>1
    <3>q. QED BY <1>2, <3>1 DEF ChainsOK
  <2>2. \A j \in Presses : j > pressed' => chain'[j] = 0
    BY <1>2 DEF ChainsOK, Presses
  <2>q. QED BY <1>4, <1>5, <2>1, <2>2 DEF ChainsOK, Open
<1>7. StoredOK'
  <2>1. \A j \in Presses : \A s \in 1..Len(plan) : chain'[j] > s <=> chain[j] > s
    BY <1>2, <1>3
  <2>q. QED BY <1>4, <2>1 DEF StoredOK
<1>8. GuardedOK'
  <2>1. dialog.guardsSave => \A j \in Presses : chain[j] = 0
    BY <1>5 DEF GuardedOK, PressSave, Quiet, Flying, StartSaving, SaveEnabled
  <2>q. QED BY <1>2, <1>4, <1>5, <2>1 DEF GuardedOK, Quiet, Flying, Open
<1>9. LastOK'
  BY <1>4 DEF LastOK, NoFiles
<1>10. ReportsOK'
  <2>1. \A j \in Presses : \A s \in 1..Len(plan) : chain'[j] > s <=> chain[j] > s
    BY <1>2, <1>3
  <2>2. (\A s \in 1..Len(plan) : (\E j \in Presses : chain[j] > s) <=> (\E j \in Presses : chain'[j] > s))
    BY <2>1
  <2>q. QED BY <1>4, <1>5, <2>2 DEF ReportsOK, NoFiles, Open
<1>11. BlankOK'
  <2>1. form \in {"unloaded", "failed", "loaded"}
    BY DEF TypeOK
  <2>2. \/ form = "loaded"
        \/ dialog.data = "eager"
        \/ dialog.data = "lenient" /\ form = "failed"
    BY <2>1 DEF PressSave, CanSave, StartSaving, SaveEnabled
  <2>3. sent'[pressed'] = (form = "loaded")
        /\ \A j \in Presses \ {pressed'} : sent'[j] = sent[j]
    BY <1>2 DEF PressSave, TypeOK, StartSaving, SaveEnabled
  <2>4. BlankOnlyUnloaded'
    BY <1>4 DEF BlankOK, BlankOnlyUnloaded
  <2>5. \A j \in Presses : j <= pressed' => j <= pressed \/ j = pressed'
    BY <1>2 DEF Presses
  <2>q. QED BY <1>2, <1>4, <2>2, <2>3, <2>4, <2>5 DEF BlankOK
<1>q. QED BY <1>6, <1>7, <1>8, <1>9, <1>10, <1>11

LEMMA CloseInvariant ==
    ASSUME IInv, CloseWithNothing
    PROVE  ChainsOK' /\ StoredOK' /\ GuardedOK' /\ LastOK' /\ ReportsOK' /\ BlankOK'
<1> USE DEF IInv
<1>1. UNCHANGED <<dialog, mode, plan, form, pressed, chain, sent, saving, stored,
                  late, blank, lost, cut, finished>>
  BY DEF CloseWithNothing, constants
<1>2. Open /\ ~Open' /\ result' = "nothing" /\ abandoned' = ~Quiet
  BY DEF CloseWithNothing, Open
<1>3. ChainsOK'
  BY <1>1, <1>2 DEF ChainsOK, Open, Quiet, Flying
<1>4. StoredOK' /\ LastOK'
  BY <1>1 DEF StoredOK, LastOK, NoFiles
<1>5. GuardedOK'
  BY <1>1, <1>2 DEF GuardedOK, ChainsOK, Quiet, Flying, Open
<1>6. ReportsOK'
  BY <1>1, <1>2 DEF ReportsOK, NoFiles, Quiet, Flying
<1>7. BlankOK'
  BY <1>1 DEF BlankOK, BlankOnlyUnloaded, Flying
<1>q. QED BY <1>3, <1>4, <1>5, <1>6, <1>7

LEMMA LoadInvariant ==
    ASSUME IInv, NEW o \in {"loaded", "failed"}, Load(o)
    PROVE  ChainsOK' /\ StoredOK' /\ GuardedOK' /\ LastOK' /\ ReportsOK' /\ BlankOK'
<1> USE DEF IInv
<1>1. UNCHANGED <<dialog, mode, plan, pressed, chain, sent, saving, stored,
                  late, blank, lost, cut, finished, result, abandoned>>
  BY DEF Load, constants
<1>2. ChainsOK' /\ GuardedOK'
  BY <1>1 DEF ChainsOK, GuardedOK, Open, Quiet, Flying
<1>3. StoredOK' /\ LastOK' /\ ReportsOK'
  BY <1>1 DEF StoredOK, LastOK, ReportsOK, NoFiles, Quiet, Flying, Open
<1>4. BlankOK'
  BY <1>1 DEF BlankOK, BlankOnlyUnloaded, Flying, Load
<1>q. QED BY <1>2, <1>3, <1>4

LEMMA NextStageInvariant ==
    ASSUME IInv, NEW i \in Presses, NextStage(i)
    PROVE  ChainsOK' /\ StoredOK' /\ GuardedOK' /\ LastOK' /\ ReportsOK' /\ BlankOK'
<1> USE DEF IInv
<1>1. /\ Flying(i) /\ Apply(i) /\ chain[i] < Len(plan)
      /\ UNCHANGED <<dialog, mode, plan, form, pressed, sent, saving, late, lost, cut,
                     finished, result, abandoned>>
  <2>1. chain[i] # Len(plan) /\ chain[i] <= Len(plan) /\ chain[i] \in 0..2
    BY DEF NextStage, LastRequest, ChainsOK, TypeOK, MaxStages
  <2>2. Len(plan) = 1 \/ Len(plan) = 2
    BY RowFacts
  <2>3. chain[i] < Len(plan)
    BY <2>1, <2>2
  <2>q. QED BY <2>3 DEF NextStage, constants
<1>2. /\ chain[i] \in 1..Len(plan)
      /\ stored'[chain[i]] = stored[chain[i]] + 1
      /\ \A s \in 1..Len(plan) : s # chain[i] => stored'[s] = stored[s]
      /\ \A s \in 1..Len(plan) : stored[s] \in Nat
  BY <1>1, ApplyFacts
<1>c. PICK c : c = chain[i]
  OBVIOUS
<1>a. \A s \in 1..Len(plan) :
         /\ stored[s] \in Nat /\ late[s] \in Nat
         /\ stored'[s] \in Nat /\ late'[s] \in Nat
         /\ s = c => stored'[s] + late'[s] = stored[s] + late[s] + 1
         /\ s # c => stored'[s] + late'[s] = stored[s] + late[s]
  BY <1>1, <1>c, HeldStep
<1>3. chain'[i] = chain[i] + 1 /\ \A j \in Presses \ {i} : chain'[j] = chain[j]
  BY DEF NextStage, TypeOK, LastRequest
<1>4. \A j \in Presses : chain[j] \in 0..2
  BY DEF TypeOK, MaxStages
<1>5. \A j \in Presses : Flying(j)' <=> Flying(j)
  BY <1>2, <1>3, <1>4 DEF Flying
<1>6. Quiet' <=> Quiet
  BY <1>5 DEF Quiet
<1>7. \A j \in Presses : \A s \in 1..Len(plan) : s # chain[i] => (chain'[j] > s <=> chain[j] > s)
  BY <1>2, <1>3, <1>4
<1>8. (Len(plan) = 1 \/ Len(plan) = 2)
  BY RowFacts
<1>9. ChainsOK'
  <2>1. \A j \in Presses : chain'[j] <= Len(plan')
    BY <1>1, <1>2, <1>3, <1>8 DEF ChainsOK
  <2>2. \A j \in Presses : j > pressed' => chain'[j] = 0
    BY <1>1, <1>2, <1>3 DEF ChainsOK
  <2>q. QED BY <1>1, <1>6, <2>1, <2>2 DEF ChainsOK, Open
<1>10. StoredOK'
  <2>1. ASSUME NEW s \in 1..Len(plan), NEW j \in Presses, chain'[j] > s
        PROVE  stored'[s] >= 1
    <3>1. CASE s = chain[i]
      BY <1>2, <3>1
    <3>2. CASE s # chain[i]
      BY <1>2, <1>7, <2>1, <3>2 DEF StoredOK
    <3>q. QED BY <3>1, <3>2
  <2>2. ASSUME finished > 0, NEW s \in 1..Len(plan) PROVE stored'[s] >= 1
    <3>1. stored[s] >= 1
      BY <2>2 DEF StoredOK
    <3>q. QED BY <1>2, <3>1
  <2>3. ASSUME NEW s \in 1..Len(plan), lost = 0, cut = 0, finished = 0, stored'[s] > 0
        PROVE  \E j \in Presses : chain'[j] > s
    <3>1. CASE s = chain[i]
      BY <1>2, <1>3, <3>1
    <3>2. CASE s # chain[i]
      BY <1>2, <1>7, <2>3, <3>2 DEF StoredOK
    <3>q. QED BY <3>1, <3>2
  <2>q. QED BY <1>1, <2>1, <2>2, <2>3 DEF StoredOK
<1>11. GuardedOK'
  BY <1>1, <1>5, <1>6 DEF GuardedOK, Open
<1>12. LastOK'
  BY <1>1, <1>2, <1>a, <1>c, <1>8 DEF LastOK, NoFiles
<1>13. ReportsOK'
  <2> SUFFICES ASSUME dialog.guardsSave, NoFiles, dialog.partial = "reports"
               PROVE  /\ cut + finished = 0 \/ (cut + finished = 1 /\ Quiet /\ ~Open)
                      /\ \A s \in 1..Len(plan) :
                            stored'[s] + late'[s] <= lost + cut + finished
                              + (IF \E j \in Presses : chain'[j] > s THEN 1 ELSE 0)
    BY <1>1, <1>6 DEF ReportsOK, NoFiles, Open
  <2>1. cut + finished = 0
    BY <1>1 DEF ReportsOK, Quiet
  <2>2. lost \in Nat /\ cut \in Nat /\ finished \in Nat
    BY DEF TypeOK
  <2>3. ASSUME NEW s \in 1..Len(plan), s # c
        PROVE  stored'[s] + late'[s] <= lost + cut + finished
                              + (IF \E j \in Presses : chain'[j] > s THEN 1 ELSE 0)
    <3>1. (\E j \in Presses : chain'[j] > s) <=> (\E j \in Presses : chain[j] > s)
      BY <1>7, <1>c, <2>3
    <3>2. stored[s] + late[s] <= lost + cut + finished
                              + (IF \E j \in Presses : chain[j] > s THEN 1 ELSE 0)
      BY DEF ReportsOK
    <3>3. stored'[s] + late'[s] = stored[s] + late[s]
      BY <1>a, <2>3
    <3>q. QED BY <3>1, <3>2, <3>3
  <2>4. ASSUME NEW s \in 1..Len(plan), s = c
        PROVE  stored'[s] + late'[s] <= lost + cut + finished
                              + (IF \E j \in Presses : chain'[j] > s THEN 1 ELSE 0)
    <3>1. \A j \in Presses \ {i} : chain[j] = 0
      BY <1>1 DEF GuardedOK, Flying
    <3>2. ~(\E j \in Presses : chain[j] > s)
      BY <1>2, <1>4, <1>c, <2>4, <3>1
    <3>3. \E j \in Presses : chain'[j] > s
      BY <1>2, <1>3, <1>c, <2>4
    <3>4. stored[s] + late[s] <= lost + cut + finished
      BY <1>a, <2>2, <3>2 DEF ReportsOK
    <3>q. QED BY <1>a, <2>2, <2>4, <3>3, <3>4
  <2>q. QED BY <2>1, <2>3, <2>4
<1>14. BlankOK'
  <2>1. blank' => blank \/ ~sent[i]
    BY <1>1 DEF Apply
  <2>2. i <= pressed
    BY <1>1 DEF ChainsOK, Flying, Presses, TypeOK
  <2>q. QED BY <1>1, <2>1, <2>2 DEF BlankOK, BlankOnlyUnloaded
<1>q. QED BY <1>9, <1>10, <1>11, <1>12, <1>13, <1>14

LEMMA FinishInvariant ==
    ASSUME IInv, NEW i \in Presses, Finish(i)
    PROVE  ChainsOK' /\ StoredOK' /\ GuardedOK' /\ LastOK' /\ ReportsOK' /\ BlankOK'
<1> USE DEF IInv
<1>1. (Len(plan) = 1 \/ Len(plan) = 2)
  BY RowFacts
<1>2. /\ Flying(i) /\ Apply(i) /\ chain[i] = Len(plan)
      /\ UNCHANGED <<dialog, mode, plan, form, pressed, sent, saving, late, lost, cut, abandoned>>
      /\ finished' = finished + 1
      /\ result' = (IF Open THEN "result" ELSE result)
  BY <1>1 DEF Finish, constants, Flying, LastRequest, Tell
<1>3. /\ \A s \in 1..Len(plan) : s # Len(plan) => stored'[s] = stored[s]
      /\ stored'[Len(plan)] = stored[Len(plan)] + 1
      /\ \A s \in 1..Len(plan) : stored[s] \in Nat
  BY <1>2, ApplyFacts
<1>c. PICK c : c = chain[i] /\ c = Len(plan)
  BY <1>2
<1>a. \A s \in 1..Len(plan) :
         /\ stored[s] \in Nat /\ late[s] \in Nat
         /\ stored'[s] \in Nat /\ late'[s] \in Nat
         /\ s = c => stored'[s] + late'[s] = stored[s] + late[s] + 1
         /\ s # c => stored'[s] + late'[s] = stored[s] + late[s]
  BY <1>2, <1>c, HeldStep
<1>4. chain'[i] = 0 /\ \A j \in Presses \ {i} : chain'[j] = chain[j]
  BY DEF Finish, TypeOK, LastRequest, Tell
<1>5. \A j \in Presses : Flying(j)' => Flying(j) /\ j # i
  BY <1>4 DEF Flying
<1>6. /\ finished \in Nat /\ lost \in Nat /\ cut \in Nat
      /\ \A j \in Presses : chain[j] \in 0..2 /\ chain[j] <= Len(plan)
  BY DEF TypeOK, MaxStages, ChainsOK
<1>7. ~Open' /\ result' # "none" /\ (result' = "nothing" => result = "nothing" /\ ~Open)
  BY <1>2 DEF Open
<1>8. ChainsOK'
  <2>1. ~Quiet
    BY <1>2 DEF Quiet
  <2>2. result = "nothing" => abandoned
    BY <2>1 DEF ChainsOK
  <2>3. \A j \in Presses : chain'[j] <= Len(plan)
    BY <1>1, <1>4, <1>6
  <2>4. \A j \in Presses : j > pressed' => chain'[j] = 0
    BY <1>2, <1>4 DEF ChainsOK
  <2>q. QED BY <1>2, <1>6, <1>7, <2>2, <2>3, <2>4 DEF ChainsOK
<1>9. StoredOK'
  <2>1. ASSUME NEW s \in 1..Len(plan) PROVE stored'[s] >= 1
    <3>1. CASE s = Len(plan)
      BY <1>3, <3>1
    <3>2. CASE s # Len(plan)
      <4>1. chain[i] > s
        BY <1>1, <1>2, <3>2
      <4>2. stored[s] >= 1
        BY <4>1 DEF StoredOK
      <4>q. QED BY <1>3, <3>2, <4>2
    <3>q. QED BY <3>1, <3>2
  <2>2. finished' # 0
    BY <1>2, <1>6
  <2>q. QED BY <1>2, <2>1, <2>2 DEF StoredOK
<1>10. GuardedOK'
  <2> SUFFICES ASSUME dialog.guardsSave PROVE Quiet' /\ finished = 0
    BY <1>2, <1>6, <1>7 DEF GuardedOK, Quiet
  <2>1. \A j \in Presses : Flying(j) => j = i
    BY <1>2 DEF GuardedOK
  <2>2. ~Quiet
    BY <1>2 DEF Quiet
  <2>q. QED BY <1>5, <2>1, <2>2 DEF GuardedOK, Quiet
<1>11. LastOK'
  <2> SUFFICES ASSUME NoFiles, NEW s \in 1..Len(plan), s = Len(plan)
               PROVE  stored'[s] + late'[s] <= finished' + lost'
    BY <1>2 DEF LastOK, NoFiles
  <2>1. stored[s] + late[s] <= finished + lost
    BY DEF LastOK
  <2>q. QED BY <1>a, <1>c, <1>2, <1>6, <2>1
<1>12. ReportsOK'
  <2> SUFFICES ASSUME dialog.guardsSave, NoFiles, dialog.partial = "reports"
               PROVE  /\ cut + finished' = 1 /\ Quiet' /\ ~Open'
                      /\ \A s \in 1..Len(plan) : stored'[s] + late'[s] <= lost + cut + finished'
    <3>1. /\ lost + cut + finished' \in Nat
          /\ \A s \in 1..Len(plan) : stored'[s] \in Nat /\ late'[s] \in Nat
      BY <1>2, <1>a, <1>c, <1>6
    <3>2. ASSUME NEW s \in 1..Len(plan), stored'[s] + late'[s] <= lost + cut + finished'
          PROVE  stored'[s] + late'[s] <= lost + cut + finished'
                              + (IF \E j \in Presses : chain'[j] > s THEN 1 ELSE 0)
      BY <3>1, <3>2, Slack
    <3>q. QED BY <1>2, <3>2 DEF ReportsOK, NoFiles
  <2>1. ~Quiet /\ \A j \in Presses : chain'[j] = 0
    BY <1>2, <1>4, <1>5 DEF Quiet, GuardedOK, Flying
  <2>2. cut + finished = 0
    BY <2>1 DEF ReportsOK
  <2>3. ASSUME NEW s \in 1..Len(plan) PROVE stored'[s] + late'[s] <= lost + cut + finished'
    <3>1. CASE s = Len(plan)
      <4>1. ~(\E j \in Presses : chain[j] > s)
        BY <1>1, <1>6, <3>1
      <4>2. stored[s] + late[s] <= lost + cut + finished
        BY <1>a, <1>c, <1>6, <4>1 DEF ReportsOK
      <4>q. QED BY <1>2, <1>a, <1>c, <1>6, <3>1, <4>2
    <3>2. CASE s # Len(plan)
      <4>1. stored[s] + late[s] <= lost + cut + finished + 1
        BY <1>a, <1>c, <1>6 DEF ReportsOK
      <4>q. QED BY <1>2, <1>a, <1>c, <1>6, <3>2, <4>1
    <3>q. QED BY <3>1, <3>2
  <2>4. Quiet'
    BY <2>1 DEF Quiet, Flying
  <2>q. QED BY <1>2, <1>6, <1>7, <2>2, <2>3, <2>4
<1>13. BlankOK'
  <2>1. blank' => blank \/ ~sent[i]
    BY <1>2 DEF Apply
  <2>2. i <= pressed
    BY <1>2 DEF ChainsOK, Flying, Presses, TypeOK
  <2>q. QED BY <1>2, <2>1, <2>2 DEF BlankOK, BlankOnlyUnloaded
<1>q. QED BY <1>8, <1>9, <1>10, <1>11, <1>12, <1>13

\* The three ways a request fails: what they have in common.
LEMMA ErrorInvariant ==
    ASSUME IInv, NEW i \in Presses, Flying(i), ShowError(i),
           Apply(i) \/ UNCHANGED <<stored, blank>>
    PROVE  ChainsOK' /\ GuardedOK' /\ BlankOK'
<1> USE DEF IInv
<1>1. /\ chain'[i] = 0 /\ \A j \in Presses \ {i} : chain'[j] = chain[j]
      /\ ~saving'
      /\ Open => \/ result' = "none"
                 \/ result' = "nothing" /\ chain[i] = 1
                 \/ result' = "result" /\ chain[i] # 1 /\ dialog.partial = "reports"
      /\ ~Open => result' = result
      /\ Open /\ result' = "nothing" /\ ~abandoned' =>
            \A j \in Presses \ {i} : ~Flying(j)
      /\ abandoned => abandoned'
      /\ UNCHANGED <<dialog, mode, plan, form, pressed, sent, finished>>
  BY ErrorFacts DEF constants
<1>2. \A j \in Presses : Flying(j)' => Flying(j) /\ j # i
  BY <1>1 DEF Flying
<1>3. ~Quiet
  BY DEF Quiet
<1>4. ChainsOK'
  <2>1. \A j \in Presses : chain'[j] <= Len(plan)
    <3>1. Len(plan) = 1 \/ Len(plan) = 2
      BY RowFacts
    <3>2. 0 <= Len(plan)
      BY <3>1
    <3>q. QED BY <1>1, <3>2 DEF ChainsOK
  <2>2. \A j \in Presses : j > pressed' => chain'[j] = 0
    BY <1>1 DEF ChainsOK
  <2>3. CASE Open
    <3>1. finished = 0 /\ finished' = 0
      BY <1>1, <2>3 DEF ChainsOK
    <3>2. result' = "nothing" /\ ~abandoned' => Quiet'
      BY <1>1, <1>2, <2>3 DEF Quiet
    <3>3. result' = "result" => dialog.partial = "reports"
      BY <1>1, <2>3
    <3>q. QED BY <1>1, <2>1, <2>2, <3>1, <3>2, <3>3 DEF ChainsOK
  <2>4. CASE ~Open
    <3>1. result = "nothing" => abandoned
      BY <1>3 DEF ChainsOK
    <3>2. ~Open'
      BY <1>1, <2>4 DEF Open
    <3>q. QED BY <1>1, <2>1, <2>2, <2>4, <3>1, <3>2 DEF ChainsOK
  <2>q. QED BY <2>3, <2>4
<1>5. GuardedOK'
  <2> SUFFICES ASSUME dialog.guardsSave PROVE Quiet' /\ finished = 0
    BY <1>1 DEF GuardedOK, Quiet
  <2>1. \A j \in Presses : Flying(j) => j = i
    BY DEF GuardedOK
  <2>q. QED BY <1>2, <1>3, <2>1 DEF GuardedOK, Quiet
<1>6. BlankOK'
  <2>1. blank' => blank \/ ~sent[i]
    BY DEF Apply
  <2>2. i <= pressed
    BY DEF ChainsOK, Flying, Presses, TypeOK
  <2>q. QED BY <1>1, <2>1, <2>2 DEF BlankOK, BlankOnlyUnloaded
<1>q. QED BY <1>4, <1>5, <1>6

LEMMA RefuseInvariant ==
    ASSUME IInv, NEW i \in Presses, Refuse(i)
    PROVE  ChainsOK' /\ StoredOK' /\ GuardedOK' /\ LastOK' /\ ReportsOK' /\ BlankOK'
<1> USE DEF IInv
<1>1. /\ Flying(i) /\ ShowError(i)
      /\ UNCHANGED <<stored, late, blank, lost>>
      /\ cut' = (IF chain[i] > 1 THEN cut + 1 ELSE cut)
  BY DEF Refuse
<1>2. ChainsOK' /\ GuardedOK' /\ BlankOK'
  BY <1>1, ErrorInvariant
<1>3. /\ chain'[i] = 0 /\ \A j \in Presses \ {i} : chain'[j] = chain[j]
      /\ Open /\ chain[i] # 1 /\ dialog.partial = "reports" => result' = "result"
      /\ ~Open => result' = result
      /\ UNCHANGED <<dialog, mode, plan, finished>>
  BY <1>1, ErrorFacts DEF constants
<1>4. /\ finished \in Nat /\ lost \in Nat /\ cut \in Nat
      /\ \A j \in Presses : chain[j] \in 0..2
  BY DEF TypeOK, MaxStages
<1>5. \A s \in 1..Len(plan) : /\ stored[s] \in Nat /\ late[s] \in Nat
                               /\ stored'[s] = stored[s] /\ late'[s] = late[s]
  BY <1>1, StageRange
<1>6. StoredOK'
  <2>1. ASSUME NEW s \in 1..Len(plan), NEW j \in Presses, chain'[j] > s
        PROVE  stored[s] >= 1
    BY <1>3, <2>1 DEF StoredOK
  <2>2. ASSUME NEW s \in 1..Len(plan), lost = 0, cut' = 0, finished = 0, stored[s] > 0
        PROVE  \E j \in Presses : chain'[j] > s
    <3>1. cut = 0 /\ ~(chain[i] > 1)
      BY <1>1, <1>4, <2>2
    <3>2. PICK j \in Presses : chain[j] > s
      BY <2>2, <3>1 DEF StoredOK
    <3>3. j # i
      BY <1>4, <3>1, <3>2
    <3>q. QED BY <1>3, <3>2, <3>3
  <2>q. QED BY <1>1, <1>3, <2>1, <2>2 DEF StoredOK
<1>7. LastOK'
  BY <1>1, <1>3, <1>5 DEF LastOK, NoFiles
<1>8. ReportsOK'
  <2> SUFFICES ASSUME dialog.guardsSave, NoFiles, dialog.partial = "reports"
               PROVE  /\ cut' + finished = 0 \/ (cut' + finished = 1 /\ Quiet' /\ ~Open')
                      /\ \A s \in 1..Len(plan) :
                            stored[s] + late[s] <= lost + cut' + finished
                              + (IF \E j \in Presses : chain'[j] > s THEN 1 ELSE 0)
    BY <1>1, <1>3, <1>5 DEF ReportsOK, NoFiles
  <2>1. cut + finished = 0
    BY <1>1 DEF ReportsOK, Quiet
  <2>2. CASE chain[i] > 1
    <3>1. cut' + finished = 1
      BY <1>1, <1>4, <2>1, <2>2
    <3>2. Quiet'
      BY <1>1, <1>3 DEF GuardedOK, Quiet, Flying
    <3>3. ~Open'
      BY <1>3, <1>4, <2>2 DEF Open
    <3>4. ASSUME NEW s \in 1..Len(plan) PROVE stored[s] + late[s] <= lost + cut' + finished
      <4>1. stored[s] + late[s] <= lost + cut + finished + 1
        BY <1>4, <1>5 DEF ReportsOK
      <4>q. QED BY <1>1, <1>4, <1>5, <2>2, <4>1
    <3>5. ASSUME NEW s \in 1..Len(plan)
          PROVE  stored[s] + late[s] <= lost + cut' + finished
                              + (IF \E j \in Presses : chain'[j] > s THEN 1 ELSE 0)
      <4>1. stored[s] \in Nat /\ late[s] \in Nat /\ lost + cut' + finished \in Nat
        BY <1>4, <1>5, <1>1
      <4>q. QED BY <3>4, <4>1, Slack
    <3>q. QED BY <3>1, <3>2, <3>3, <3>5
  <2>3. CASE ~(chain[i] > 1)
    <3>1. cut' = cut
      BY <1>1, <2>3
    <3>2. ASSUME NEW s \in 1..Len(plan)
          PROVE  (\E j \in Presses : chain'[j] > s) <=> (\E j \in Presses : chain[j] > s)
      BY <1>3, <1>4, <2>3
    <3>q. QED BY <2>1, <3>1, <3>2 DEF ReportsOK
  <2>q. QED BY <2>2, <2>3
<1>q. QED BY <1>2, <1>6, <1>7, <1>8

LEMMA RefuseSomeInvariant ==
    ASSUME IInv, NEW i \in Presses, RefuseSome(i)
    PROVE  ChainsOK' /\ StoredOK' /\ GuardedOK' /\ LastOK' /\ ReportsOK' /\ BlankOK'
<1> USE DEF IInv
<1>1. /\ Flying(i) /\ ShowError(i) /\ plan[chain[i]] \in Batches
      /\ AppliedBefore(i) \/ AppliedLate(i) \/ AppliedInParts(i)
      /\ cut' = cut + 1 /\ lost' = lost
  BY DEF RefuseSome
<1>2. ChainsOK' /\ GuardedOK' /\ BlankOK'
  BY <1>1, ErrorInvariant DEF AppliedBefore, AppliedLate, AppliedInParts
<1>3. /\ chain'[i] = 0 /\ \A j \in Presses \ {i} : chain'[j] = chain[j]
      /\ UNCHANGED <<dialog, plan, finished>>
  BY <1>1, ErrorFacts DEF constants
<1>4. /\ chain[i] \in 1..Len(plan)
      /\ \A s \in 1..Len(plan) : stored[s] \in Nat /\ stored'[s] \in Nat /\ stored'[s] >= stored[s]
  BY <1>1, StoredGrows
<1>5. cut' # 0
  BY <1>1 DEF TypeOK
<1>6. StoredOK'
  <2>1. ASSUME NEW s \in 1..Len(plan), NEW j \in Presses, chain'[j] > s
        PROVE  stored'[s] >= 1
    <3>1. stored[s] >= 1
      BY <1>3, <2>1 DEF StoredOK
    <3>q. QED BY <1>4, <3>1
  <2>2. ASSUME NEW s \in 1..Len(plan), finished > 0
        PROVE  stored'[s] >= 1
    <3>1. stored[s] >= 1
      BY <2>2 DEF StoredOK
    <3>q. QED BY <1>4, <3>1
  <2>q. QED BY <1>3, <1>5, <2>1, <2>2 DEF StoredOK
<1>7. ~NoFiles'
  BY <1>1, <1>3, <1>4 DEF NoFiles
<1>q. QED BY <1>2, <1>6, <1>7 DEF LastOK, ReportsOK

LEMMA LoseAnswerInvariant ==
    ASSUME IInv, NEW i \in Presses, LoseAnswer(i)
    PROVE  ChainsOK' /\ StoredOK' /\ GuardedOK' /\ LastOK' /\ ReportsOK' /\ BlankOK'
<1> USE DEF IInv
<1>1. /\ Flying(i) /\ ShowError(i)
      /\ AppliedBefore(i) \/ AppliedLate(i) \/ AppliedInParts(i)
      /\ lost' = lost + 1 /\ cut' = cut
  BY DEF LoseAnswer
<1>2. ChainsOK' /\ GuardedOK' /\ BlankOK'
  BY <1>1, ErrorInvariant DEF AppliedBefore, AppliedLate, AppliedInParts
<1>3. /\ chain'[i] = 0 /\ \A j \in Presses \ {i} : chain'[j] = chain[j]
      /\ UNCHANGED <<dialog, mode, plan, finished>>
  BY <1>1, ErrorFacts DEF constants
<1>4. /\ chain[i] \in 1..Len(plan)
      /\ \A s \in 1..Len(plan) :
           /\ stored[s] \in Nat /\ stored'[s] \in Nat /\ stored'[s] >= stored[s]
           /\ late'[s] \in Nat
  BY <1>1, StoredGrows
<1>5. /\ finished \in Nat /\ lost \in Nat /\ cut \in Nat
      /\ \A j \in Presses : chain[j] \in 0..2
  BY DEF TypeOK, MaxStages
<1>c. PICK c : c = chain[i]
  OBVIOUS
<1>6. NoFiles => \A s \in 1..Len(plan) :
         /\ stored[s] \in Nat /\ late[s] \in Nat
         /\ stored'[s] \in Nat /\ late'[s] \in Nat
         /\ s = c => stored'[s] + late'[s] = stored[s] + late[s] + 1
         /\ s # c => stored'[s] + late'[s] = stored[s] + late[s]
  <2> SUFFICES ASSUME NoFiles
               PROVE  (Apply(i) /\ UNCHANGED late) \/ AppliedLate(i)
    BY <1>1, <1>c, HeldStep
  <2>q. QED BY <1>1, <1>4 DEF NoFiles, AppliedBefore, AppliedInParts
<1>7. StoredOK'
  <2>1. ASSUME NEW s \in 1..Len(plan), NEW j \in Presses, chain'[j] > s
        PROVE  stored'[s] >= 1
    <3>1. stored[s] >= 1
      BY <1>3, <2>1 DEF StoredOK
    <3>q. QED BY <1>4, <3>1
  <2>2. ASSUME NEW s \in 1..Len(plan), finished > 0
        PROVE  stored'[s] >= 1
    <3>1. stored[s] >= 1
      BY <2>2 DEF StoredOK
    <3>q. QED BY <1>4, <3>1
  <2>3. lost' # 0
    BY <1>1, <1>5
  <2>q. QED BY <1>3, <2>1, <2>2, <2>3 DEF StoredOK
<1>8. LastOK'
  <2> SUFFICES ASSUME NoFiles, NEW s \in 1..Len(plan), s = Len(plan)
               PROVE  stored'[s] + late'[s] <= finished + lost'
    BY <1>3 DEF LastOK, NoFiles
  <2>1. stored[s] + late[s] <= finished + lost
    BY DEF LastOK
  <2>2. /\ stored[s] \in Nat /\ late[s] \in Nat
        /\ stored'[s] \in Nat /\ late'[s] \in Nat
        /\ \/ stored'[s] + late'[s] = stored[s] + late[s] + 1
           \/ stored'[s] + late'[s] = stored[s] + late[s]
    BY <1>6
  <2>q. QED BY <1>1, <1>5, <2>1, <2>2
<1>9. ReportsOK'
  <2> SUFFICES ASSUME dialog.guardsSave, NoFiles, dialog.partial = "reports"
               PROVE  /\ cut + finished = 0
                      /\ \A s \in 1..Len(plan) : stored'[s] + late'[s] <= lost' + cut + finished
    <3>1. /\ lost' + cut + finished \in Nat
          /\ \A s \in 1..Len(plan) : stored'[s] \in Nat /\ late'[s] \in Nat
      BY <1>1, <1>4, <1>5
    <3>2. ASSUME NEW s \in 1..Len(plan), stored'[s] + late'[s] <= lost' + cut + finished
          PROVE  stored'[s] + late'[s] <= lost' + cut + finished
                              + (IF \E j \in Presses : chain'[j] > s THEN 1 ELSE 0)
      BY <3>1, <3>2, Slack
    <3>q. QED BY <1>1, <1>3, <3>2 DEF ReportsOK, NoFiles
  <2>1. cut + finished = 0
    BY <1>1 DEF ReportsOK, Quiet
  <2>2. ASSUME NEW s \in 1..Len(plan), s # c
        PROVE  stored'[s] + late'[s] <= lost' + cut + finished
    <3>1. stored[s] + late[s] <= lost + cut + finished + 1
      BY <1>5, <1>6 DEF ReportsOK
    <3>q. QED BY <1>1, <1>5, <1>6, <2>2, <3>1
  <2>3. ASSUME NEW s \in 1..Len(plan), s = c
        PROVE  stored'[s] + late'[s] <= lost' + cut + finished
    <3>1. \A j \in Presses \ {i} : chain[j] = 0
      BY <1>1 DEF GuardedOK, Flying
    <3>2. ~(\E j \in Presses : chain[j] > s)
      BY <1>4, <1>5, <1>c, <2>3, <3>1
    <3>3. stored[s] + late[s] <= lost + cut + finished
      BY <1>5, <1>6, <3>2 DEF ReportsOK
    <3>q. QED BY <1>1, <1>5, <1>6, <2>3, <3>3
  <2>q. QED BY <2>1, <2>2, <2>3
<1>q. QED BY <1>2, <1>7, <1>8, <1>9

\* A request applied late was held already.
LEMMA ApplyLateInvariant ==
    ASSUME IInv, NEW s \in Slots, ApplyLate(s)
    PROVE  ChainsOK' /\ StoredOK' /\ GuardedOK' /\ LastOK' /\ ReportsOK' /\ BlankOK'
<1> USE DEF IInv
<1>1. /\ late[s] > 0
      /\ UNCHANGED <<dialog, mode, plan, form, pressed, chain, sent, saving,
                     lost, cut, finished, result, abandoned>>
  BY DEF ApplyLate, constants
<1>2. ASSUME NEW u \in 1..Len(plan)
      PROVE  /\ stored'[u] + late'[u] = stored[u] + late[u]
             /\ stored[u] \in Nat /\ stored'[u] \in Nat /\ stored'[u] >= stored[u]
  <2>1. u \in 1..2 /\ stored[u] \in Nat /\ late[u] \in Nat
    BY StageRange
  <2>2. /\ stored'[u] = (IF u = s THEN stored[u] + 1 ELSE stored[u])
        /\ late'[u] = (IF u = s THEN late[u] - 1 ELSE late[u])
    BY <2>1 DEF ApplyLate, TypeOK, Slots, MaxStages
  <2>q. QED BY <2>1, <2>2
<1>3. ~(lost = 0 /\ cut = 0)
  BY <1>1 DEF LateOK, TypeOK
<1>4. ChainsOK' /\ GuardedOK'
  BY <1>1 DEF ChainsOK, GuardedOK, Open, Quiet, Flying
<1>5. StoredOK'
  <2>1. ASSUME NEW u \in 1..Len(plan), stored[u] >= 1 PROVE stored'[u] >= 1
    BY <1>2, <2>1
  <2>q. QED BY <1>1, <1>3, <2>1 DEF StoredOK
<1>6. LastOK' /\ ReportsOK'
  BY <1>1, <1>2 DEF LastOK, ReportsOK, NoFiles, Open, Quiet, Flying
<1>7. BlankOK'
  <2>1. blank' => blank \/ \E i \in Presses : i <= pressed /\ ~sent[i]
    BY DEF ApplyLate
  <2>q. QED BY <1>1, <2>1 DEF BlankOK, BlankOnlyUnloaded
<1>q. QED BY <1>4, <1>5, <1>6, <1>7

\* A tag is created beside the stages of Save.
LEMMA TagInvariant ==
    ASSUME IInv, CreateTag \/ AnswerTag
    PROVE  ChainsOK' /\ StoredOK' /\ GuardedOK' /\ LastOK' /\ ReportsOK' /\ BlankOK'
<1> USE DEF IInv
<1>1. UNCHANGED <<dialog, mode, plan, form, pressed, chain, sent, saving, blank,
                  cut, finished, result, abandoned>>
  BY DEF CreateTag, AnswerTag, constants
<1>2. lost \in Nat /\ cut \in Nat /\ finished \in Nat /\ (lost' = lost \/ lost' = lost + 1)
  BY DEF CreateTag, AnswerTag, TypeOK
<1>3. ASSUME NEW u \in 1..Len(plan)
      PROVE  /\ stored'[u] = stored[u] /\ late'[u] = late[u]
             /\ stored[u] \in Nat /\ late[u] \in Nat
  <2>1. u \in 1..2 /\ stored[u] \in Nat /\ late[u] \in Nat
    BY StageRange
  <2>2. stored'[u] = stored[u]
    BY <2>1 DEF CreateTag, AnswerTag, StoreTag, TypeOK, Slots, MaxStages
  <2>3. late'[u] = late[u]
    BY <2>1 DEF CreateTag, AnswerTag, LeaveLate, TypeOK, Slots, MaxStages
  <2>q. QED BY <2>1, <2>2, <2>3
<1>4. ChainsOK' /\ GuardedOK' /\ BlankOK'
  BY <1>1 DEF ChainsOK, GuardedOK, BlankOK, BlankOnlyUnloaded, Open, Quiet, Flying
<1>5. StoredOK'
  <2>1. lost' = 0 => lost = 0
    BY <1>2
  <2>q. QED BY <1>1, <1>3, <2>1 DEF StoredOK
<1>6. LastOK'
  <2> SUFFICES ASSUME NoFiles, NEW u \in 1..Len(plan), u = Len(plan)
               PROVE  stored'[u] + late'[u] <= finished + lost'
    BY <1>1 DEF LastOK, NoFiles
  <2>1. stored[u] + late[u] <= finished + lost
    BY DEF LastOK
  <2>q. QED BY <1>2, <1>3, <2>1
<1>7. ReportsOK'
  <2> SUFFICES ASSUME dialog.guardsSave, NoFiles, dialog.partial = "reports",
                      NEW u \in 1..Len(plan)
               PROVE  stored'[u] + late'[u] <= lost' + cut + finished
                             + (IF \E i \in Presses : chain[i] > u THEN 1 ELSE 0)
    BY <1>1 DEF ReportsOK, NoFiles, Quiet, Flying, Open
  <2>1. stored[u] + late[u] <= lost + cut + finished
                     + (IF \E i \in Presses : chain[i] > u THEN 1 ELSE 0)
    BY DEF ReportsOK
  <2>q. QED BY <1>2, <1>3, <2>1
<1>q. QED BY <1>4, <1>5, <1>6, <1>7

\* Nothing is left to be applied late but after an error.
LEMMA LateStep ==
    ASSUME IInv, [Next]_vars
    PROVE  LateOK'
<1> USE DEF IInv
<1>1. lost \in Nat /\ cut \in Nat
  BY DEF TypeOK
<1>2. CASE UNCHANGED <<late, lost, cut, plan>>
  BY <1>2 DEF LateOK, AtOnce
<1>3. ASSUME NEW i \in Presses, Refuse(i) PROVE LateOK'
  <2>1. /\ UNCHANGED <<late, lost, plan>>
        /\ cut' >= cut /\ cut' \in Nat
    BY <1>1, <1>3 DEF Refuse, ShowError, StopSaving, constants
  <2>2. cut > 0 => cut' > 0
    BY <1>1, <2>1
  <2>q. QED BY <2>1, <2>2 DEF LateOK, AtOnce
<1>4. ASSUME NEW i \in Presses, RefuseSome(i) PROVE LateOK'
  <2>1. cut' = cut + 1 /\ UNCHANGED <<lost, plan>> /\ cut' > 0
    BY <1>1, <1>4 DEF RefuseSome, ShowError, StopSaving, constants
  <2>2. CASE AppliedBefore(i)
    BY <2>1, <2>2 DEF AppliedBefore, LateOK, AtOnce
  <2>3. CASE plan[chain[i]] = "several"
    <3>1. chain[i] \in 1..Len(plan)
      <4>1. Flying(i) /\ (AppliedBefore(i) \/ AppliedLate(i) \/ AppliedInParts(i))
        BY <1>4 DEF RefuseSome
      <4>q. QED BY <4>1, StoredGrows
    <3>2. AtOnce'
      BY <2>1, <2>3, <3>1 DEF AtOnce
    <3>q. QED BY <2>1, <3>2 DEF LateOK
  <2>q. QED BY <1>4, <2>2, <2>3 DEF RefuseSome
<1>5. ASSUME NEW i \in Presses, LoseAnswer(i) PROVE LateOK'
  BY <1>1, <1>5 DEF LoseAnswer, LateOK
<1>6. ASSUME NEW s \in Slots, ApplyLate(s) PROVE LateOK'
  <2>1. UNCHANGED <<lost, cut, plan>>
    BY <1>6 DEF ApplyLate, constants
  <2>2. \A u \in Slots : late'[u] > 0 => late[u] > 0
    BY <1>6 DEF ApplyLate, TypeOK
  <2>q. QED BY <2>1, <2>2 DEF LateOK, AtOnce
<1>7. CASE AnswerTag
  <2>1. UNCHANGED <<cut, plan>> /\ (UNCHANGED <<late, lost>> \/ lost' = lost + 1)
    BY <1>7 DEF AnswerTag, constants
  <2>2. CASE lost' = lost + 1
    BY <1>1, <2>2 DEF LateOK
  <2>q. QED BY <2>1, <2>2 DEF LateOK, AtOnce
<1>8. ASSUME NEW i \in Presses, NextStage(i) \/ Finish(i) PROVE LateOK'
  BY <1>2, <1>8 DEF NextStage, Finish, Tell, constants
<1>9. ASSUME NEW o \in {"loaded", "failed"}, Load(o) PROVE LateOK'
  BY <1>2, <1>9 DEF Load, constants
<1>10. CASE PressSave \/ CreateTag \/ Cancel \/ Dismiss
  BY <1>2, <1>10 DEF PressSave, StartSaving, CreateTag, Cancel, Dismiss, CloseWithNothing, constants
<1>11. CASE UNCHANGED vars
  BY <1>2, <1>11 DEF vars
<1>q. QED BY <1>3, <1>4, <1>5, <1>6, <1>7, <1>8, <1>9, <1>10, <1>11 DEF Next, Respond

-----------------------------------------------------------------------------
LEMMA NextInvariant == IInv /\ [Next]_vars => IInv'
<1> SUFFICES ASSUME IInv, [Next]_vars PROVE IInv'
  OBVIOUS
<1>1. TypeOK' /\ LateOK'
  BY TypeStep, LateStep DEF IInv
<1>2. ASSUME NEW o \in {"loaded", "failed"}, Load(o) PROVE IInv'
  BY <1>1, <1>2, LoadInvariant DEF IInv
<1>3. CASE PressSave
  BY <1>1, <1>3, PressSaveInvariant DEF IInv
<1>4. ASSUME NEW i \in Presses, Respond(i) PROVE IInv'
  <2>1. CASE NextStage(i)
    BY <1>1, <2>1, NextStageInvariant DEF IInv
  <2>2. CASE Finish(i)
    BY <1>1, <2>2, FinishInvariant DEF IInv
  <2>3. CASE Refuse(i)
    BY <1>1, <2>3, RefuseInvariant DEF IInv
  <2>4. CASE RefuseSome(i)
    BY <1>1, <2>4, RefuseSomeInvariant DEF IInv
  <2>5. CASE LoseAnswer(i)
    BY <1>1, <2>5, LoseAnswerInvariant DEF IInv
  <2>q. QED BY <1>4, <2>1, <2>2, <2>3, <2>4, <2>5 DEF Respond
<1>5. CASE Cancel \/ Dismiss
  BY <1>1, <1>5, CloseInvariant DEF IInv, Cancel, Dismiss
<1>6. ASSUME NEW s \in Slots, ApplyLate(s) PROVE IInv'
  BY <1>1, <1>6, ApplyLateInvariant DEF IInv
<1>7. CASE CreateTag \/ AnswerTag
  BY <1>1, <1>7, TagInvariant DEF IInv
<1>8. CASE UNCHANGED vars
  <2>1. ChainsOK' /\ StoredOK' /\ GuardedOK'
    BY <1>8 DEF vars, IInv, ChainsOK, StoredOK, GuardedOK, Open, Quiet, Flying
  <2>2. LastOK' /\ ReportsOK'
    BY <1>8 DEF vars, IInv, LastOK, ReportsOK, NoFiles, Open, Quiet, Flying
  <2>3. BlankOK'
    BY <1>8 DEF vars, IInv, BlankOK, BlankOnlyUnloaded
  <2>q. QED BY <1>1, <2>1, <2>2, <2>3 DEF IInv
<1>q. QED BY <1>2, <1>3, <1>4, <1>5, <1>8, <1>6, <1>7 DEF Next

THEOREM Invariant == Spec => []IInv
BY InitInvariant, NextInvariant, PTL DEF Spec

\* Every reachable state is one of the types the module declares, for any
\* table of dialogs (the fields of the modal components).
THEOREM TypeCorrect == Spec => []TypeOK
<1>1. IInv => TypeOK
  BY DEF IInv
<1>q. QED BY Invariant, <1>1, PTL

\* A dialog that disables Save and stores its rows last never stores a row
\* twice but for a lost answer, however often Save is pressed.
THEOREM Rows == Spec => []NoRepeatedRow
<1>1. IInv => NoRepeatedRow
  <2> SUFFICES ASSUME IInv, dialog.guardsSave, ~RepeatsOnRetry,
                      NEW s \in 1..Len(plan), plan[s] \in Inserts
               PROVE  stored[s] <= 1 + lost
    BY DEF NoRepeatedRow
  <2>1. /\ lost \in Nat /\ cut \in Nat /\ finished \in Nat
        /\ stored[s] \in Nat /\ late[s] \in Nat
        /\ \A i \in Presses : chain[i] \in 0..2
    BY StageRange DEF IInv, TypeOK, MaxStages
  <2>2. NoFiles
    BY DEF RepeatsOnRetry, NoFiles
  <2>3. finished <= 1
    BY <2>1 DEF IInv, GuardedOK
  <2>4. dialog.partial \in {"stays", "reports"} /\ (Len(plan) = 1 \/ Len(plan) = 2)
    BY RowFacts DEF IInv
  <2>5. CASE dialog.partial = "reports"
    <3>1. CASE cut + finished = 0
      <4>1. stored[s] + late[s] <= lost + cut + finished + 1
        BY <2>1, <2>2, <2>5 DEF IInv, ReportsOK
      <4>q. QED BY <2>1, <3>1, <4>1
    <3>2. CASE cut + finished # 0
      <4>1. cut + finished = 1 /\ Quiet
        BY <2>2, <2>5, <3>2 DEF IInv, ReportsOK
      <4>2. ~(\E i \in Presses : chain[i] > s)
        BY <4>1 DEF Quiet, Flying
      <4>3. stored[s] + late[s] <= lost + cut + finished
        BY <2>1, <2>2, <2>5, <4>2 DEF IInv, ReportsOK
      <4>q. QED BY <2>1, <4>1, <4>3
    <3>q. QED BY <3>1, <3>2
  <2>6. CASE dialog.partial = "stays"
    <3>1. s = Len(plan)
      <4>1. \A t \in 1..Len(plan) - 1 : plan[t] \notin Inserts
        BY <2>6 DEF RepeatsOnRetry
      <4>2. CASE Len(plan) = 1
        BY <4>2
      <4>3. CASE Len(plan) = 2
        BY <4>1, <4>3
      <4>q. QED BY <2>4, <4>2, <4>3
    <3>q. QED BY <2>1, <2>2, <2>3, <3>1 DEF IInv, LastOK
  <2>q. QED BY <2>4, <2>5, <2>6
<1>q. QED BY Invariant, <1>1, PTL

\* The page is told of a result only when all that Save sends was stored.
THEOREM Results == Spec => []ResultMeansStored
<1>1. IInv => ResultMeansStored
  BY DEF IInv, ChainsOK, StoredOK, ResultMeansStored
<1>q. QED BY Invariant, <1>1, PTL

\* The page that is told of nothing is up to date, with the four exceptions
\* the property names.
THEOREM Nothing == Spec => []NothingMeansUnchanged
<1>1. IInv => NothingMeansUnchanged
  <2> SUFFICES ASSUME IInv, result = "nothing", Quiet, ~abandoned, lost = 0, cut = 0,
                      NEW s \in 1..Len(plan)
               PROVE  stored[s] = 0
    BY DEF NothingMeansUnchanged
  <2>1. finished = 0
    BY DEF IInv, ChainsOK
  <2>2. ~(\E i \in Presses : chain[i] > s)
    BY DEF Quiet, Flying
  <2>3. ~(stored[s] > 0) /\ stored[s] \in Nat
    BY <2>1, <2>2, StageRange DEF IInv, StoredOK
  <2>q. QED BY <2>3
<1>q. QED BY Invariant, <1>1, PTL

\* The buttons of a guarded dialog stay disabled until the last answer.
THEOREM Shown == Spec => []SavingIsShown
<1>1. IInv => SavingIsShown
  BY DEF IInv, GuardedOK, SavingIsShown
<1>q. QED BY Invariant, <1>1, PTL

\* Only the dialogs that can be saved without their data write an empty form
\* over a record.
THEOREM Blank == Spec => []BlankOnlyUnloaded
<1>1. IInv => BlankOnlyUnloaded
  BY DEF IInv, BlankOK
<1>q. QED BY Invariant, <1>1, PTL

\* Nothing a guarded dialog does is stored after it told the page, but for
\* the requests the property names: what is applied late was given up after
\* an error, and a tag is created beside Save.
THEOREM Told == Spec => NothingStoredAfterTold
<1>1. IInv /\ [Next]_vars =>
         [stored' # stored /\ result = "result" =>
            ~dialog.guardsSave \/ lost > 0 \/ (AtOnce /\ cut > 0) \/ creating]_vars
  <2> SUFFICES ASSUME IInv, Next, stored' # stored, result = "result", dialog.guardsSave
               PROVE  lost > 0 \/ (AtOnce /\ cut > 0) \/ creating
    BY DEF vars
  <2>1. Quiet /\ (Len(plan) = 1 \/ Len(plan) = 2)
    BY RowFacts DEF IInv, GuardedOK
  <2>2. ASSUME NEW i \in Presses, Respond(i) PROVE FALSE
    BY <2>1, <2>2 DEF Respond, Quiet, Flying, NextStage, Finish, Refuse, RefuseSome,
                      LoseAnswer, LastRequest, Tell
  <2>3. ASSUME NEW s \in Slots, ApplyLate(s) PROVE lost > 0 \/ (AtOnce /\ cut > 0)
    BY <2>3 DEF ApplyLate, IInv, LateOK
  <2>4. CASE AnswerTag
    BY <2>4 DEF AnswerTag
  <2>q. QED BY <2>2, <2>3, <2>4 DEF Next, Load, PressSave, Cancel, Dismiss,
                 CloseWithNothing, CreateTag, StartSaving, SaveEnabled
<1>q. QED BY Invariant, <1>1, PTL DEF Spec, NothingStoredAfterTold
====
