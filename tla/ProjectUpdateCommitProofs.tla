--------------------- MODULE ProjectUpdateCommitProofs ---------------------
(* What ProjectUpdateCommit promises, for every set of names, shapes and    *)
(* pieces of work.                                                          *)
EXTENDS ProjectUpdateCommit, TLAPS

\* A revert in progress has emptied the treatments of an edited, open batch.  A batch
\* nobody changed since its start or its merge has the locations of the project and
\* its treatments without a location; the others may differ after a merge.
CopyInv ==
    /\ reverting # "no" => open /\ edited /\ treatmentUpdate = {}
    /\ open /\ ~edited => /\ locationUpdate = location
                           /\ UnplacedIn(treatmentUpdate) = UnplacedIn(treatment)

CommitIInv == TypeOK /\ TreatmentsArePlaced /\ CopyInv

Merged == UpdatedAndInserted(LocationsAfterDelete(location, locationUpdate), locationUpdate)

----------------------------------------------------------------------------
(* The operators of the copy and of the merge.                              *)

\* The statements on ProjectLocation leave exactly the locations of the batch.
LEMMA MergedLocations ==
    ASSUME TypeOK
    PROVE  Merged = locationUpdate
BY DEF Merged, UpdatedAndInserted, LocationsAfterDelete, NamesIn, TypeOK

\* Copying to unchanged locations keeps every placed treatment where it is.
LEMMA RematchedSame ==
    ASSUME NEW treatments \in SUBSET (Work \X Places), NEW locations
    PROVE  Rematched(treatments, locations, locations) = PlacedIn(treatments)
<1>1. \A t \in PlacedIn(treatments) : <<t[1], t[2]>> = t
  BY DEF PlacedIn
<1>2. QED
  BY <1>1 DEF Rematched, PlacedIn

LEMMA CopiedSame ==
    ASSUME NEW treatments \in SUBSET (Work \X Places), NEW locations
    PROVE  Copied(treatments, locations, locations) = treatments
BY RematchedSame DEF Copied, PlacedIn, UnplacedIn

\* A rematched treatment has the type of one and is placed where its copy is.
LEMMA RematchedFits ==
    ASSUME NullsAssumption, TypeOK, FitsIn(treatment, location),
           NEW to \in [Names -> Shapes \cup {NoShape}]
    PROVE  /\ Rematched(treatment, location, to) \in SUBSET (Work \X Places)
           /\ FitsIn(Rematched(treatment, location, to), to)
<1> DEFINE moved(t) == <<t[1], IF location[t[2]] = to[t[2]] THEN t[2] ELSE Unplaced>>
<1>1. ASSUME NEW t \in PlacedIn(treatment)
      PROVE  /\ moved(t) \in Work \X Places
             /\ moved(t)[2] # Unplaced => moved(t)[2] \in NamesIn(to)
  <2>1. t \in Work \X Places /\ t[2] \in Names /\ t[2] \in NamesIn(location)
    BY <1>1 DEF PlacedIn, Places, TypeOK, FitsIn, Occupied, NamesIn
  <2>2. QED
    BY <2>1 DEF Places, NamesIn
<1>2. Rematched(treatment, location, to) = {moved(t) : t \in PlacedIn(treatment)}
  BY DEF Rematched
<1>3. QED
  BY <1>1, <1>2 DEF FitsIn, Occupied, PlacedIn

----------------------------------------------------------------------------
(* The inductive invariant.                                                 *)

LEMMA ApproveStep ==
    ASSUME CommitIInv, Approve
    PROVE  CommitIInv' /\ location' = locationUpdate
<1> DEFINE kept == TreatmentsAfterDelete(treatment, locationUpdate)
           new == NamesIn(locationUpdate) \ NamesIn(LocationsAfterDelete(location, locationUpdate))
<1> USE DEF CommitIInv, TypeOK
<1>1. location' = Merged /\ treatment' = kept \cup TreatmentsInserted(treatmentUpdate, new)
  BY DEF Approve, Merged
<1>2. location' = locationUpdate
  BY <1>1, MergedLocations
<1>3. treatment' \in SUBSET (Work \X Places)
  BY <1>1 DEF TreatmentsAfterDelete, TreatmentsInserted, PlacedIn
<1>4. FitsIn(treatment', location')
  BY <1>1, <1>2 DEF FitsIn, Occupied, PlacedIn, TreatmentsAfterDelete, TreatmentsInserted
<1>5. UnplacedIn(treatment') = UnplacedIn(treatmentUpdate)
  BY <1>1 DEF UnplacedIn, TreatmentsAfterDelete, TreatmentsInserted, PlacedIn
<1>6. reverting' = "no" /\ edited' = FALSE
  BY DEF Approve
<1>7. CASE open' = FALSE /\ locationUpdate' = NoLocations /\ treatmentUpdate' = {}
  BY <1>2, <1>3, <1>4, <1>6, <1>7
     DEF NoLocations, TreatmentsArePlaced, FitsIn, Occupied, PlacedIn, CopyInv
<1>8. CASE UNCHANGED <<open, batchTables>>
  BY <1>2, <1>3, <1>4, <1>5, <1>6, <1>8 DEF batchTables, TreatmentsArePlaced, CopyInv
<1>9. QED
  BY <1>7, <1>8 DEF Approve

LEMMA SaveLocationStep ==
    ASSUME NullsAssumption, CommitIInv, SaveLocationDetailed
    PROVE  CommitIInv'
<1>1. PICK kept \in SUBSET NamesIn(locationUpdate), next \in [Names -> Shapes \cup {NoShape}] :
        \E renamed \in [kept -> NamesIn(next)] :
            /\ IsInjective(renamed)
            /\ ~SwapsNames(kept, renamed)
            /\ Occupied(treatmentUpdate) \subseteq kept
            /\ locationUpdate' = next
            /\ treatmentUpdate' =
                {<<t[1], IF t[2] \in kept THEN renamed[t[2]] ELSE Unplaced>> : t \in treatmentUpdate}
  BY Zenon DEF SaveLocationDetailed
<1>2. PICK renamed \in [kept -> NamesIn(next)] :
            /\ locationUpdate' = next
            /\ treatmentUpdate' =
                {<<t[1], IF t[2] \in kept THEN renamed[t[2]] ELSE Unplaced>> : t \in treatmentUpdate}
  BY <1>1
<1> USE DEF CommitIInv, TypeOK
<1>3. \A t \in treatmentUpdate :
        LET moved == <<t[1], IF t[2] \in kept THEN renamed[t[2]] ELSE Unplaced>>
        IN  /\ moved \in Work \X Places
            /\ moved[2] # Unplaced => moved[2] \in NamesIn(next)
  BY DEF Places, NamesIn
<1>4. treatmentUpdate' \in SUBSET (Work \X Places) /\ FitsIn(treatmentUpdate', locationUpdate')
  BY <1>2, <1>3 DEF FitsIn, Occupied, PlacedIn
<1>5. UNCHANGED <<location, treatment, open, reverting>> /\ edited' = TRUE /\ reverting = "no"
  BY DEF SaveLocationDetailed, Editing, projectTables
<1>6. QED
  BY <1>2, <1>4, <1>5 DEF TreatmentsArePlaced, CopyInv

LEMMA CommitInductive ==
    ASSUME NullsAssumption, CommitIInv, [Next]_vars
    PROVE  CommitIInv'
<1> USE DEF CommitIInv, TypeOK
<1>1. CASE StartBatch
  <2>1. treatmentUpdate' = treatment /\ locationUpdate' = location
    BY <1>1, CopiedSame DEF StartBatch
  <2>2. QED
    BY <1>1, <2>1 DEF StartBatch, projectTables, TreatmentsArePlaced, CopyInv
<1>2. CASE SaveLocationDetailed
  BY <1>2, SaveLocationStep
<1>3. CASE SaveTreatments
  <2>1. /\ treatmentUpdate' \in SUBSET (Work \X Places)
        /\ FitsIn(treatmentUpdate', locationUpdate')
    BY <1>3 DEF SaveTreatments, Places, NamesIn, FitsIn, Occupied, PlacedIn
  <2>2. QED
    BY <1>3, <2>1 DEF SaveTreatments, Editing, projectTables, TreatmentsArePlaced, CopyInv
<1>4. CASE RevertTreatments
  <2>1. /\ treatmentUpdate' \in SUBSET (Work \X Places)
        /\ FitsIn(treatmentUpdate', locationUpdate)
    BY <1>4, RematchedFits DEF RevertTreatments, TreatmentsArePlaced
  <2>2. QED
    BY <1>4, <2>1 DEF RevertTreatments, Editing, projectTables, TreatmentsArePlaced, CopyInv
<1>5. CASE RevertDeletes
  BY <1>5 DEF RevertDeletes, Editing, projectTables, NoLocations, TreatmentsArePlaced, FitsIn,
              Occupied, PlacedIn, CopyInv
<1>6. CASE RevertCopiesLocations
  BY <1>6 DEF RevertCopiesLocations, projectTables, TreatmentsArePlaced, FitsIn, Occupied,
              PlacedIn, CopyInv
<1>7. CASE RevertCopiesTreatments
  <2>1. treatmentUpdate' = Rematched(treatment, location, locationUpdate)
    BY <1>7 DEF RevertCopiesTreatments, CopyInv
  <2>2. /\ treatmentUpdate' \in SUBSET (Work \X Places)
        /\ FitsIn(treatmentUpdate', locationUpdate)
    BY <2>1, RematchedFits DEF TreatmentsArePlaced
  <2>3. QED
    BY <1>7, <2>2 DEF RevertCopiesTreatments, projectTables, TreatmentsArePlaced, CopyInv
<1>8. CASE RevertFails
  BY <1>8 DEF RevertFails, projectTables, batchTables, TreatmentsArePlaced, CopyInv
<1>9. CASE DeleteBatch
  BY <1>9 DEF DeleteBatch, projectTables, NoLocations, TreatmentsArePlaced, FitsIn, Occupied,
              PlacedIn, CopyInv
<1>10. CASE Approve
  BY <1>10, ApproveStep
<1>11. CASE UNCHANGED vars
  BY <1>11 DEF vars, TreatmentsArePlaced, CopyInv
<1>12. QED
  BY <1>1, <1>2, <1>3, <1>4, <1>5, <1>6, <1>7, <1>8, <1>9, <1>10, <1>11 DEF Next

LEMMA CommitInvariant == Spec => []CommitIInv
<1>1. Init => CommitIInv
  BY DEF Init, CommitIInv, TypeOK, NoLocations, TreatmentsArePlaced, FitsIn, Occupied, PlacedIn,
         CopyInv
<1>2. CommitIInv /\ [Next]_vars => CommitIInv'
  BY NullsAssumption, CommitInductive
<1>3. QED
  BY <1>1, <1>2, PTL DEF Spec

\* Only an approval writes the project.
LEMMA OnlyApprovals ==
    ASSUME [Next]_vars, ~Approve
    PROVE  UNCHANGED projectTables
BY DEF Next, StartBatch, SaveLocationDetailed, SaveTreatments, RevertTreatments, RevertDeletes,
       RevertCopiesLocations, RevertCopiesTreatments, RevertFails, DeleteBatch, Editing, vars,
       projectTables

----------------------------------------------------------------------------
(* The theorems.                                                            *)

\* The project's and the batch's tables have values of their types.
THEOREM CommitTypeCorrect == Spec => []TypeOK
BY CommitInvariant, PTL DEF CommitIInv

\* No treatment is left at a location that is gone (the foreign keys of Treatment
\* and TreatmentUpdate), in the project or in the batch.
THEOREM TreatmentsPlaced == Spec => []TreatmentsArePlaced
BY CommitInvariant, PTL DEF CommitIInv

\* pCommitProjectUpdateToProject gives the project exactly the batch's locations.
THEOREM LocationsInstalled == Spec => LocationsAreInstalled
<1>1. CommitIInv /\ [Next]_vars =>
        [projectTables' # projectTables => location' = locationUpdate]_vars
  BY ApproveStep, OnlyApprovals
<1>2. QED
  BY <1>1, CommitInvariant, PTL DEF Spec, LocationsAreInstalled

\* Treatments of a location whose name stays are neither lost nor doubled.
THEOREM KeptTreatments == Spec => KeptLocationsKeepTreatments
<1> DEFINE Same == \A n \in NamesIn(location) \cap NamesIn(location') :
                       {t \in treatment : t[2] = n} = {t \in treatment' : t[2] = n}
<1>1. ASSUME CommitIInv, Approve PROVE Same
  <2>1. location' = locationUpdate
    BY <1>1, ApproveStep
  <2> DEFINE kept == TreatmentsAfterDelete(treatment, locationUpdate)
             new == NamesIn(locationUpdate)
                        \ NamesIn(LocationsAfterDelete(location, locationUpdate))
  <2>2. treatment' = kept \cup TreatmentsInserted(treatmentUpdate, new)
    BY <1>1 DEF Approve
  <2>3. ASSUME NEW n \in NamesIn(location) \cap NamesIn(location')
        PROVE  {t \in treatment : t[2] = n} = {t \in treatment' : t[2] = n}
    <3>1. n \in Names /\ n # Unplaced /\ n \notin new
      BY <2>1, <2>3, NullsAssumption DEF NamesIn, LocationsAfterDelete
    <3>2. \A t : t[2] = n => (t \in kept <=> t \in treatment)
      BY <2>1, <2>3, <3>1 DEF TreatmentsAfterDelete, PlacedIn
    <3>3. \A t \in TreatmentsInserted(treatmentUpdate, new) : t[2] # n
      BY <3>1 DEF TreatmentsInserted
    <3>4. QED
      BY <2>2, <3>2, <3>3
  <2>4. QED
    BY <2>3
<1>2. ASSUME CommitIInv, [Next]_vars PROVE [Same]_vars
  BY <1>1, <1>2, OnlyApprovals DEF projectTables
<1>3. QED
  BY <1>2, CommitInvariant, PTL DEF Spec, KeptLocationsKeepTreatments

\* Treatments of a new location, or of none, are those of the batch.
THEOREM NewTreatments == Spec => NewLocationsGetTreatments
<1> DEFINE Batches == \A n \in Places \ NamesIn(location) :
                          {t \in treatmentUpdate : t[2] = n} = {t \in treatment' : t[2] = n}
<1>1. ASSUME CommitIInv, Approve PROVE Batches
  <2> DEFINE kept == TreatmentsAfterDelete(treatment, locationUpdate)
             new == NamesIn(locationUpdate)
                        \ NamesIn(LocationsAfterDelete(location, locationUpdate))
  <2>1. treatment' = kept \cup TreatmentsInserted(treatmentUpdate, new)
    BY <1>1 DEF Approve
  <2>2. ASSUME NEW n \in Places \ NamesIn(location)
        PROVE  {t \in treatmentUpdate : t[2] = n} = {t \in treatment' : t[2] = n}
    <3>1. \A t \in kept : t[2] # n
      BY <1>1 DEF CommitIInv, TreatmentsArePlaced, FitsIn, Occupied, TreatmentsAfterDelete, PlacedIn
    <3>2. ASSUME NEW t \in treatmentUpdate, t[2] = n PROVE n \in new \cup {Unplaced}
      <4>1. CASE n = Unplaced
        BY <4>1
      <4>2. CASE n # Unplaced
        <5>1. n \in NamesIn(locationUpdate)
          BY <1>1, <3>2, <4>2 DEF CommitIInv, TreatmentsArePlaced, FitsIn, Occupied, PlacedIn
        <5>2. n \notin NamesIn(LocationsAfterDelete(location, locationUpdate))
          BY <5>1 DEF NamesIn, LocationsAfterDelete
        <5>3. QED
          BY <5>1, <5>2
      <4>3. QED
        BY <4>1, <4>2
    <3>3. \A t : t \in TreatmentsInserted(treatmentUpdate, new) <=>
                   t \in treatmentUpdate /\ t[2] \in new \cup {Unplaced}
      BY DEF TreatmentsInserted
    <3>4. QED
      BY <2>1, <3>1, <3>2, <3>3
  <2>3. QED
    BY <2>2
<1>2. ASSUME CommitIInv, [Next]_vars PROVE [projectTables' # projectTables => Batches]_vars
  BY <1>1, <1>2, OnlyApprovals
<1>3. QED
  BY <1>2, CommitInvariant, PTL DEF Spec, NewLocationsGetTreatments

\* pCommitProjectUpdateToProject matches treatments by the names of their locations.
THEOREM TreatmentsFollow == Spec => TreatmentsFollowLocations
BY KeptTreatments, NewTreatments DEF TreatmentsFollowLocations

\* pStartProjectUpdateBatch and pCommitProjectUpdateToProject cancel out: approving
\* a batch nobody changed, or merging one again, leaves the project as it is.
THEOREM UneditedIsNeutral == Spec => UneditedChangesNothing
<1>1. ASSUME CommitIInv, Approve, ~edited PROVE UNCHANGED projectTables
  <2>1. locationUpdate = location /\ UnplacedIn(treatmentUpdate) = UnplacedIn(treatment)
    BY <1>1 DEF CommitIInv, CopyInv, Approve
  <2>2. location' = location
    BY <1>1, <2>1, ApproveStep
  <2> DEFINE new == NamesIn(location) \ NamesIn(LocationsAfterDelete(location, location))
  <2>3. new = {}
    BY DEF NamesIn, LocationsAfterDelete
  <2>4. treatment' = TreatmentsAfterDelete(treatment, location)
                        \cup TreatmentsInserted(treatmentUpdate, new)
    BY <1>1, <2>1 DEF Approve
  <2>5. TreatmentsAfterDelete(treatment, location) = PlacedIn(treatment)
    BY <1>1 DEF CommitIInv, TreatmentsArePlaced, TreatmentsAfterDelete, FitsIn, Occupied, PlacedIn
  <2>6. TreatmentsInserted(treatmentUpdate, new) = UnplacedIn(treatment)
    BY <2>1, <2>3 DEF TreatmentsInserted, UnplacedIn
  <2>7. treatment' = treatment
    BY <2>4, <2>5, <2>6 DEF PlacedIn, UnplacedIn
  <2>8. QED
    BY <2>2, <2>7 DEF projectTables
<1>2. ASSUME CommitIInv, [Next]_vars PROVE [~edited => UNCHANGED projectTables]_vars
  BY <1>1, <1>2, OnlyApprovals
<1>3. QED
  BY <1>2, CommitInvariant, PTL DEF Spec, UneditedChangesNothing
=============================================================================
