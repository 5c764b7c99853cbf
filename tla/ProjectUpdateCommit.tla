------------------------ MODULE ProjectUpdateCommit ------------------------
(***************************************************************************)
(* The detailed locations of a project and its treatments on their way      *)
(* through an update: copied into the batch, edited or reverted there, and  *)
(* merged back by pCommitProjectUpdateToProject.  Unlike the other tables,  *)
(* which ProjectUpdateBatch treats as one set of rows, these two are merged *)
(* by location name, and a treatment has no key of its own.                 *)
(*                                                                          *)
(* The shape of a location is its geometry; type and notes are merged along *)
(* with it and left out.  A treatment is a piece of work at a location or   *)
(* at none; rows equal in both are one.  One request runs at a time; a      *)
(* start that fails half way is in ProjectUpdateBatch.                      *)
(***************************************************************************)
EXTENDS Functions

CONSTANTS Names,     \* location names, unique in a project and in a batch
          Shapes,    \* geometries of locations
          Work,      \* what a treatment consists of, except where it is
          NoShape,   \* there is no location of this name
          Unplaced   \* a null ProjectLocationID or ProjectLocationUpdateID

ASSUME NullsAssumption == NoShape \notin Shapes /\ Unplaced \notin Names

VARIABLES
    location,         \* ProjectLocation, by name
    treatment,        \* Treatment: pairs of a piece of work and its place
    open,             \* TRUE iff a batch is in progress
    locationUpdate,   \* ProjectLocationUpdate of that batch
    treatmentUpdate,  \* TreatmentUpdate of that batch
    reverting,        \* how far RevertLocationDetailedStepAsync has come
    edited            \* history variable: changed since the start or the last merge

projectTables == <<location, treatment>>
batchTables == <<locationUpdate, treatmentUpdate>>
vars == <<location, treatment, open, locationUpdate, treatmentUpdate, reverting, edited>>

Places == Names \cup {Unplaced}
NoLocations == [n \in Names |-> NoShape]
NamesIn(locations) == {n \in Names : locations[n] # NoShape}
PlacedIn(treatments) == {t \in treatments : t[2] # Unplaced}
UnplacedIn(treatments) == {t \in treatments : t[2] = Unplaced}
Occupied(treatments) == {t[2] : t \in PlacedIn(treatments)}
FitsIn(treatments, locations) == Occupied(treatments) \subseteq NamesIn(locations)

Init ==
    /\ location \in [Names -> Shapes \cup {NoShape}]
    /\ treatment \in SUBSET (Work \X Places)
    /\ FitsIn(treatment, location)
    /\ open = FALSE
    /\ locationUpdate = NoLocations
    /\ treatmentUpdate = {}
    /\ reverting = "no"
    /\ edited = FALSE

----------------------------------------------------------------------------
(* Copying the project into the batch.                                      *)

\* Mutant: the wrong column of the matched location.
RematchedWrongColumn(treatments, from, to) ==
    {<<t[1], to[t[2]]>> : t \in PlacedIn(treatments)}

\* Treatments with a location go to the copy of the same name and geometry, if any.
Rematched(treatments, from, to) ==
    {<<t[1], IF from[t[2]] = to[t[2]] THEN t[2] ELSE Unplaced>> : t \in PlacedIn(treatments)}

Copied(treatments, from, to) ==
    Rematched(treatments, from, to) \cup UnplacedIn(treatments)

StartBatch ==
    /\ ~open
    /\ open' = TRUE
    /\ locationUpdate' = location
    /\ treatmentUpdate' = Copied(treatment, location, locationUpdate')
    /\ edited' = FALSE
    /\ UNCHANGED <<projectTables, reverting>>

----------------------------------------------------------------------------
(* Editing the batch.                                                       *)

Editing == open /\ reverting = "no" /\ edited' = TRUE /\ UNCHANGED <<projectTables, open>>

\* EF orders the statements of a save so that a name is free before it is taken (the
\* unique index is in its model).  It cannot for rows that exchange their names.
SwapsNames(kept, renamed) ==
    \E rows \in SUBSET kept :
        {renamed[n] : n \in rows} = rows /\ \E n \in rows : renamed[n] # n

\* A save keeps some rows, perhaps under new names, drops others only if no treatment
\* refers to them, and adds new ones.
SaveLocationDetailed ==
    /\ Editing
    /\ \E kept \in SUBSET NamesIn(locationUpdate), next \in [Names -> Shapes \cup {NoShape}] :
        \E renamed \in [kept -> NamesIn(next)] :
            /\ IsInjective(renamed)
            /\ ~SwapsNames(kept, renamed)
            /\ Occupied(treatmentUpdate) \subseteq kept
            /\ locationUpdate' = next
            /\ treatmentUpdate' =
                {<<t[1], IF t[2] \in kept THEN renamed[t[2]] ELSE Unplaced>> : t \in treatmentUpdate}
    /\ UNCHANGED reverting

\* SaveTreatmentsStepAsync, CreateTreatmentUpdateAsync, UpdateTreatmentUpdateAsync.
SaveTreatments ==
    /\ Editing
    /\ treatmentUpdate' \in SUBSET (Work \X (NamesIn(locationUpdate) \cup {Unplaced}))
    /\ UNCHANGED <<locationUpdate, reverting>>

RevertTreatments ==
    /\ Editing
    /\ treatmentUpdate' = Rematched(treatment, location, locationUpdate)
    /\ UNCHANGED <<locationUpdate, reverting>>

\* RevertLocationDetailedStepAsync saves three times: the deletions, the locations,
\* the treatments.
RevertDeletes ==
    /\ Editing
    /\ locationUpdate' = NoLocations
    /\ treatmentUpdate' = {}
    /\ reverting' = "deleted"

RevertCopiesLocations ==
    /\ reverting = "deleted"
    /\ locationUpdate' = location
    /\ reverting' = "located"
    /\ UNCHANGED <<projectTables, open, treatmentUpdate, edited>>

RevertCopiesTreatments ==
    /\ reverting = "located"
    /\ treatmentUpdate' = treatmentUpdate \cup Rematched(treatment, location, locationUpdate)
    /\ reverting' = "no"
    /\ UNCHANGED <<projectTables, open, locationUpdate, edited>>

\* The request ends between two of its saves.
RevertFails ==
    /\ reverting # "no"
    /\ reverting' = "no"
    /\ UNCHANGED <<projectTables, open, batchTables, edited>>

DeleteBatch ==
    /\ open
    /\ reverting = "no"
    /\ open' = FALSE
    /\ locationUpdate' = NoLocations
    /\ treatmentUpdate' = {}
    /\ UNCHANGED <<projectTables, reverting, edited>>

----------------------------------------------------------------------------
(* pCommitProjectUpdateToProject, one statement after the other.            *)

\* Mutant: only the treatments without a location are deleted.
DeletesUnplacedOnly(treatments, batchLocations) == PlacedIn(treatments)

\* Section 4: a treatment stays if its location's name is in the batch.
TreatmentsAfterDelete(treatments, batchLocations) ==
    {t \in PlacedIn(treatments) : t[2] \in NamesIn(batchLocations)}

LocationsAfterDelete(locations, batchLocations) ==
    [n \in Names |-> IF n \in NamesIn(batchLocations) THEN locations[n] ELSE NoShape]

\* Mutant: a location that is already there is not updated.
InsertsNewOnly(locations, batchLocations) ==
    [n \in Names |-> IF n \in NamesIn(locations) THEN locations[n] ELSE batchLocations[n]]

\* Sections 4b and 5: locations matched by name are updated, the others inserted.
UpdatedAndInserted(locations, batchLocations) ==
    [n \in Names |-> IF n \in NamesIn(batchLocations) THEN batchLocations[n] ELSE locations[n]]

\* Mutant: the treatments of every location of the batch are inserted.
InsertsAll(treatments, newNames) == treatments

\* Section 6: treatments of new locations, and those without one.
TreatmentsInserted(treatments, newNames) ==
    {t \in treatments : t[2] \in newNames \cup {Unplaced}}

\* ApproveAsync: the procedure is one transaction, a failure of which changes nothing.
\* The request may end after it, before the batch is marked approved.
Approve ==
    /\ open
    /\ reverting = "no"
    /\ LET keptTreatments == TreatmentsAfterDelete(treatment, locationUpdate)
           keptLocations == LocationsAfterDelete(location, locationUpdate)
           newNames == NamesIn(locationUpdate) \ NamesIn(keptLocations)
       IN  /\ location' = UpdatedAndInserted(keptLocations, locationUpdate)
           /\ treatment' = keptTreatments \cup TreatmentsInserted(treatmentUpdate, newNames)
    /\ \/ open' = FALSE /\ locationUpdate' = NoLocations /\ treatmentUpdate' = {}
       \/ UNCHANGED <<open, batchTables>>
    /\ edited' = FALSE
    /\ UNCHANGED reverting

Next ==
    \/ StartBatch
    \/ SaveLocationDetailed
    \/ SaveTreatments
    \/ RevertTreatments
    \/ RevertDeletes
    \/ RevertCopiesLocations
    \/ RevertCopiesTreatments
    \/ RevertFails
    \/ DeleteBatch
    \/ Approve

Spec == Init /\ [][Next]_vars

----------------------------------------------------------------------------
(* Properties.                                                              *)

\* Every table has a value of its type.
TypeOK ==
    /\ location \in [Names -> Shapes \cup {NoShape}]
    /\ treatment \in SUBSET (Work \X Places)
    /\ open \in BOOLEAN
    /\ locationUpdate \in [Names -> Shapes \cup {NoShape}]
    /\ treatmentUpdate \in SUBSET (Work \X Places)
    /\ reverting \in {"no", "deleted", "located"}
    /\ edited \in BOOLEAN

\* The foreign keys of treatments hold in the project and in the batch: no merge,
\* rename, removal or revert, finished or not, leaves a treatment at a location
\* that is gone (the merge deletes treatments by name before the locations).
TreatmentsArePlaced ==
    /\ FitsIn(treatment, location)
    /\ FitsIn(treatmentUpdate, locationUpdate)

\* An approval gives the project exactly the locations of the batch, whatever was
\* renamed, removed, added again or reshaped in it.
LocationsAreInstalled == [][projectTables' # projectTables => location' = locationUpdate]_vars

\* "unchanged locations keep their treatments" (section 6): at a location whose
\* name the batch still has, the project's treatments neither vanish nor double.
KeptLocationsKeepTreatments ==
    [][\A n \in NamesIn(location) \cap NamesIn(location') :
        {t \in treatment : t[2] = n} = {t \in treatment' : t[2] = n}]_vars

\* Where the project had no location of the name, and for treatments without a
\* location, an approval leaves exactly the treatments of the batch: section 4 deletes
\* what the project had there, section 6 inserts them after the locations they are at.
NewLocationsGetTreatments ==
    [][projectTables' # projectTables =>
        \A n \in Places \ NamesIn(location) :
            {t \in treatmentUpdate : t[2] = n} = {t \in treatment' : t[2] = n}]_vars

\* So an approval takes the treatments of a location from the project where the name
\* stays, and from the batch where it is new.
TreatmentsFollowLocations == KeptLocationsKeepTreatments /\ NewLocationsGetTreatments

\* Approving a batch nobody changed does not change the project: what the start
\* copies and what the approval deletes and inserts cancel out, and a merge that is
\* repeated, because it was cut off before the batch was marked, finds nothing to do.
UneditedChangesNothing == [][~edited => UNCHANGED projectTables]_vars

\* "Commits all changes from the Update tables to the Project tables."
\* (CommitChangesToProjectAsync): what the approval leaves in the project are the
\* treatments of the batch.
CommitsAllChanges == [][projectTables' # projectTables => treatment' = treatmentUpdate]_vars
=============================================================================
