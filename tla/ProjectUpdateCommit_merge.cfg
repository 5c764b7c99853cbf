SPECIFICATION Spec
CONSTANTS
    Names = {n1, n2, n3}
    Shapes = {s1, s2}
    Work = {w1}
    NoShape = NoShape
    Unplaced = Unplaced
SYMMETRY Symmetry
INVARIANTS TypeOK TreatmentsArePlaced
PROPERTIES LocationsAreInstalled TreatmentsFollowLocations UneditedChangesNothing
