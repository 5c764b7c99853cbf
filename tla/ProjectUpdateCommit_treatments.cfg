SPECIFICATION Spec
CONSTANTS
    Names = {n1, n2}
    Shapes = {s1, s2}
    Work = {w1, w2}
    NoShape = NoShape
    Unplaced = Unplaced
PROPERTY CommitsAllChanges
