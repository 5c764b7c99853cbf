SPECIFICATION Spec
CONSTANTS
    Handlers = {h1, h2, h3}
    People = {p1, p2}
    NoPerson = NoPerson
SYMMETRY Symmetry
INVARIANTS TypeOK SubmittedIsComplete DecidedIsReviewed
