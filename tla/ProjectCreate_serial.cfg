SPECIFICATION Spec
CONSTANTS
    Handlers = {h1}
    People = {p1, p2}
    NoPerson = NoPerson
PROPERTY ImplementsWorkflow
