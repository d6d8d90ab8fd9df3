\* One applicant, three overlapping handlers, any of which can die half way.
SPECIFICATION Spec
CONSTANTS
    r1 = r1
    r2 = r2
    r3 = r3
    Request = {r1, r2, r3}
    ProcessCrashes = TRUE
SYMMETRY Symmetry
INVARIANT ActiveHoldsARole
PROPERTY DecisionsStand
