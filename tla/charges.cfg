\* A charge of up to 2, two overlapping handlers, every card payment delivered up to twice.
SPECIFICATION Spec
CONSTANTS
    r1 = r1
    r2 = r2
    MaxAmount = 2
    Request = {r1, r2}
    DeliveryBound = 2
    ProcessCrashes = TRUE
SYMMETRY Symmetry
INVARIANTS PaidWasCovered AnsweredIsPosted PostedOnce
PROPERTY WaivedAtTheDesk
CHECK_DEADLOCK FALSE
