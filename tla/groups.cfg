\* A group that owes 5 and grows to three travellers, two overlapping handlers that can die.
SPECIFICATION GroupSpec
CONSTANTS
    r1 = r1
    r2 = r2
    Payable = 5
    MaxTravellers = 3
    HandShare = {0, 7}
    Handler = {r1, r2}
    ProcessCrashes = TRUE
SYMMETRY Symmetry
INVARIANTS SharesCoverTheTotal ConfirmedIsCollected
