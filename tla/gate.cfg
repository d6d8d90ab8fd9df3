\* One pass good for two uses, three visits, a scan or two, two overlapping requests, processes that die.
SPECIFICATION Spec
CONSTANTS
    i1 = i1
    v1 = v1
    v2 = v2
    v3 = v3
    c1 = c1
    r1 = r1
    r2 = r2
    Invitation = {i1}
    Visit = {v1, v2, v3}
    Card = {c1}
    Request = {r1, r2}
    MaxUses <- MCMaxUses
    MaxScans = 1
    MaxCutShort = 1
    Nobody = Nobody
SYMMETRY Symmetry
INVARIANTS AdmissionsAreCounted OnlyTheApprovedEnter ScanAgrees HistoryHasNoHole
PROPERTY WithdrawnForGood
CHECK_DEADLOCK FALSE
