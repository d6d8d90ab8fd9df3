\* Refuted: two requests check a visit out at once, and its exit is stamped twice.
SPECIFICATION Spec
CONSTANTS
    i1 = i1
    v1 = v1
    v2 = v2
    v3 = v3
    c1 = c1
    r1 = r1
    r2 = r2
    Invitation = {i1}
    Visit = {v1}
    Card = {c1}
    Request = {r1, r2}
    MaxUses <- MCMaxUses
    MaxScans = 1
    MaxCutShort = 1
    Nobody = Nobody
INVARIANT ExitIsStampedOnce
CHECK_DEADLOCK FALSE
