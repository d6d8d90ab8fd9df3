\* Two changes of one licence at once: refutes DisplayIsBacked.
SPECIFICATION Spec
CONSTANTS
    l1 = l1
    l2 = l2
    s1 = s1
    s2 = s2
    e1 = e1
    e2 = e2
    Listing = {l1, l2}
    Country = {"ES", "KE"}
    CountryOf <- MCCountryOf
    Patch <- MCOverlappingPatch
    Sync = {s1}
    Editor = {e1, e2}
    MaxItems = 2
    MaxBusy = 2
    LastDay = 1
    NoListing = NoListing
INVARIANT DisplayIsBacked
