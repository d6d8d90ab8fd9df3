\* Two listings of one source, two syncs and one change of the licence at once.
SPECIFICATION Spec
CONSTANTS
    l1 = l1
    l2 = l2
    s1 = s1
    s2 = s2
    e1 = e1
    e2 = e2
    Listing = {l1, l2}
    Country = {"ES", "KE"}
    CountryOf <- MCCountryOf
    Patch <- MCPatch
    Sync = {s1, s2}
    Editor = {e1}
    MaxItems = 2
    MaxBusy = 2
    LastDay = 1
    NoListing = NoListing
SYMMETRY Symmetry
INVARIANTS SyncIsExact SweepIsExact
PROPERTY TakedownIsForGood
