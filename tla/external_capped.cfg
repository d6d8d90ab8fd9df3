\* Two listings of one source and a sync that stops after the first: refutes GoneIsDelisted.
SPECIFICATION Spec
CONSTANTS
    l1 = l1
    l2 = l2
    s1 = s1
    s2 = s2
    e1 = e1
    e2 = e2
    Listing = {l1, l2}
    Country = {"ES", "KE"}
    CountryOf <- MCCountryOf
    Patch <- MCPatch
    Sync = {s1}
    Editor = {e1}
    MaxItems = 1
    MaxBusy = 2
    LastDay = 1
    NoListing = NoListing
PROPERTY GoneIsDelisted
