\* A host confirms what a guest has just cancelled.
SPECIFICATION Spec
CONSTANTS
    k1 = k1
    k2 = k2
    g1 = g1
    g2 = g2
    hotel = hotel
    suite = suite
    house = house
    c1 = c1
    c2 = c2
    h1 = h1
    h2 = h2
    Key = {k1, k2}
    Guest = {g1, g2}
    Property = {house}
    Listing = {hotel}
    RoomType = {suite}
    PropertyOf <- MCPropertyOf
    ListingOf <- MCListingOf
    TotalRooms <- MCTotalRooms
    Request <- MCRequest
    Block <- MCBlock
    Caller = {c1, c2}
    Desk = {h1, h2}
    NoRequest = NoRequest
    NoKey = NoKey
SYMMETRY Symmetry
INVARIANTS NeverSoldTwice
