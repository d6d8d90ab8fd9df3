\* Two overlapping runs and two refund handlers, crashes and refusals; every booking is worth sending.
SPECIFICATION Spec
CONSTANTS
    b1 = b1
    b2 = b2
    b3 = b3
    o1 = o1
    o2 = o2
    r1 = r1
    r2 = r2
    d1 = d1
    d2 = d2
    Booking = {b1, b2}
    Org = {o1}
    Currency = {"KES"}
    OrgOf <- MCOrgOf
    CurrencyOf <- MCCurrencyOf
    Gross <- MCGross
    FeeBasisPoints <- MCFeeBasisPoints
    MinimumPayout = 7
    Run = {r1, r2}
    Refund = {d1, d2}
    StripeAnswer = {"accepted", "refused"}
    ProcessCrashes = TRUE
    NoBooking = NoBooking
SYMMETRY Symmetry
INVARIANTS TypeOK ClaimedOnce PaidOnce SentIsSettled PayoutsWereDue ClawbacksAreExact
PROPERTIES PayoutsEndOnce PromiseKept
