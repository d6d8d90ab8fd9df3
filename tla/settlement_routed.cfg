\* A host connects an account; a guest pays; a payout run follows.
SPECIFICATION SettlementSpec
CONSTANTS
    b1 = b1
    o1 = o1
    r1 = r1
    d1 = d1
    d2 = d2
    Booking = {b1}
    Org = {o1}
    Currency = {"KES"}
    OrgOf <- MCOrgOf
    CurrencyOf <- MCCurrencyOf
    Gross <- MCGross
    FeeBasisPoints <- MCFeeBasisPoints
    MinimumPayout = 10
    Run = {r1}
    Refund = {d1, d2}
    StripeAnswer = {"accepted"}
    ProcessCrashes = TRUE
    MaxCrashes = 1
    NoBooking = NoBooking
INVARIANT HostIsPaidOnce
