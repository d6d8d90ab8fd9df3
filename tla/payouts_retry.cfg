\* One run after another; Stripe can refuse a transfer once and accept the next.
SPECIFICATION FairSpec
CONSTANTS
    b1 = b1
    b2 = b2
    b3 = b3
    o1 = o1
    o2 = o2
    r1 = r1
    r2 = r2
    d1 = d1
    d2 = d2
    Booking = {b1}
    Org = {o1}
    Currency = {"KES"}
    OrgOf <- MCOrgOf
    CurrencyOf <- MCCurrencyOf
    Gross <- MCGross
    FeeBasisPoints <- MCFeeBasisPoints
    MinimumPayout = 6
    Run = {r1}
    Refund = {}
    StripeAnswer = {"accepted", "refused"}
    ProcessCrashes = FALSE
    NoBooking = NoBooking
PROPERTY RefusedIsRetried
