\* One run, two refunds of one booking at once; Stripe answers every call.
SPECIFICATION Spec
CONSTANTS
    b1 = b1
    b2 = b2
    b3 = b3
    o1 = o1
    o2 = o2
    r1 = r1
    r2 = r2
    d1 = d1
    d2 = d2
    Booking = {b1, b2}
    Org = {o1}
    Currency = {"KES"}
    OrgOf <- MCOrgOf
    CurrencyOf <- MCCurrencyOf
    Gross <- MCGross
    FeeBasisPoints <- MCFeeBasisPoints
    MinimumPayout = 7
    Run = {r1}
    Refund = {d1, d2}
    StripeAnswer = {"accepted"}
    ProcessCrashes = FALSE
    NoBooking = NoBooking
INVARIANT ClawedBackOnce
