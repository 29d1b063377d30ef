\* An order that is being packed is not cancelled when its capture fails.
SPECIFICATION Spec
CONSTANTS
    Intent = {o1}
    Thread = {t1}
    Price = {p1, p2}
    MaxPriceChanges = 0
    MaxLost = 0
    None = None
INVARIANT NeverUnpaid
