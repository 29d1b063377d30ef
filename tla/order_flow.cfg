\* Two requests at a time on two baskets, one price change, one lost call.
SPECIFICATION Spec
CONSTANTS
    Intent = {o1, o2}
    Thread = {t1, t2}
    Price = {p1, p2}
    MaxPriceChanges = 1
    MaxLost = 1
    None = None
SYMMETRY VoiceSymmetry
INVARIANTS ChargedAsConfirmed PaidIsPlaced NothingKept
PROPERTY KeepsThePurchase
