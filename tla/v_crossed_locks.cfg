\* Two placements supersede each other's intents.
SPECIFICATION Spec
CONSTANTS
    Intent = {o1, o2}
    Thread = {t1, t2}
    Price = {p1, p2}
    MaxPriceChanges = 1
    MaxLost = 0
    None = None
SYMMETRY VoiceSymmetry
INVARIANT NoCrossedLocks
