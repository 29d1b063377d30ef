\* Two baskets are confirmed in one session.
SPECIFICATION Spec
CONSTANTS
    Intent = {o1, o2, o3}
    Thread = {t1}
    Price = {p1, p2}
    MaxPriceChanges = 0
    MaxLost = 0
    None = None
INVARIANT OneUnconfirmedIntent
