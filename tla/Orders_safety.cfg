SPECIFICATION Spec
CONSTANTS
    Requests = {r1, r2}
    Shops = {card, own}
    CardShops = {card}
    Prices = {1, 2}
    PerOrderCap = 1
    PeriodCap = 1
    MaxAsks = 2
    MaxChanges = 1
    MaxDeaths = 1
    None = None
SYMMETRY Symmetry
INVARIANTS PlacedIsBought ChargesAnswered OvershootBounded
PROPERTIES ApprovedCartIsBought
CHECK_DEADLOCK FALSE
