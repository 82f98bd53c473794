SPECIFICATION Spec
CONSTANTS
    p1 = p1
    p2 = p2
    p3 = p3
    e1 = e1
    e2 = e2
    meerkat = meerkat
    MEERKAT = meerkat
    Publishers = {p1, p2}
    Events = {e1, e2}
    Wanted = {p1, p2}
    Self = {}
    Announced = {p1, p2}
    Brokered = {}
    Withdrawable = {p1}
    MaxAdds = 1
    MaxSockets = 2
    MaxEvents = 1
    MaxTotal = 4
INVARIANT NeverBlocked
