SPECIFICATION FairSpec
CONSTANTS
    p1 = p1
    p2 = p2
    p3 = p3
    e1 = e1
    e2 = e2
    meerkat = meerkat
    MEERKAT = meerkat
    Publishers = {p1, p2, p3}
    Events = {e1, e2}
    Wanted = {p1, p3}
    Self = {p3}
    Announced = {p1, p3}
    Brokered = {p2, p3}
    Withdrawable = {}
    MaxAdds = 1
    MaxSockets = 3
    MaxEvents = 2
    MaxTotal = 4
INVARIANTS  NeverBlocked
 
