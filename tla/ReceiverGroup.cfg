SPECIFICATION FairSpec
CONSTANTS
    r1 = r1
    r2 = r2
    r3 = r3
    garbage = garbage
    forever = forever
    Receivers = {r1, r2, r3}
    Founders <- SomeFounders
    Supplied <- SomeSupplied
    Timeouts = {0, 12, forever}
    Indefinite = forever
    Garbage = garbage
    MaxChanges = 2
    MaxWork = 1
    MaxMessages = 2
    MaxThrows = 1
INVARIANTS PassInv Punctual
PROPERTIES ReceiveReturns AllRead
