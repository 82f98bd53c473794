SPECIFICATION FairSpec
CONSTANTS
    r1 = r1
    r2 = r2
    none = none
    None = none
    Requests = {r1, r2}
    MaxLength = 2
    Surplus = 1
    Width = 3
    Outcomes = {"value", "broken", "invalid", "exception"}
    CanStop = TRUE
INVARIANTS TypeOK PointerValid FlagMeansAnswered BodyComplete 
PROPERTIES  CleanStop
CHECK_DEADLOCK FALSE
