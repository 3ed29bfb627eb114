SPECIFICATION Spec
CONSTANTS
    r1 = r1
    w1 = w1
    None = None
    Requests = {r1}
    Inputs <- MCInputs
    Showtimes <- TwoShowtimes
    Sweeper = w1
    Batch = 2
    MaxLapses = 2
    MaxFaults = 1
INVARIANTS
    TypeOK
    StatusTellsEffect
    OneWholeAnswer
    MeasuredOnce
    RaceIsCounted
    CounterDrift
PROPERTY QuietDrains
