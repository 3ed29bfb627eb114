SPECIFICATION FairSpec
CONSTANTS
    c1 = c1
    c2 = c2
    h1 = h1
    h2 = h2
    u1 = u1
    k1 = k1
    k2 = k2
    r1 = r1
    r2 = r2
    None = None
    Clients = {c1, c2}
    Sweepers = {}
    Showtimes <- ManyShows
    Catalog <- KnownShows
    SalesOpen <- OpenShows
    SeatIds <- TwoSeats
    SeatsOf <- SeatsOfMany
    SeatLists <- OddLists
    HoldIds = {h1, h2}
    Customers = {u1}
    Keys = {k1, k2}
    Refs = {r1, r2}
    PriceMinor <- PriceOfMany
    HoldTTL = 1
    MaxSeatsPerHold = 1
    RefAttempts = 2
    SweepBatch = 1
    MaxTime = 0
INVARIANTS
    TypeOK
    BookedIffConfirmed
    BookingsAreUnique
    AnswersAreTrue
    HoldsAreLegal
PROPERTY RequestAnswered
