SPECIFICATION Spec
CONSTANTS
    c1 = c1
    c2 = c2
    w1 = w1
    h1 = h1
    h2 = h2
    u1 = u1
    k1 = k1
    r1 = r1
    None = None
    Clients = {c1, c2}
    Sweepers = {w1}
    Showtimes <- OneShow
    Catalog <- OneShow
    SalesOpen <- OneShow
    SeatIds <- TwoSeats
    SeatsOf <- SeatsOfOne
    SeatLists <- PlainLists
    HoldIds = {h1, h2}
    Customers = {u1}
    Keys = {k1}
    Refs = {r1}
    PriceMinor <- PriceOfOne
    HoldTTL = 1
    MaxSeatsPerHold = 2
    RefAttempts = 1
    SweepBatch = 1
    MaxTime = 2
SYMMETRY Symmetric
INVARIANTS
    OneUnreleasedRow
    NoSeatRaceLost
    BookedIffConfirmed
    LiveHoldIsWhole
    AnswersAreTrue
PROPERTIES
    SoldForever
    RefinesLedger
