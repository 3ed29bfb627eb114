SPECIFICATION FairSpec
CONSTANTS
    r1 = r1
    r2 = r2
    i1 = i1
    a = a
    b = b
    Nobody = Nobody
    Unset = Unset
    Malformed = Malformed
    Millisecond = 2
    Second = 8
    MaxInt32 = 500
    Replicas = {a, b}
    Self = a
    Latest = 2
    Environments <- MCEnvironments
    Requests = {r1, r2}
    Probes = {i1}
    MaxConns = 2
INVARIANTS
    StoreClosesLast
    UnreadyBeforeRefused
    MigrationsDoNotRace
    ServesOnlyMigrated
    SettingsTakeEffect
PROPERTIES
    ShutsDown
    StartsUp
CHECK_DEADLOCK FALSE
