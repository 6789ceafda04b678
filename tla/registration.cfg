SPECIFICATION Spec
CONSTANTS
    t1 = t1
    t2 = t2
    a1 = a1
    a2 = a2
    f1 = f1
    f2 = f2
    Terminal = {t1, t2}
    Address = {a1, a2}
    Padded = {t2}
    NoSerial = NoSerial
    NoAddress = NoAddress
    Form = {f1, f2}
    Seeder = seeder
    Seeds <- MCSeeds
    MaxMoves = 2
INVARIANTS TypeOK AddressOnce OneRowPerTerminal SerialNumberIsOwn SeedAccounted
    RemovedStaysRemoved
