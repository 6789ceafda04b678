SPECIFICATION FairSpec
CONSTANTS
    w1 = w1
    w2 = w2
    Writer = {w1}
    PerPage = 2
    MaxId = 5
INVARIANTS TypeOK NoRowTwice
PROPERTIES ImplementsFeed EveryRowDelivered
