SPECIFICATION Spec
CONSTANTS
    MaxPerPage = 2
    Day = 2
    Word = Word
    QueryError = QueryError
    FormValues <- MCFormValues
    NewRows <- MCNewRows
    Sorts <- MCSorts
    Calls <- MCCalls
    PerPage = 1
    MaxRows = 3
    MaxRequests = 3
INVARIANTS TypeOK SettledShowsOneLoad RangeCoversTable FiltersExact PagesPartition
CHECK_DEADLOCK FALSE
