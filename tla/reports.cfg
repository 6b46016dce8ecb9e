SPECIFICATION ReportsSpec
CONSTANTS
    Names = {n1}
    MaxPrints = 2
    MaxWire = 1
    Storages = 2
    Cap = 1
    MaxVersion = 3
    MaxReports = 2
INVARIANTS
    CoverNotOlder
PROPERTIES
    CoverFetched
    OfferConverges
CHECK_DEADLOCK FALSE
