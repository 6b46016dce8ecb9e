SPECIFICATION FairSpec
CONSTANTS
    Printers = {p1, p2}
    Ips = {i1}
    Nobody = Nobody
    MaxMoves = 2
    MaxNet = 1
PROPERTIES
    CallsReturn
    AddressesConverge
