\* Requests of every encoding, with every defect, in packets cut anywhere.
CONSTANTS
    Clients <- ManyClients
    Catalog <- TheCatalog
    AllowedOrigins <- TheOrigins
    Block = 8
    MaxClock = 2
    Boundary = "bound"
    Code <- TheCode
    Hmac <- Checksum
    Duration = 2
    MaxTime = 9
SPECIFICATION Spec
CHECK_DEADLOCK FALSE
INVARIANTS TypeOK RoomToRead ParamsAsSent StatementCarriesValues TokenIdentifies
PROPERTIES DecidesAsReactor
