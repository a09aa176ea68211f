\* A value with a marker in it against the statement.
CONSTANTS
    Clients <- Priced
    Catalog <- TheCatalog
    AllowedOrigins <- TheOrigins
    Block = 8
    MaxClock = 2
    Boundary = "bound"
    Code <- TheCode
    Hmac <- Checksum
    Duration = 2
    MaxTime = 9
SPECIFICATION Spec
CHECK_DEADLOCK FALSE
INVARIANT StatementCarriesEveryValue
