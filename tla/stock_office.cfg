SPECIFICATION Spec
CONSTANTS
    Terminals = {t1}
    Skus = {cafe}
    Locations = {principal, bodega}
    Principal = principal
    Opening <- MCOpening
    principal = principal
    bodega = bodega
    t1 = t1
    cafe = cafe
    Ops = {"sale", "cancel", "adjust", "transfer", "entry", "count", "edit"}
    MaxStock = 2
    MaxSales = 1
    MaxCounts = 1
    MaxApplied = 2
    OnPrincipal = 1
    Elsewhere = 1
INVARIANT UnformedIsLedgerSum
INVARIANT ClosedCountWasApplied
CHECK_DEADLOCK FALSE
