SPECIFICATION Spec
CONSTANTS
    Terminals = {t1, t2}
    Skus = {cafe}
    Locations = {principal, bodega}
    Principal = principal
    Opening <- MCOpening
    principal = principal
    bodega = bodega
    t1 = t1
    t2 = t2
    cafe = cafe
    Ops = {"sale", "transfer"}
    MaxStock = 3
    MaxSales = 1
    MaxCounts = 0
    MaxApplied = 2
    OnPrincipal = 2
    Elsewhere = 0
PROPERTY TransferKeepsAggregate
CHECK_DEADLOCK FALSE
