SPECIFICATION Spec
CONSTANTS
    Terminals = {t1, t2, t3}
    Skus = {cafe}
    Locations = {principal, bodega}
    Principal = principal
    Opening <- MCOpening
    principal = principal
    bodega = bodega
    t1 = t1
    t2 = t2
    t3 = t3
    cafe = cafe
    Ops = {"sale", "cancel", "reserve", "release"}
    MaxStock = 4
    MaxSales = 4
    MaxCounts = 0
    MaxApplied = 2
    OnPrincipal = 3
    Elsewhere = 1
SYMMETRY Symmetry
INVARIANT LedgerNonNegative
INVARIANT AggregateIsLedgerSum
INVARIANT ReservedWithinStock
INVARIANT KardexIsCurrent
INVARIANT UnitsKept
