SPECIFICATION PromosSpec
CONSTANTS
    Terminals = {t1, t2}
    Products = {telefono}
    Serials = {s1}
    Codes = {promo}
    None = none
    OpeningStock = 2
    Statuses = {"rma"}
    Quantities = {2}
    Limits = {1}
    MaxLines = 2
    MaxSales = 2
SYMMETRY Symmetry
INVARIANT UnitFollowsSale
INVARIANT UsesAreCounted
