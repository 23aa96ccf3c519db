SPECIFICATION Spec
CONSTANTS
    Terminals = {t1, t2}
    Names = {ana}
    Clients = {ana}
    Limit <- LimitFour
    Totals = {4}
    Amounts = {2}
    OpeningAmount = 2
    Kinds = {"Factura"}
    Ops = {"sale", "cancel", "open", "close", "abono", "creditNote"}
    MaxDocs = 2
    MaxTurns = 2
SYMMETRY Symmetry
INVARIANT DebtIsOpenCredit
INVARIANT TillListsItsSales
INVARIANT TillSquares
INVARIANT OpenBalanceIsUnpaid
CHECK_DEADLOCK FALSE
