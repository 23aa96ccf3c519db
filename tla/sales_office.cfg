SPECIFICATION Spec
CONSTANTS
    Terminals = {t1}
    Names = {ana, mostrador}
    Clients = {ana}
    Limit <- LimitFour
    Totals = {3}
    Amounts = {1, 3}
    OpeningAmount = 2
    Kinds = {"Cotizacion"}
    Ops = {"sale", "cancel", "abono", "advance", "convert", "document", "creditNote", "debitNote"}
    MaxDocs = 2
    MaxTurns = 0
INVARIANT AbonosOnTheSale
INVARIANT DebtWithinLimit
PROPERTY CancelledForGood
CHECK_DEADLOCK FALSE
