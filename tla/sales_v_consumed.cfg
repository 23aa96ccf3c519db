SPECIFICATION Spec
CONSTANTS
    Terminals = {t1}
    Names = {ana}
    Clients = {ana}
    Limit <- LimitFour
    Totals = {3}
    Amounts = {3}
    OpeningAmount = 2
    Kinds = {"Cotizacion"}
    Ops = {"document", "convert", "abono"}
    MaxDocs = 3
    MaxTurns = 0
PROPERTY ConsumedForGood
CHECK_DEADLOCK FALSE
