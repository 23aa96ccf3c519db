SPECIFICATION PartsSpec
CONSTANTS
    Terminals = {t1, t2}
    Nobody = nobody
    Caja = {caja}
    Skus = {cafe}
    Cost <- CostTwo
    Quantities = {1, 3}
    Amounts = {1, 2, 3}
    MaxOrders = 1
    MaxPayments = 3
    Users = {"ana"}
    Admin = "admin"
    Passwords = {p1, p2}
    FewPasswords = {"clave"}
    Codes = {"c1"}
    Tokens = {"k1"}
    MaxAttempts = 3
    Columns = {"rubro", "apartado"}
    Declared = {"rubro"}
    Indexed = {"rubro"}
    Categories = {"bebidas"}
    CopiesKept = 1
    MaxWrites = 3
    Products = {"cafe", "te"}
    Makers = {oficina}
    MaxStock = 1
    Screens = {"pos", "menu"}
    Sequences = {"c2", "c3", "c4"}
    DefaultKeys <- Shortcuts
    FolioTypes = {"NC"}
    Prefixes <- ThreePrefixes
    Counters = {"N", "V", "OC"}
    OrderCounter = "OC"
    DefaultSeries <- OneSeries
    SaleSeries <- Till
    Figures = {"1"}
    Digits <- Unary
    MaxDocs = 2
    MaxSeries = 4
    Rows = {1, 2, 3, 4}
    PageSize = 2
    Matching = {2, 3, 4}
    Rubro = {1, 3, 4}
    ClientIds = {1, 2}
    ClientNames = {"Ana", "ANA", "Luz"}
    ClientLower <- ClientCase
    ClientLimit = 2
    MaxOpen = 2
    CategoryIds = {1, 2}
    CategoryNames = {"Te", "TE"}
    CategoryLower <- CategoryCase
    Filed = {"verde"}
    Lines = {"own"}
    Buyers = {"ana"}
    Clients = {"ana"}
    Limit <- LimitFour
    Totals = {3}
    Abonos = {3}
    OpeningAmount = 2
    SaleTypes = {"Cotizacion", "Factura"}
    MaxSales = 3
    MaxTurns = 2
    MaxSteps = 3
    MaxDepth = 3
SYMMETRY Symmetry
INVARIANT ShownHasEntered
INVARIANT PayableIsWhatEntered
INVARIANT OrdersSquare
INVARIANT CredentialsAsSet
INVARIANT ThreeFailuresLock
INVARIANT SecretsAreSingleUse
INVARIANT FileIsWhole
INVARIANT BackupsRestore
INVARIANT RowsAgree
INVARIANT SettingsAgree
INVARIANT SeriesNeverStuck
INVARIANT ScrollIsTheSearch
INVARIANT OneDebtor
INVARIANT NothingOrphaned
INVARIANT TurnsAndNotesClose
INVARIANT DepthIsNesting
PROPERTY CancelledOrderStays
CHECK_DEADLOCK FALSE
