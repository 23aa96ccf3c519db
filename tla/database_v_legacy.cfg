SPECIFICATION Spec
CONSTANTS
    Procs = {p1}
    Columns = {rubro, apartado}
    Declared = {rubro}
    Indexed = {rubro}
    Rows = {bebidas}
    NoOne = noone
    Keep = 1
    MaxWrites = 1
INVARIANT OnlyFutureRefused
CHECK_DEADLOCK FALSE
