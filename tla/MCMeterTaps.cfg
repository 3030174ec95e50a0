CONSTANTS
    int = int
    sup = sup
    Eng = Eng
    f1 = f1
    f2 = f2
    f3 = f3
    Lanes = {int, sup}
    Filters = {f1, f2, f3}
    MaxEvents = 2
SPECIFICATION Spec
INVARIANTS
    TypeOK
    OneFilter
PROPERTIES
    StripMetered
CHECK_DEADLOCK FALSE
