SPECIFICATION Spec
CONSTANTS
    p1 = p1
    p2 = p2
    j1 = j1
    j2 = j2
    Players = {p1}
    Callers = {j1}
    NoOne = NoOne
    Settings = {0, 5}
INVARIANT StartedWithSetting
