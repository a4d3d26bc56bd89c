SPECIFICATION Spec
CONSTANTS
    Callers = {c1, c2}
    Symbols = {s1, s2}
    MaxCalls = 2
INVARIANT NeverCrashes
CHECK_DEADLOCK FALSE
