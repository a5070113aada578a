SPECIFICATION Spec
CONSTANTS
    w1 = w1
    w2 = w2
    a1 = a1
    a2 = a2
    p1 = p1
    p2 = p2
    s1 = s1
    s2 = s2
    Writer = {w1}
    Address = {a1, a2}
    Port = {p1, p2}
    Slot = {s1}
    MaxWrites = 1
    None = None
CHECK_DEADLOCK FALSE
INVARIANT PairRulesBlock
