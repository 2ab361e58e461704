CONSTANTS
    Id = {1, 2}
    Field = {f}
    Value = {v1, v2}
    Missing = missing
    Absent = absent
    Request = {r1, r2}
    MaxOps = 4
SPECIFICATION Spec
SYMMETRY Symmetry
INVARIANTS
    TypeOK
    QueryFindsMatches
    QueryFindsOnlyMatches
    DropLeavesNothing
CHECK_DEADLOCK FALSE
