SPECIFICATION Spec
CONSTANTS
    Programs = {p1, p2}
    Heights = {0, 1}
    Absent = Absent
    Empty = Empty
INVARIANTS
    StructsTellTheTruth
PROPERTIES
    NeverPressesDown
