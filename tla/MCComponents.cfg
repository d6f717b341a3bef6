SPECIFICATION Spec
CONSTANTS
    Item = {i1, i2}
    Content = {c1, c2}
    Caller = {a1, a2}
    Location = {l1}
    Home = Home
    New = New
    Name = {n1, n2}
    First = n1
    None = None
    Torn = Torn
    Absent = Absent
    Due = {m1, m2}
SYMMETRY Symmetry
INVARIANTS
    AcknowledgedStored SuccessConsistent  AcknowledgedKept
    RecoveredUsable   
    MetadataMirrors  OrderKept
PROPERTY CardsKept
CHECK_DEADLOCK FALSE
