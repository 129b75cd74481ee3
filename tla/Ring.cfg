SPECIFICATION Spec
CONSTANTS
    a = a
    b = b
    c = c
    Values <- MCValues
    Capacity = 4
    InsertRoom = 2
INVARIANTS TypeOK ShiftsLikeTheLoop
PROPERTIES IsQueue
