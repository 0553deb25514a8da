CONSTANTS
    Models = {m1, m2}
    Ops = {o1, o2}
    Deletes = {d1}
    MaxCommands = 3
    None = None
SYMMETRY Symmetry
SPECIFICATION CSpec
INVARIANTS CTypeOK ReadyIsServed ServedWasHashed ReadyWasHashed DoneIsRecorded
PROPERTY SlotSpec
CHECK_DEADLOCK FALSE
