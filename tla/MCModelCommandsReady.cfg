CONSTANTS
    Models = {m1, m2}
    Ops = {o1, o2}
    Deletes = {d1}
    MaxCommands = 3
    None = None
SPECIFICATION CSpec
INVARIANT ReadyImpliesServed
CHECK_DEADLOCK FALSE
