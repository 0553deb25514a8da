\* Three requests over two slots, drained two at a time.
CONSTANTS
    r1 = r1
    r2 = r2
    r3 = r3
    Requests = {r1, r2, r3}
    Latecomer = r3
    Capacity = 2
    DrainLimit = 2
SPECIFICATION MCSpec
INVARIANTS RTypeOK SingleHolder CapacityRespected NoResidue WorkerFailsOnlyAfterAbandon BatchMatchesInFlight
PROPERTIES EveryWaitEnds QueuedIsServed
CHECK_DEADLOCK FALSE
