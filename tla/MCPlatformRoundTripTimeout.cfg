CONSTANTS
    r1 = r1
    Requests = {r1}
    Capacity = 1
    DrainLimit = 1
SPECIFICATION RSpec
INVARIANT TimeoutMeansNoAnswer
CHECK_DEADLOCK FALSE
