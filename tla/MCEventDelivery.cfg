CONSTANTS
    pub = pub
    conv = conv
    opn = opn
    opstr = opstr
    GapStream = gap
    Sources <- MCSources
    PrivateStreams = {conv, opstr}
    PrivateOps = {opn}
    Capacity = 2
    Limit = 2
    MaxEmits = 4
SPECIFICATION FairSpec
INVARIANTS DeliveryTypeOK PurgedStaysOut PipelineOrdered NoMissedBacklog FailsOnlyAfterLoss NothingSkipped NoHoleProjected
PROPERTY QueueDrains
CHECK_DEADLOCK FALSE
