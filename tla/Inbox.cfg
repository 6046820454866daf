SPECIFICATION Spec
VIEW View
CONSTANTS
    Daemons = {a, b}
    a = a
    b = b
    Own <- MCOwn
    claude = claude
    AgentTypes = {claude}
    i1 = i1
    Instances = {i1}
    MsgIds = {m1, m2}
    Targets <- MCTargets
    Pollers <- MCPollers
    Limit = 1
    Times = {1}
    None = None
    Star = Star
    MaxTimers = 2
INVARIANTS TypeOK ReadMeansDelivered DeliveredIsAddressed ReportIsTrue LoopAlive
PROPERTIES RowsOnlyAdvance
