SPECIFICATION EndlessSpec
VIEW View
CONSTANTS
    Daemons = {a}
    a = a
    b = b
    Own <- MCOwn
    claude = claude
    AgentTypes = {claude}
    i1 = i1
    Instances = {i1}
    MsgIds = {m1, m2}
    Targets <- MCSibling
    Pollers <- MCPollers
    Limit = 1
    Times = {1, 2}
    None = None
    Star = Star
    MaxTimers = 2
PROPERTIES EventuallyDelivered
