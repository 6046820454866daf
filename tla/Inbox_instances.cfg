SPECIFICATION Spec
CONSTANTS
    Daemons = {b}
    a = a
    b = b
    Own <- MCOwn
    claude = claude
    AgentTypes = {claude}
    i1 = i1
    Instances = {i1}
    MsgIds = {m1}
    Targets <- MCInstanceOfB
    Pollers = {}
    Limit = 1
    Times = {1}
    None = None
    Star = Star
    MaxTimers = 1
INVARIANTS InstanceIsAddressable
