SPECIFICATION Spec
CONSTANTS
    Jobs = {"j1", "j2"}
    Servers = {"s1", "s2", "s3"}
    Versions = {"v1", "bad"}
    Valid = {"v1"}
    Base <- NoBase
    Clients = {"c1"}
    MaxOps = 3
    FaultModels = {{"remove"}}
INVARIANT RestartKeepsAcknowledged
\* The requests are bounded by MaxOps: the model stops there.
CHECK_DEADLOCK FALSE
