CONSTANTS
    Node = {n1, n2}
    Monitor = {m1, m2}
    NoOne = noone
    MaxPolls = 1
    MaxMonitorCrashes = 1
SPECIFICATION MonitorSpec
INVARIANTS EstablishedNodesKept
PROPERTIES DeadNodesCleaned
CHECK_DEADLOCK FALSE
