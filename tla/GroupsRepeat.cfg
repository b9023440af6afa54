CONSTANTS
    e1 = e1
    e2 = e2
    groups = groups
    onoff = onoff
    g1 = g1
    g2 = g2
    d = d
    Endpoints = {e1, e2}
    BulbEndpoint = e1
    Clusters = {groups, onoff}
    GroupsCluster = groups
    Groups = {g1, g2}
    Devices = {d}
    DstSize = 3
    SrcSize = 2
    MaxMembers = 2
    MaxTime = 2
    MaxCalls = 2
    Troubles = {"none"}
    MaxAttempts = 1
    MaxPending = 2
    QueueSize = 7
    PayloadSize = 2
    MaxPrint = 3
    Buffers = 3
    Scenes = {"groups"}
SPECIFICATION Spec
PROPERTY RemovingNothingChangesNothing
