CONSTANTS
    a = a
    b = b
    x = x
    y = y
    z = z
    Machines <- MCMachines
    Sessions <- MCSessions
    Owner <- MCOwner
    Project <- MCOwner
    Longest <- MCLongest
    Old = {a}
    MaxPushAttempts = 2
    Readers = {b}
    Changing = {x}
    MaxChanges = 1
    MaxFaults = 1
SPECIFICATION FairSpec
INVARIANTS TypeOK PushMeansShipped DeletedStaysOut
PROPERTIES NothingLeavesArchive ReplicaKeepsUp ImplementsShared ArchiveCatchesUp
