CONSTANTS
    Op = {o1, o2, o3}
    Command <- MCCommand
    Cluster <- MCCluster
    MaxVersion = 3
SPECIFICATION Spec
INVARIANTS
    TypeOK
    AddedIsMember
    RoleSettled
    AssignedInOrder
    DumpWhole
PROPERTY
    ImplementsMembership
CHECK_DEADLOCK FALSE
SYMMETRY Symmetry
