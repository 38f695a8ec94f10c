SPECIFICATION Spec
CONSTANTS
    r1 = r1
    r2 = r2
    r3 = r3
    Replicas <- ThreeReplicas
    Newest = 3
INVARIANTS
    ServedSchemaIsComplete
    MigratorsNeverClash
PROPERTY
    BootEnds
