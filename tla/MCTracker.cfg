SPECIFICATION Spec
CONSTANTS
    e1 = e1
    t1 = t1
    t2 = t2
    s1 = s1
    Epics <- OneEpic
    Tasks <- MCTasks
    Subtasks <- MCSubtasks
    EpicOf <- InOneEpic
    TaskOf <- MCTaskOf
    CustomStatuses = {"cancelled"}
    MaxBatch = 2
INVARIANTS
    TypeOK
    ReferentialIntegrity
    DependenciesAcyclic
    ReplayAgrees
PROPERTIES
    GateHolds
