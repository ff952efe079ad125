SPECIFICATION FairExecution
CONSTANTS
    e1 = e1
    t1 = t1
    t2 = t2
    t3 = t3
    s1 = s1
    s2 = s2
    a1 = a1
    a2 = a2
    Epics <- OneEpic
    Tasks <- ThreeTasks
    Subtasks <- TwoSubtasks
    EpicOf <- InOneEpic
    TaskOf <- UnderTwo
    CustomStatuses = {}
    MaxBatch = 0
    Agent = {a1, a2}
    PlanEdges <- SomeEdges
    MaxCrashes = 1
INVARIANTS AgentsOK ReadyIsKnown
PROPERTIES Finishes
CHECK_DEADLOCK FALSE
