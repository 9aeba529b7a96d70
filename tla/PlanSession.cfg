\* Every behaviour of a session, approvals inside plans and repairs included.
CONSTANTS
    Plans <- SmallPlans
    PlanMayAsk = TRUE
    MaxSteps = 3
    MaxRepairSteps = 2
    MaxApprovals = 2
SPECIFICATION Spec
INVARIANTS TypeOK NoItemRepeated
PROPERTIES RefusedCheckpointHolds SessionEnds SessionGetsOn
CHECK_DEADLOCK FALSE
