CONSTANTS
    Plans <- SmallPlans
    PlanMayAsk = FALSE
    MaxSteps = 3
    MaxRepairSteps = 2
    MaxApprovals = 2
SPECIFICATION Spec
INVARIANT SuccessIsVerified
CHECK_DEADLOCK FALSE
