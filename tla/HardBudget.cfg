CONSTANTS
    Cases = 1
    Mutations = 1
    Budgets = {11, 20}
    Reserve = 1
    OutputCap = 1
    FileSizes = {2}
    MaxAttempts = 2
SPECIFICATION Spec
INVARIANTS
    HardBudget
CHECK_DEADLOCK FALSE
