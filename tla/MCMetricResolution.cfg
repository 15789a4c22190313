SPECIFICATION MetricSpec
CONSTANTS
    Machines <- MCMachines
INVARIANTS OneSource
PROPERTIES SwitchesForCause
