CONSTANTS
    advisory = advisory
    vendor = vendor
    defensive = defensive
    Subquery <- MCSubquery
    Provider <- MCProvider
    Priority <- MCPriority
    Label = {advisory, vendor}
    LabelOf <- MCRepeated
    Plans <- MCPlans
    max_concurrent_jobs = 2
    max_concurrent_per_provider = 1
SPECIFICATION Spec
CHECK_DEADLOCK FALSE
INVARIANTS
    LedgerComplete
