CONSTANTS
    advisory = advisory
    vendor = vendor
    defensive = defensive
    Subquery <- MCThree
    Provider <- MCProvider
    Priority <- MCPriority
    Label = {advisory, vendor, defensive}
    LabelOf <- MCSecurity
    Plans <- MCSecurityPlan
    max_concurrent_jobs = 2
    max_concurrent_per_provider = 1
SPECIFICATION Spec
CHECK_DEADLOCK FALSE
INVARIANTS
    DocumentedOutcome
