CONSTANTS
    advisory = advisory
    vendor = vendor
    defensive = defensive
    Subquery <- MCSubquery
    Provider <- MCProvider
    Priority <- MCPriority
    Label = {advisory, vendor}
    LabelOf <- MCDistinct
    Plans <- MCPlans
    max_concurrent_jobs = 2
    max_concurrent_per_provider = 0
SPECIFICATION FairSpec
CHECK_DEADLOCK FALSE
INVARIANTS
    TypeOK
    SlotsAccounted
    NoIdleSlot
    LedgerComplete
    ReportMatchesLedger
PROPERTIES
    NoOvertaking
    LedgerSpec
    Termination
