CONSTANTS
    web = web
    other = other
    item = item
    Fetch = {web, other}
    Batch = {}
    Origin = {1, 2}
    raw_origin <- RawOrigin
    http_concurrency = 1
    circuit_failure_threshold = 2
    retry_max_attempts = 2
    redirect_limit = 2
SPECIFICATION FairSpec
INVARIANTS
    TypeOK
    ThrottledWithinCeiling
    NeverWaitsForItself
    PermitsServeRequests
PROPERTIES
    EveryFetchEnds
