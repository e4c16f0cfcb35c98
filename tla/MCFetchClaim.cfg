CONSTANTS
    web = web
    other = other
    item = item
    Fetch = {web, other, item}
    Batch = {item}
    Origin = {1, 2}
    raw_origin <- RawOrigin
    http_concurrency = 2
    circuit_failure_threshold = 2
    retry_max_attempts = 2
    redirect_limit = 2
SPECIFICATION Spec
INVARIANT
    AtMostConcurrentPerOrigin
