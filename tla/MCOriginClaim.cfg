CONSTANTS
    fetch = fetch
    hop = hop
    other = other
    render = render
    Origin = {1, 2, 3}
    Req = {fetch, hop}
    Bounded = {hop}
    Render = {}
    FailureClass = {"Retryable"}
    http_concurrency = 1
    browser_concurrency = 1
    circuit_failure_threshold = 1
    circuit_duration = 1
    max_entries = 2
    U8_MAX = 1
    MaxObjects = 4
    MaxTime = 1
SPECIFICATION Spec
CHECK_DEADLOCK FALSE
INVARIANTS
    IdleEvictionKeepsCeiling
