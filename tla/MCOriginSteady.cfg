CONSTANTS
    fetch = fetch
    hop = hop
    other = other
    render = render
    Origin = {1}
    Req = {fetch, hop, other, render}
    Bounded = {hop, render}
    Render = {render}
    FailureClass = {"Retryable", "NonRetryable"}
    http_concurrency = 1
    browser_concurrency = 1
    circuit_failure_threshold = 2
    circuit_duration = 1
    max_entries = 2
    U8_MAX = 3
    MaxObjects = 1
    MaxTime = 2
SPECIFICATION FairSpec
CHECK_DEADLOCK FALSE
INVARIANTS
    TypeOK
    PermitAccounting
PROPERTIES
    NoStarvation
