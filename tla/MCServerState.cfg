CONSTANTS
    Render = {r1, r2, r3}
    Nobody = Nobody
    global_concurrency = 2
    MAX_RESTARTS = 1
    Request = {q1, q2, q3}
    LockFile = {f1, f2, f3, f4}
    NoFile = NoFile
    Unlocked = Unlocked
    Call = {c1, c2}
    BatchCall = {c2}
    CacheKey = {k1, k2, k3}
    k1 = k1
    k2 = k2
    k3 = k3
    NoKey = NoKey
    body_len <- BodyLen
    max_raw_entries = 2
    raw_max_bytes = 4
    Search = {s1, s2}
    Provider = {p1, p2}
    COOLDOWN_THRESHOLD = 2
    NoTrigger = NoTrigger
    Updater = {u1, u2}
    MaxVersion = 3
    Lookup = {l1, l2}
    cache_ttl = 2
    KEV_TIMEOUT = 2
    Query = {a1, a2, a3}
    interval = 2
SPECIFICATION StateSpec
CHECK_DEADLOCK FALSE
INVARIANTS
    StateTypeOK
    OneLiveBrowser
    ProfileExclusive
    BytesMatch
    CooldownMeansFailures
    AlwaysAsksSomeone
    ReasonNamesTheKill
    OnlyTheTimeoutStrays
PROPERTIES
    RefusedOnlyWithoutBrowser
    DeadBrowserCleared
    NeverGoesBack
    BlameOnlyAtDeadline
    DowngradeNeedsOverlap
    EnginesKeepTime
    EveryCallEnds
