SPECIFICATION AllSpec
CONSTANTS
    v1 = v1
    v2 = v2
    bulk = bulk
    row = row
    l1 = l1
    r1 = r1
    r2 = r2
    r3 = r3
    k1 = k1
    k2 = k2
    f1 = f1
    f2 = f2
    src = src
    api = api
    pkg = pkg
    deep = deep
    readme = readme
    docs = docs
    guide = guide
    root = root
    None = None
    Vulns = {v1, v2}
    Ops = {bulk, row}
    Bulk = bulk
    Loads = {l1}
    MaxPending = 2
    MaxTangled = 1
    Reqs = {r1, r2}
    MaxRotations = 3
    Calls = {k1, k2}
    Items = {src, api, pkg, deep, readme, docs, guide}
    Dirs = {src, api, pkg, docs}
    Root = root
    Contained <- MCContained
    Quota = 3
    Commands = {k1, k2}
    MaxCodePolls = 2
    Requests = {r1, r2, r3}
    MaxDocPolls = 1
    Formats = {f1, f2}
    MaxReportPolls = 2
    Runs = {r1, r2}
INVARIANT ClientsTypeOK SettledAgrees ListingComplete WaitsAreServed
PROPERTY RequestsSettle CommandsEnd GeneratingEnds DastRunEnds
CHECK_DEADLOCK FALSE
