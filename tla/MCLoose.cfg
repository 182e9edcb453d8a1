CONSTANTS
    j1 = j1
    j2 = j2
    n1 = n1
    n2 = n2
    a1 = a1
    e1 = e1
    e2 = e2
    d1 = d1
    m1 = m1
    h1 = h1
    s1 = s1
    x1 = x1
    None = None
    Jobs = {j1, j2}
    Nodes = {n1, n2}
    Members = {m1}
    Allocs = {a1}
    Evals = {e1, e2}
    Deployments = {d1}
    ConsulNodes = {h1}
    Services = {s1}
    Sessions = {x1}
    ServiceJobs = {j2}
    Periodic = {j1}
    JobOf <- MCJobOf
    NodeOf <- MCNodeOf
    Related <- MCRelated
    ParentOf <- MCParentOf
    Latest <- MCLatest
    VersionOf <- MCVersionOf
    Known <- MCLooseKnown
    Visited = {"jobs", "job"}
    MaxFlight = 1
    MaxStrays = 1
    MaxLoose = 0
SPECIFICATION BrowserSpec
INVARIANTS
    RunsOnce
    ActsOnItsAddress
PROPERTIES
    ComesUp
