SPECIFICATION MCSpec
CONSTANTS
  Processes = {p1, p2}
  Requests = {q1, q2}
  NumDocs = 2
  Charts <- RenderedCharts
  Workloads = {1}
  MaxRevision = 3
  MaxFaults = 3
SYMMETRY Symmetry
INVARIANTS
  TypeOK
  PendingIsLock
  DeployedAnchor
  ManifestIsLive
