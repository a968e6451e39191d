\* One launch; a write fails, an answer is lost, the daemon ends, and the
\* Jobs window asks once.
SPECIFICATION FairFlowSpec
CONSTANTS
  Trace = {t1}
  Payload = {p1}
  Launch = {l1}
  Caller = {c1, c2}
  MaxActiveJobs = 1
  NoJob = NoJob
  NoLaunch = NoLaunch
  NoRequest = NoRequest
  NoVerdict = NoVerdict
  NoLine = NoLine
  MaxStops = 1
  MaxFailures = 1
  CancelTries = 2
  MaxLost = 1
  MaxDesk = 1
INVARIANTS NoOrphan
PROPERTY LaunchEnds
