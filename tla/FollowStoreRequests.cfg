\* One trace, two clients, and every request they can make at any time; the
\* report of a job with three callers and as many flush tasks.
SPECIFICATION DaemonSpec
CONSTANTS
  Trace = {t1}
  Payload = {p1, p2}
  Launch = {l1, l2}
  Caller = {c1, c2}
  MaxActiveJobs = 1
  NoJob = NoJob
  NoLaunch = NoLaunch
  NoRequest = NoRequest
  NoVerdict = NoVerdict
  MaxStops = 1
  MaxFailures = 1
  r1 = r1
  r2 = r2
  r3 = r3
  f1 = f1
  f2 = f2
  f3 = f3
  Reporter = {r1, r2, r3}
  Arming = r1
  Task = {f1, f2, f3}
SYMMETRY Symmetric
INVARIANTS AnswersAgree ArmedIsRun CancelSettles
PROPERTIES OnlyClaimRevives NeverBack
