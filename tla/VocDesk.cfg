SPECIFICATION FairSpec
CONSTANTS
  u1 = u1
  u2 = u2
  timer = timer
  x1 = x1
  x2 = x2
  cveSignal = cveSignal
  post = post
  bdu = bdu
  scan = scan
  evidence = evidence
  None = None
  Request = {u1, u2, timer}
  Boot = timer
  TaskId = {t1, t2, t3}
  CaseId = {c1, c2}
  CVE = {x1, x2}
  Urgency <- Scores
  Ops <- AllOps
  Signal = {cveSignal, post, bdu}
  Source <- Sources
  CveOf <- About
  Priority <- Ranks
  Step = {scan, evidence}
  Markable = {scan}
  Evidence = evidence
  Workload <- Workloads
INVARIANTS TypeOK OneCasePerKey OneTaskPerCase ScoreIsCurrent
PROPERTIES ResolveSettles NoSilentReopen MarksSurvive TaskArrives
CHECK_DEADLOCK FALSE
