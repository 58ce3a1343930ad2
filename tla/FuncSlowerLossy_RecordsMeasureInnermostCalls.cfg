\* The funcslower instance with missed return probes: a nested call whose
\* kretprobe is missed leaves its entry for the enclosing call's return.
CONSTANTS
  t1 = t1
  t2 = t2
  t3 = t3
  NoKey = NoKey
  Threads = {t1, t2, t3}
  Tgid <- MCTgid
  TGID = 1
  NFuncs = 1
  DURATION_NS = 2
  ENTRY_MAX = 1
  PERF_CAP = 1
  MaxTime = 4     \* two slow calls, one after the other
  MaxDepth = 2
  MaxCalls = 3
SPECIFICATION LossySpec
INVARIANT RecordsMeasureInnermostCalls
