\* Three threads, -p 1 so that t3 is filtered out, one probe, threshold 2,
\* an entry map of two elements (so the third thread finds it full) and a
\* ring of one record (so a second slow return is dropped).
CONSTANTS
  t1 = t1
  t2 = t2
  t3 = t3
  NoKey = NoKey
  Threads = {t1, t2, t3}
  Tgid <- MCTgid
  TGID = 1
  NFuncs = 1
  DURATION_NS = 2
  ENTRY_MAX = 1
  PERF_CAP = 1
  MaxTime = 3
  MaxDepth = 2
  MaxCalls = 4
SPECIFICATION Spec



INVARIANT RecordIdentity
