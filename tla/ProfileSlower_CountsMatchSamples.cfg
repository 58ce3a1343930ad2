\* profile_slower (user + kernel stacks) with a stack map of 3 elements (4 buckets): two
\* threads of one process, two user stacks that collide, one kernel stack.
CONSTANTS
  t1 = t1
  t2 = t2
  u1 = u1
  u2 = u2
  k1 = k1
  NoStack = NoStack
  Threads = {t1, t2}
  Tgid <- MCTgid
  Comm <- MCComm
  PID <- MCAllThreads
  Stacks = {u1, u2, k1}
  UStacks = {u1, u2}
  KStacks = {k1}
  StackHash <- MCStackHash
  STORAGE = 3
  IPs = {3}
  PAGE_OFFSET = 2
  USER_ONLY = FALSE
  KERNEL_ONLY = FALSE
  DURATION_NS = 1
  ENTRY_MAX = 2
  COUNTS_MAX = 1
  MaxTime = 2
  MaxDepth = 1
  MaxTicks = 3
SPECIFICATION Spec


INVARIANT CountsMatchSamples
