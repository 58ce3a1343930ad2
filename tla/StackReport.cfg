\* funcslower stack output for -U or neither, folded or not, and -K folded
\* (-K in tree mode fails in aksym, see StackReport_KernelTree): two user
\* stacks colliding in a 2-element stack_traces, one kernel stack, and
\* calls returning in user code (no kernel stack) or in a kernel thread.
CONSTANTS
  NoStack = NoStack
  u1 = u1
  u2 = u2
  k1 = k1
  Stacks = {u1, u2, k1}
  UserStacks = {u1, u2}
  KernelStacks = {k1}
  StackHash <- MCStackHash
  STORAGE = 2
  ArgChoices <- PrintableArgs
  MaxRecords = 3
SPECIFICATION Spec
INVARIANT TypeOK
INVARIANT ShownAsRequested
