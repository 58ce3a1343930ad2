\* funcslower stack output with -K alone in tree mode: aksym reads the
\* undefined args.annotations and the kernel frames are never printed.
CONSTANTS
  NoStack = NoStack
  u1 = u1
  u2 = u2
  k1 = k1
  Stacks = {u1, u2, k1}
  UserStacks = {u1, u2}
  KernelStacks = {k1}
  StackHash <- MCStackHash
  STORAGE = 2
  ArgChoices <- KernelTreeArgs
  MaxRecords = 3
SPECIFICATION Spec
INVARIANT ShownAsRequested
