\* funcslower stack output with -U and -K together (-UK, as in the tool's
\* examples): the kernel stack get is replaced by -1.
CONSTANTS
  NoStack = NoStack
  u1 = u1
  u2 = u2
  k1 = k1
  Stacks = {u1, u2, k1}
  UserStacks = {u1, u2}
  KernelStacks = {k1}
  StackHash <- MCStackHash
  STORAGE = 2
  ArgChoices <- BothScopesArgs
  MaxRecords = 3
SPECIFICATION Spec
INVARIANT ShownAsRequested
